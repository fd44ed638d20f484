-------------------------- MODULE HostNetwork_proofs --------------------------
(***************************************************************************)
(* The network from the SoT to the node, for any set of well-formed        *)
(* records, nodes with any NICs, runs, contents and faults.                *)
(*                                                                         *)
(* First the apply: what a restoring command copies back exists; a node    *)
(* that cannot be reached is on its way back; and a run that reports the   *)
(* network in place is right.  The last two assume that a reload is over   *)
(* before its timer fires (InWindow) and before its job reconnects, and an *)
(* applier before another one starts (Quick).                              *)
(*                                                                         *)
(* Then the render, of one record: the address a NIC shows in a bond does  *)
(* not matter, and the port that the installation used carries management  *)
(* under a record that the Host Baseline accepts.                          *)
(*                                                                         *)
(* Last the composition: what is proved of the apply holds of it, a node   *)
(* with its bonds up is planned like a fresh one, and the cable of the     *)
(* installation stays the uplink of management.                            *)
(***************************************************************************)
EXTENDS HostNetwork, FiniteSetTheorems, TLAPS


(* What the steps of an applier and of a job change, and what they leave.  *)
LEMMA AppMoves ==
  ASSUME applier \in [Runs -> Applier], NEW r \in Runs, NEW s \in AppSteps, AppGoto(r, s)
  PROVE  /\ applier' \in [Runs -> Applier]
         /\ applier'[r].at = s
         /\ applier'[r].read = applier[r].read /\ applier'[r].cut = applier[r].cut
         /\ \A q \in Runs \ {r} : applier'[q] = applier[q]
BY DEF AppGoto, Applier

LEMMA AppReading ==
  ASSUME applier \in [Runs -> Applier], NEW r \in Runs, NEW s \in AppSteps,
         NEW c \in Contents \union {Absent}, AppReads(r, s, c)
  PROVE  /\ applier' \in [Runs -> Applier]
         /\ applier'[r].at = s
         /\ applier'[r].read = c /\ applier'[r].cut = applier[r].cut
         /\ \A q \in Runs \ {r} : applier'[q] = applier[q]
BY DEF AppReads, Applier

LEMMA AppEnding ==
  ASSUME applier \in [Runs -> Applier], NEW r \in Runs,
         NEW o \in {"none", "ok", "changed", "failed"}, AppEnds(r, o)
  PROVE  /\ applier' \in [Runs -> Applier]
         /\ applier'[r].at = "ended" /\ applier'[r].out = o /\ applier'[r].cut = applier[r].cut
         /\ \A q \in Runs \ {r} : applier'[q] = applier[q]
BY DEF AppEnds, Applier, AppSteps

LEMMA AppCut ==
  ASSUME applier \in [Runs -> Applier], NEW r \in Runs, CutSession(r)
  PROVE  /\ applier' \in [Runs -> Applier]
         /\ applier'[r].cut
         /\ applier'[r].at = applier[r].at /\ applier'[r].read = applier[r].read
         /\ \A q \in Runs \ {r} : applier'[q] = applier[q]
BY DEF CutSession, Applier

LEMMA JobMoves ==
  ASSUME job \in [Runs -> Job], NEW r \in Runs, NEW s \in JobSteps \union JobEnds, JobGoto(r, s)
  PROVE  /\ job' \in [Runs -> Job]
         /\ job'[r].at = s
         /\ job'[r].render = job[r].render
         /\ \A q \in Runs \ {r} : job'[q] = job[q]
BY DEF JobGoto, Job

-----------------------------------------------------------------------------
(* Every step counts its faults, and botched is never taken back. *)
LEMMA FaultSteps == [Next]_vars => NoFault \/ Fault \/ RestoreFault \/ Reboot
<1> SUFFICES ASSUME [Next]_vars PROVE NoFault \/ Fault \/ RestoreFault \/ Reboot
  OBVIOUS
<1>1. CASE UNCHANGED vars
  BY <1>1 DEF vars, NoFault
<1>2. ASSUME NEW r \in Runs, Apply(r) PROVE NoFault \/ Fault \/ RestoreFault
  BY <1>2 DEF Apply, Stage, BackUp, ArmTimer, MoveFile, Reload, RestoreFile, RestoreLive, Dies
<1>3. ASSUME NEW r \in Runs, TimerRuns(r) PROVE NoFault \/ RestoreFault
  BY <1>3 DEF TimerRuns, Fire, CopyBack, ReloadBack
<1>4. ASSUME NEW r \in Runs, JobRuns(r) PROVE NoFault \/ Fault
  BY <1>4 DEF JobRuns, InSync, SendApply, StepFails, TakeResult, LoseSession, Reconnect, GiveUp,
              ReadMarker, CancelTimer, Recheck, Verify
<1>5. ASSUME NEW r \in Runs, Start(r) \/ Refuse(r) \/ ConfirmFails(r) \/ WorkerDies(r) PROVE NoFault \/ Fault
  BY <1>5 DEF Start, StartWith, Refuse, ConfirmFails, WorkerDies
<1> QED
  BY <1>1, <1>2, <1>3, <1>4, <1>5 DEF Next

LEMMA BotchedStays == [Next]_vars /\ botched => botched'
<1>1. Reboot /\ botched => botched'
  BY DEF Reboot
<1>2. (NoFault \/ Fault \/ RestoreFault) /\ botched => botched'
  BY DEF NoFault, Fault, RestoreFault
<1> QED
  BY <1>1, <1>2, FaultSteps

-----------------------------------------------------------------------------
(* A timer that was armed, and an applier that came that far, has a backup; *)
(* an applier that reloads has read a file.                                *)
BackedUp(r) ==
  timer[r] # "none" \/ applier[r].at \in {"arm", "move", "reload", "restore", "rereload"}
    => backup[r] \in Contents

HasRead(r) == applier[r].at \in {"reload", "rereload"} => applier[r].read \in Contents

(* A job that waits for the messages of an applier has not left it.        *)
Waits(r) ==
  /\ job[r].at \in {"idle", "planned"} => applier[r].at = "none" /\ ~applier[r].cut
  /\ job[r].at = "applying" => ~applier[r].cut /\ (applier[r].at = "ended" => applier[r].out # "none")

NodeOK ==
  /\ file \in Contents
  /\ staged \in Contents \union {Absent}
  /\ live \in Contents
  /\ backup \in [Runs -> Contents \union {Absent}]
  /\ timer \in [Runs -> TimerStates]
  /\ applier \in [Runs -> Applier]
  /\ job \in [Runs -> Job]
  /\ \A r \in Runs : BackedUp(r) /\ HasRead(r) /\ Waits(r)

CountOK == botched \in BOOLEAN /\ faults \in 0..MaxFaults

LEMMA TypeParts == NodeOK /\ CountOK => NetTypeOK
BY DEF NodeOK, CountOK, NetTypeOK

LEMMA NodeInit == Init => NodeOK
<1> SUFFICES ASSUME Init PROVE NodeOK
  OBVIOUS
<1>1. backup \in [Runs -> Contents \union {Absent}] /\ timer \in [Runs -> TimerStates]
  BY DEF TimerStates, Init
<1>2. applier \in [Runs -> Applier] /\ job \in [Runs -> Job]
  BY NetworkAssumption DEF Applier, AppSteps, Job, JobSteps, JobEnds, Init
<1>3. \A q \in Runs : BackedUp(q) /\ HasRead(q) /\ Waits(q)
  BY DEF BackedUp, HasRead, Waits, Init
<1> QED
  BY <1>1, <1>2, <1>3, NetworkAssumption DEF NodeOK, Init

LEMMA CountInit == Init => CountOK
<1>1. Init => botched \in BOOLEAN
  BY DEF Init
<1>2. Init => faults \in 0..MaxFaults
  BY NetworkAssumption DEF Init
<1> QED
  BY <1>1, <1>2 DEF CountOK

LEMMA Counted == CountOK /\ (NoFault \/ Fault \/ RestoreFault) => CountOK'
<1> SUFFICES ASSUME CountOK, NoFault \/ Fault \/ RestoreFault PROVE CountOK'
  OBVIOUS
<1>1. botched' \in BOOLEAN
  BY DEF CountOK, NoFault, Fault, RestoreFault
<1>2. faults' \in 0..MaxFaults
  <2>1. faults' = faults \/ (faults < MaxFaults /\ faults' = faults + 1)
    <3>1. CASE NoFault
      <4>1. faults' = faults
        BY <3>1 DEF NoFault
      <4> QED
        BY <4>1
    <3>2. CASE Fault
      BY <3>2 DEF Fault
    <3>3. CASE RestoreFault
      BY <3>3 DEF RestoreFault
    <3> QED
      BY <3>1, <3>2, <3>3
  <2> QED
    BY <2>1, NetworkAssumption DEF CountOK
<1> QED
  BY <1>1, <1>2 DEF CountOK

LEMMA CountStep == CountOK /\ [Next]_vars => CountOK'
<1>1. CountOK /\ Reboot => CountOK'
  <2> SUFFICES ASSUME CountOK, Reboot PROVE CountOK'
    OBVIOUS
  <2>1. botched' \in BOOLEAN
    BY DEF Reboot, CountOK
  <2>2. faults < MaxFaults /\ faults' = faults + 1
    BY DEF Reboot
  <2> QED
    BY <2>1, <2>2, NetworkAssumption DEF CountOK
<1> QED
  BY <1>1, Counted, FaultSteps

LEMMA Rebooted ==
  ASSUME NodeOK, Reboot
  PROVE  /\ timer' \in [Runs -> TimerStates]
         /\ \A r \in Runs : timer'[r] = IF timer[r] = "none" THEN "none" ELSE "stopped"
         /\ applier' \in [Runs -> Applier]
         /\ \A r \in Runs : IF applier[r].at \in {"none", "ended"} THEN applier'[r] = applier[r]
                                                            ELSE applier'[r].at = "ended"
         /\ job' \in [Runs -> Job]
         /\ \A r \in Runs :
              /\ job'[r].render = job[r].render /\ job'[r].insync = job[r].insync
              /\ job'[r].at = CASE job[r].at = "applying" -> "reconnect"
                                [] job[r].at \in {"planned", "marker", "stop", "recheck", "verify"} -> "failed"
                                [] OTHER -> job[r].at
<1> USE DEF NodeOK
<1>1. /\ timer' \in [Runs -> TimerStates]
      /\ \A r \in Runs : timer'[r] = IF timer[r] = "none" THEN "none" ELSE "stopped"
  BY DEF Reboot, TimerStates
<1>2. /\ applier' \in [Runs -> Applier]
      /\ \A r \in Runs : IF applier[r].at \in {"none", "ended"} THEN applier'[r] = applier[r]
                                                         ELSE applier'[r].at = "ended"
  <2>1. applier' = [r \in Runs |-> IF applier[r].at \in {"none", "ended"} THEN applier[r]
                ELSE [applier[r] EXCEPT !.at = "ended", !.out = "none", !.cut = TRUE]]
    BY DEF Reboot
  <2>2. ASSUME NEW r \in Runs
      PROVE  [applier[r] EXCEPT !.at = "ended", !.out = "none", !.cut = TRUE] \in Applier
    BY DEF Applier, AppSteps
  <2>3. ASSUME NEW r \in Runs
      PROVE  [applier[r] EXCEPT !.at = "ended", !.out = "none", !.cut = TRUE].at = "ended"
    BY DEF Applier, AppSteps
  <2> QED
    BY <2>1, <2>2, <2>3
<1>3. job' = [r \in Runs |->
               CASE job[r].at = "applying" -> [job[r] EXCEPT !.at = "reconnect"]
                 [] job[r].at \in {"planned", "marker", "stop", "recheck", "verify"} -> [job[r] EXCEPT !.at = "failed"]
                 [] OTHER -> job[r]]
  BY DEF Reboot
<1>4. \A r \in Runs :
        LET to(s) == [job[r] EXCEPT !.at = s] IN
          \A s \in {"reconnect", "failed"} :
            to(s) \in Job /\ to(s).at = s /\ to(s).render = job[r].render /\ to(s).insync = job[r].insync
  BY DEF Job, JobSteps, JobEnds
<1>5. job' \in [Runs -> Job]
  BY <1>3, <1>4
<1>6. \A r \in Runs :
              /\ job'[r].render = job[r].render /\ job'[r].insync = job[r].insync
              /\ job'[r].at = CASE job[r].at = "applying" -> "reconnect"
                                [] job[r].at \in {"planned", "marker", "stop", "recheck", "verify"} -> "failed"
                                [] OTHER -> job[r].at
  BY <1>3, <1>4
<1> QED
  BY <1>1, <1>2, <1>5, <1>6

LEMMA NodeStep == NodeOK /\ [Next]_vars => NodeOK'
<1> SUFFICES ASSUME NodeOK, [Next]_vars PROVE NodeOK'
  OBVIOUS
<1> USE DEF NodeOK, BackedUp, HasRead, Waits, TimerStates, AppSteps, JobSteps, JobEnds
<1> USE DEF NodeSame, AppAt, JobAt, Timer, StopTimer
<1>1. CASE UNCHANGED vars
  BY <1>1 DEF vars
<1>2. CASE Reboot
  <2>1. file' \in Contents /\ staged' \in Contents \union {Absent} /\ live' = file' /\ backup' = backup
    BY <1>2 DEF Reboot
  <2> QED
    BY <1>2, <2>1, Rebooted
<1>3. ASSUME NEW r \in Runs, Apply(r) PROVE NodeOK'
  <2>1. CASE Stage(r)
    <3>1. CASE staged' = Absent /\ AppEnds(r, "ok")
      BY <2>1, <3>1, AppEnding DEF Stage
    <3>2. CASE staged' = job[r].render /\ AppGoto(r, "check")
      <4>1. job[r].render \in Contents
        BY DEF Job
      <4> QED
        BY <2>1, <3>2, <4>1, AppMoves DEF Stage
    <3>3. CASE staged' = staged /\ AppEnds(r, "failed")
      BY <2>1, <3>3, AppEnding DEF Stage
    <3> QED
      BY <2>1, <3>1, <3>2, <3>3 DEF Stage
  <2>2. CASE BackUp(r)
    BY <2>2, AppMoves, AppEnding DEF BackUp
  <2>3. CASE ArmTimer(r)
    BY <2>3, AppMoves, AppEnding DEF ArmTimer
  <2>4. CASE MoveFile(r)
    BY <2>4, AppReading, AppEnding DEF MoveFile
  <2>5. CASE Reload(r)
    BY <2>5, AppMoves, AppEnding DEF Reload
  <2>6. CASE RestoreFile(r)
    BY <2>6, AppReading DEF RestoreFile
  <2>7. CASE RestoreLive(r)
    BY <2>7, AppEnding DEF RestoreLive
  <2>8. CASE Dies(r)
    BY <2>8, AppEnding DEF Dies
  <2> QED
    BY <1>3, <2>1, <2>2, <2>3, <2>4, <2>5, <2>6, <2>7, <2>8 DEF Apply
<1>4. ASSUME NEW r \in Runs, TimerRuns(r) PROVE NodeOK'
  <2>1. CASE Fire(r)
    BY <2>1 DEF Fire
  <2>2. CASE CopyBack(r)
    BY <2>2 DEF CopyBack
  <2>3. CASE ReloadBack(r)
    BY <2>3 DEF ReloadBack
  <2> QED
    BY <1>4, <2>1, <2>2, <2>3 DEF TimerRuns
<1>5. ASSUME NEW r \in Runs, JobRuns(r) PROVE NodeOK'
  <2>1. CASE InSync(r)
    BY <2>1, JobMoves DEF InSync
  <2>2. CASE SendApply(r)
    BY <2>2, JobMoves, AppMoves DEF SendApply
  <2>3. CASE StepFails(r)
    BY <2>3, JobMoves DEF StepFails
  <2>4. CASE TakeResult(r)
    <3>1. applier[r].out \in {"ok", "changed", "failed"}
      BY <2>4 DEF TakeResult, Applier
    <3> QED
      BY <2>4, <3>1, JobMoves DEF TakeResult
  <2>5. CASE LoseSession(r)
    BY <2>5, JobMoves, AppCut DEF LoseSession
  <2>6. CASE Reconnect(r)
    BY <2>6, JobMoves DEF Reconnect
  <2>7. CASE GiveUp(r)
    BY <2>7, JobMoves DEF GiveUp
  <2>8. CASE ReadMarker(r)
    BY <2>8, JobMoves DEF ReadMarker
  <2>9. CASE CancelTimer(r)
    BY <2>9, JobMoves DEF CancelTimer
  <2>10. CASE Recheck(r)
    BY <2>10, JobMoves DEF Recheck
  <2>11. CASE Verify(r)
    BY <2>11, JobMoves DEF Verify
  <2> QED
    BY <1>5, <2>1, <2>2, <2>3, <2>4, <2>5, <2>6, <2>7, <2>8, <2>9, <2>10, <2>11 DEF JobRuns
<1>6. ASSUME NEW r \in Runs, Start(r) PROVE NodeOK'
  BY <1>6 DEF Start, StartWith, MayStart, Job
<1>7. ASSUME NEW r \in Runs, Refuse(r) PROVE NodeOK'
  BY <1>7, JobMoves DEF Refuse
<1>8. ASSUME NEW r \in Runs, ConfirmFails(r) PROVE NodeOK'
  BY <1>8, JobMoves DEF ConfirmFails
<1>9. ASSUME NEW r \in Runs, WorkerDies(r) PROVE NodeOK'
  BY <1>9, JobMoves, AppCut DEF WorkerDies
<1> QED
  BY <1>1, <1>2, <1>3, <1>4, <1>5, <1>6, <1>7, <1>8, <1>9 DEF Next

-----------------------------------------------------------------------------
(* An applier is alone; one that has outlived its job's patience is cut    *)
(* and moves no file; and a reload is over before anybody touches the      *)
(* timer that guards it.                                                   *)
Inactive(r) == applier[r].at \in {"none", "ended"}

Order(r) ==
  /\ ~Inactive(r) => job[r].at \notin {"idle", "planned"} /\ (~applier[r].cut => job[r].at = "applying")
  /\ AppAt(r, "move") /\ ~applier[r].cut => timer[r] = "armed"
  /\ Reloading(r) => timer[r] = "armed" /\ job[r].at \in {"applying", "reconnect", "failed", "dead"}
  /\ \A q \in Runs \ {r} :
       /\ job[r].at \in JobSteps \ {"idle"} => job[q].at \in JobEnds \union {"idle"}
       /\ ~Inactive(r) => Inactive(q) /\ job[q].at \in JobEnds \union {"idle", "planned"}

OneAtATime == \A r \in Runs : Order(r)

LEMMA OrderInit == Init => OneAtATime
<1> SUFFICES ASSUME Init PROVE OneAtATime
  OBVIOUS
<1>1. \A r \in Runs : job[r].at = "idle" /\ applier[r].at = "none"
  BY DEF Init
<1> QED
  BY <1>1 DEF OneAtATime, Order, Inactive, Reloading, AppAt, JobSteps, JobEnds

LEMMA OrderStep == Quick /\ InWindow /\ NodeOK /\ OneAtATime /\ [Next]_vars => OneAtATime'
<1> SUFFICES ASSUME Quick /\ InWindow /\ NodeOK /\ OneAtATime, [Next]_vars PROVE OneAtATime'
  OBVIOUS
<1> USE DEF NodeOK, BackedUp, Waits, OneAtATime, Order, Inactive, Reloading, TimerStates, AppSteps, JobSteps, JobEnds
<1> USE DEF NodeSame, AppAt, JobAt, Timer, StopTimer
<1>1. CASE UNCHANGED vars
  BY <1>1 DEF vars
<1>2. CASE Reboot
  BY <1>2, Rebooted
<1>3. ASSUME NEW r \in Runs, Apply(r) PROVE OneAtATime'
  <2>1. CASE Stage(r)
    BY <2>1, AppMoves, AppEnding DEF Stage
  <2>2. CASE BackUp(r)
    BY <2>2, AppMoves, AppEnding DEF BackUp
  <2>3. CASE ArmTimer(r)
    BY <2>3, AppMoves, AppEnding DEF ArmTimer
  <2>4. CASE MoveFile(r)
    BY <2>4, AppReading, AppEnding DEF MoveFile
  <2>5. CASE Reload(r)
    BY <2>5, AppMoves, AppEnding DEF Reload
  <2>6. CASE RestoreFile(r)
    BY <2>6, AppReading DEF RestoreFile
  <2>7. CASE RestoreLive(r)
    BY <2>7, AppEnding DEF RestoreLive
  <2>8. CASE Dies(r)
    BY <2>8, AppEnding DEF Dies
  <2> QED
    BY <1>3, <2>1, <2>2, <2>3, <2>4, <2>5, <2>6, <2>7, <2>8 DEF Apply
<1>4. ASSUME NEW r \in Runs, TimerRuns(r) PROVE OneAtATime'
  <2>1. CASE Fire(r)
    BY <2>1 DEF Fire
  <2>2. CASE CopyBack(r)
    BY <2>2 DEF CopyBack
  <2>3. CASE ReloadBack(r)
    BY <2>3 DEF ReloadBack
  <2> QED
    BY <1>4, <2>1, <2>2, <2>3 DEF TimerRuns
<1>5. ASSUME NEW r \in Runs, JobRuns(r) PROVE OneAtATime'
  <2>1. CASE InSync(r)
    BY <2>1, JobMoves DEF InSync
  <2>2. CASE SendApply(r)
    BY <2>2, JobMoves, AppMoves DEF SendApply
  <2>3. CASE StepFails(r)
    BY <2>3, JobMoves DEF StepFails
  <2>4. CASE TakeResult(r)
    <3>1. applier[r].out \in {"ok", "changed", "failed"}
      BY <2>4 DEF TakeResult, Applier
    <3> QED
      BY <2>4, <3>1, JobMoves DEF TakeResult
  <2>5. CASE LoseSession(r)
    BY <2>5, JobMoves, AppCut DEF LoseSession
  <2>6. CASE Reconnect(r)
    BY <2>6, JobMoves DEF Reconnect
  <2>7. CASE GiveUp(r)
    BY <2>7, JobMoves DEF GiveUp
  <2>8. CASE ReadMarker(r)
    BY <2>8, JobMoves DEF ReadMarker
  <2>9. CASE CancelTimer(r)
    BY <2>9, JobMoves DEF CancelTimer
  <2>10. CASE Recheck(r)
    BY <2>10, JobMoves DEF Recheck
  <2>11. CASE Verify(r)
    BY <2>11, JobMoves DEF Verify
  <2> QED
    BY <1>5, <2>1, <2>2, <2>3, <2>4, <2>5, <2>6, <2>7, <2>8, <2>9, <2>10, <2>11 DEF JobRuns
<1>6. ASSUME NEW r \in Runs, Start(r) PROVE OneAtATime'
  BY <1>6 DEF Start, StartWith, MayStart, Job
<1>7. ASSUME NEW r \in Runs, Refuse(r) PROVE OneAtATime'
  BY <1>7, JobMoves DEF Refuse, MayStart
<1>8. ASSUME NEW r \in Runs, ConfirmFails(r) PROVE OneAtATime'
  BY <1>8, JobMoves DEF ConfirmFails
<1>9. ASSUME NEW r \in Runs, WorkerDies(r) PROVE OneAtATime'
  BY <1>9, JobMoves, AppCut DEF WorkerDies
<1> QED
  BY <1>1, <1>2, <1>3, <1>4, <1>5, <1>6, <1>7, <1>8, <1>9 DEF Next

-----------------------------------------------------------------------------
(* What a run may rely on at each of its steps. *)
Safe(r) ==
  /\ backup[r] # Absent => backup[r] \in Reaches
  /\ applier[r].at \in {"stage", "check", "arm", "move"} => file \in Reaches /\ live \in Reaches
  /\ applier[r].at = "reload" => file = applier[r].read \/ file \in Reaches
  /\ applier[r].at = "rereload" => file \in Reaches /\ applier[r].read \in Reaches
  /\ job[r].at \in {"marker", "stop", "recheck", "verify"} => file \in Reaches /\ live \in Reaches

(* When no reload runs, the kernel has the file or the file is a good one; *)
(* a node that is cut off, or would be by its file, has a timer.           *)
Loaded == (\A r \in Runs : ~Reloading(r)) => file = live \/ file \in Reaches
Replaced ==
  \/ file \in Reaches /\ live \in Reaches
  \/ \E r \in Runs : timer[r] \in {"armed", "firing"}
  \/ file \in Reaches /\ \E r \in Runs : timer[r] = "copied"

Rescued == (\A r \in Runs : Safe(r)) /\ Loaded /\ Replaced

LEMMA RescuedInit == Init => Rescued
BY NetworkAssumption DEF Init, Rescued, Safe, Loaded, Replaced

(* A step of a job alone, that does not begin the confirmation. *)
LEMMA Untouched ==
  ASSUME Rescued, NodeSame, UNCHANGED timer,
         \A q \in Runs : applier'[q].at = applier[q].at /\ applier'[q].read = applier[q].read,
         \A q \in Runs : job'[q].at \in {"marker", "stop", "recheck", "verify"}
                           => job[q].at \in {"marker", "stop", "recheck", "verify"}
  PROVE  Rescued'
<1> USE DEF NodeSame
<1>1. \A q \in Runs : Safe(q)'
  BY DEF Rescued, Safe
<1>2. Loaded'
  BY DEF Rescued, Loaded, Reloading
<1>3. Replaced'
  BY DEF Rescued, Replaced
<1> QED
  BY <1>1, <1>2, <1>3 DEF Rescued

LEMMA RescuedStep ==
  Quick /\ InWindow /\ NodeOK /\ OneAtATime /\ OneAtATime' /\ Rescued /\ [Next]_vars => Rescued' \/ botched'
<1> SUFFICES ASSUME Quick, InWindow, NodeOK, OneAtATime, OneAtATime', Rescued, [Next]_vars PROVE Rescued' \/ botched'
  OBVIOUS
<1> USE DEF NodeOK, BackedUp, Waits, OneAtATime, Order, Inactive, TimerStates, AppSteps, JobSteps, JobEnds
<1> USE DEF NodeSame, AppAt, JobAt, Timer, StopTimer, Reachable
<1>1. CASE UNCHANGED vars
  BY <1>1, Untouched DEF vars
<1>2. ASSUME NEW r \in Runs, Stage(r) PROVE Rescued'
  <2>1. \A q \in Runs : Safe(q)'
    BY <1>2, AppMoves, AppEnding DEF Rescued, Safe, Loaded, Reloading, Stage
  <2>2. Loaded'
    BY <1>2, AppMoves, AppEnding DEF Rescued, Safe, Loaded, Reloading, Stage
  <2>3. Replaced'
    BY <1>2, AppMoves, AppEnding DEF Rescued, Safe, Replaced, Stage
  <2> QED
    BY <2>1, <2>2, <2>3 DEF Rescued
<1>3. ASSUME NEW r \in Runs, BackUp(r) PROVE Rescued'
  <2>1. \A q \in Runs : Safe(q)'
    BY <1>3, AppMoves, AppEnding DEF Rescued, Safe, Loaded, Reloading, BackUp
  <2>2. Loaded'
    BY <1>3, AppMoves, AppEnding DEF Rescued, Safe, Loaded, Reloading, BackUp
  <2>3. Replaced'
    BY <1>3, AppMoves, AppEnding DEF Rescued, Safe, Replaced, BackUp
  <2> QED
    BY <2>1, <2>2, <2>3 DEF Rescued
<1>4. ASSUME NEW r \in Runs, ArmTimer(r) PROVE Rescued'
  <2>1. \A q \in Runs : Safe(q)'
    BY <1>4, AppMoves, AppEnding DEF Rescued, Safe, Loaded, Reloading, ArmTimer
  <2>2. Loaded'
    BY <1>4, AppMoves, AppEnding DEF Rescued, Safe, Loaded, Reloading, ArmTimer
  <2>3. Replaced'
    BY <1>4, AppMoves, AppEnding DEF Rescued, Safe, Replaced, ArmTimer
  <2> QED
    BY <2>1, <2>2, <2>3 DEF Rescued
<1>5. ASSUME NEW r \in Runs, MoveFile(r) PROVE Rescued'
  <2>1. \A q \in Runs : Safe(q)'
    BY <1>5, AppReading, AppEnding DEF Rescued, Safe, Loaded, Reloading, MoveFile
  <2>2. Loaded'
    BY <1>5, AppReading, AppEnding DEF Rescued, Safe, Loaded, Reloading, MoveFile
  <2>3. Replaced'
    BY <1>5, AppReading, AppEnding DEF Rescued, Safe, Replaced, MoveFile
  <2> QED
    BY <2>1, <2>2, <2>3 DEF Rescued
<1>6. ASSUME NEW r \in Runs, Reload(r) PROVE Rescued'
  <2>1. \A q \in Runs : Safe(q)'
    BY <1>6, AppMoves, AppEnding DEF Rescued, Safe, Loaded, Reloading, Reload
  <2>2. Loaded'
    BY <1>6, AppMoves, AppEnding DEF Rescued, Safe, Loaded, Reloading, Reload
  <2>3. Replaced'
    BY <1>6, AppMoves, AppEnding DEF Rescued, Safe, Replaced, Reloading, Reload
  <2> QED
    BY <2>1, <2>2, <2>3 DEF Rescued
<1>7. ASSUME NEW r \in Runs, Dies(r) PROVE Rescued'
  <2>1. \A q \in Runs : Safe(q)'
    BY <1>7, AppEnding DEF Rescued, Safe, Loaded, Reloading, Dies
  <2>2. Loaded'
    BY <1>7, AppEnding DEF Rescued, Safe, Loaded, Reloading, Dies
  <2>3. Replaced'
    BY <1>7, AppEnding DEF Rescued, Safe, Replaced, Dies
  <2> QED
    BY <2>1, <2>2, <2>3 DEF Rescued
<1>8. ASSUME NEW r \in Runs, Fire(r) PROVE Rescued'
  <2>1. \A q \in Runs : Safe(q)'
    BY <1>8 DEF Rescued, Safe, Loaded, Reloading, Fire
  <2>2. Loaded'
    BY <1>8 DEF Rescued, Safe, Loaded, Reloading, Fire
  <2>3. Replaced'
    BY <1>8 DEF Rescued, Safe, Replaced, Fire
  <2> QED
    BY <2>1, <2>2, <2>3 DEF Rescued
<1>9. ASSUME NEW r \in Runs, SendApply(r) PROVE Rescued'
  <2>1. \A q \in Runs : Safe(q)'
    BY <1>9, JobMoves, AppMoves DEF Rescued, Safe, Loaded, Reloading, SendApply
  <2>2. Loaded'
    BY <1>9, JobMoves, AppMoves DEF Rescued, Safe, Loaded, Reloading, SendApply
  <2>3. Replaced'
    BY <1>9, JobMoves, AppMoves DEF Rescued, Safe, Replaced, SendApply
  <2> QED
    BY <2>1, <2>2, <2>3 DEF Rescued
<1>10. ASSUME NEW r \in Runs, Reconnect(r) PROVE Rescued'
  <2>1. \A q \in Runs : Safe(q)'
    BY <1>10, JobMoves DEF Rescued, Safe, Loaded, Reloading, Reconnect
  <2>2. Loaded'
    BY <1>10, JobMoves DEF Rescued, Safe, Loaded, Reloading, Reconnect
  <2>3. Replaced'
    BY <1>10, JobMoves DEF Rescued, Safe, Replaced, Reconnect
  <2> QED
    BY <2>1, <2>2, <2>3 DEF Rescued
<1>11. ASSUME NEW r \in Runs, CancelTimer(r) PROVE Rescued'
  <2>1. \A q \in Runs : Safe(q)'
    BY <1>11, JobMoves DEF Rescued, Safe, Loaded, Reloading, CancelTimer
  <2>2. Loaded'
    BY <1>11, JobMoves DEF Rescued, Safe, Loaded, Reloading, CancelTimer
  <2>3. Replaced'
    BY <1>11, JobMoves DEF Rescued, Safe, Replaced, CancelTimer
  <2> QED
    BY <2>1, <2>2, <2>3 DEF Rescued
<1>12. ASSUME NEW r \in Runs, InSync(r) PROVE Rescued'
  BY <1>12, Untouched, JobMoves DEF InSync
<1>13. ASSUME NEW r \in Runs, StepFails(r) PROVE Rescued'
  BY <1>13, Untouched, JobMoves DEF StepFails
<1>14. ASSUME NEW r \in Runs, LoseSession(r) PROVE Rescued'
  BY <1>14, Untouched, JobMoves, AppCut DEF LoseSession
<1>15. ASSUME NEW r \in Runs, GiveUp(r) PROVE Rescued'
  BY <1>15, Untouched, JobMoves DEF GiveUp
<1>16. ASSUME NEW r \in Runs, ReadMarker(r) PROVE Rescued'
  BY <1>16, Untouched, JobMoves DEF ReadMarker
<1>17. ASSUME NEW r \in Runs, Recheck(r) PROVE Rescued'
  BY <1>17, Untouched, JobMoves DEF Recheck
<1>18. ASSUME NEW r \in Runs, Verify(r) PROVE Rescued'
  BY <1>18, Untouched, JobMoves DEF Verify
<1>19. ASSUME NEW r \in Runs, Refuse(r) PROVE Rescued'
  BY <1>19, Untouched, JobMoves DEF Refuse
<1>20. ASSUME NEW r \in Runs, ConfirmFails(r) PROVE Rescued'
  BY <1>20, Untouched, JobMoves DEF ConfirmFails
<1>21. ASSUME NEW r \in Runs, WorkerDies(r) PROVE Rescued'
  BY <1>21, Untouched, JobMoves, AppCut DEF WorkerDies
<1>22. ASSUME NEW r \in Runs, TakeResult(r) PROVE Rescued'
  <2>1. applier[r].out \in {"ok", "changed", "failed"}
    BY <1>22 DEF TakeResult, Applier
  <2> QED
    BY <1>22, <2>1, Untouched, JobMoves DEF TakeResult
<1>23. ASSUME NEW r \in Runs, Start(r) PROVE Rescued'
  BY <1>23, Untouched DEF Start, StartWith, Job
<1>24. ASSUME NEW r \in Runs, RestoreFile(r), ~botched' PROVE Rescued'
  <2>0. /\ file' = backup[r]
        /\ file' \in Reaches
        /\ AppReads(r, "rereload", file')
        /\ UNCHANGED <<staged, live, backup, timer, job>>
    BY <1>24, NetworkAssumption DEF RestoreFile, RestoreFault, Rescued, Safe
  <2>1. \A q \in Runs : Safe(q)'
    BY <1>24, <2>0, AppReading DEF Rescued, Safe, Loaded, Reloading
  <2>2. Loaded'
    BY <1>24, <2>0, AppReading DEF Rescued, Safe, Loaded, Reloading
  <2>3. Replaced'
    BY <1>24, <2>0, AppReading DEF Rescued, Safe, Replaced
  <2> QED
    BY <2>1, <2>2, <2>3 DEF Rescued
<1>25. ASSUME NEW r \in Runs, RestoreLive(r), ~botched' PROVE Rescued'
  <2>0. live' = applier[r].read \/ (live' = live /\ \E q \in Runs : timer[q] = "copied")
    BY <1>25 DEF RestoreLive, RestoreFault, AppLockedOut, TimerLoads, AppLoads
  <2>1. applier[r].read \in Reaches /\ file' = file /\ file \in Reaches
    BY <1>25 DEF RestoreLive, Rescued, Safe
  <2>2. \A q \in Runs : Safe(q)'
    BY <1>25, <2>1, AppEnding DEF Rescued, Safe, Reloading, RestoreLive
  <2>3. Loaded'
    BY <2>1 DEF Loaded
  <2>4. Replaced'
    BY <1>25, <2>0, <2>1 DEF Replaced, RestoreLive
  <2> QED
    BY <2>2, <2>3, <2>4 DEF Rescued
<1>26. ASSUME NEW r \in Runs, CopyBack(r), ~botched' PROVE Rescued'
  <2>0. /\ file' = backup[r]
        /\ file' \in Reaches
        /\ Timer(r, "firing", "copied")
        /\ UNCHANGED <<staged, live, backup, applier, job>>
    BY <1>26, NetworkAssumption DEF CopyBack, RestoreFault, Rescued, Safe
  <2>1. \A q \in Runs : Safe(q)'
    BY <2>0 DEF Rescued, Safe, Loaded, Reloading
  <2>2. Loaded'
    BY <2>0 DEF Rescued, Safe, Loaded, Reloading
  <2>3. Replaced'
    BY <2>0 DEF Rescued, Safe, Replaced
  <2> QED
    BY <2>1, <2>2, <2>3 DEF Rescued
<1>27. ASSUME NEW r \in Runs, ReloadBack(r), ~botched' PROVE Rescued'
  <2>0. live' = file \/ (live' = live /\ \E q \in Runs \ {r} : timer[q] \in {"copied", "armed"})
    BY <1>27 DEF ReloadBack, RestoreFault, TimerLockedOut, TimerLoads, AppLoads, Reloading
  <2>1. \A q \in Runs : Safe(q)'
    BY <1>27, <2>0 DEF Rescued, Safe, Reloading, ReloadBack
  <2>2. Loaded'
    BY <1>27, <2>0 DEF Rescued, Loaded, Reloading, ReloadBack
  <2>3. Replaced'
    BY <1>27, <2>0 DEF Rescued, Replaced, ReloadBack
  <2> QED
    BY <2>1, <2>2, <2>3 DEF Rescued
<1>28. ASSUME Reboot, ~botched' PROVE Rescued'
  <2>1. file' = file /\ live' = file /\ backup' = backup /\ ~\E r \in Runs : HalfWay(r)
    BY <1>28 DEF Reboot
  <2>2. file \in Reaches
    BY <2>1, NetworkAssumption DEF Rescued, Replaced, Safe, HalfWay
  <2>3. \A q \in Runs : Safe(q)'
    BY <1>28, <2>1, <2>2, Rebooted DEF Rescued, Safe, Loaded, Reloading
  <2>4. Loaded'
    BY <1>28, <2>1, <2>2, Rebooted DEF Rescued, Safe, Loaded, Reloading
  <2>5. Replaced'
    BY <1>28, <2>1, <2>2, Rebooted DEF Rescued, Safe, Replaced
  <2> QED
    BY <2>3, <2>4, <2>5 DEF Rescued
<1> QED
  BY <1>1, <1>2, <1>3, <1>4, <1>5, <1>6, <1>7, <1>8, <1>9, <1>10, <1>11, <1>12, <1>13, <1>14, <1>15,
     <1>16, <1>17, <1>18, <1>19, <1>20, <1>21, <1>22, <1>23, <1>24, <1>25, <1>26, <1>27, <1>28 DEF Next,
     Apply, TimerRuns, JobRuns

-----------------------------------------------------------------------------
(* No later run has come. *)
Last(r) == \A q \in Runs \ {r} : job[q].at = "idle"

Unarmed(r) ==
  job[r].at \in {"idle", "planned"} \/ applier[r].at \in {"stage", "check", "arm"} => timer[r] = "none"

(* What a run that is the only one so far finds and leaves. *)
Sole(r) ==
  /\ staged \in {Absent, job[r].render}
  /\ job[r].at \in {"idle", "planned"} => staged = Absent /\ backup[r] = Absent
  /\ job[r].at = "planned" => (job[r].insync <=> file = job[r].render)
  /\ backup[r] # job[r].render
  /\ applier[r].at \in {"stage", "check", "arm", "move"} => file # job[r].render
  /\ job[r].at = "applying" /\ applier[r].at = "ended" => applier[r].out # "ok"
  /\ job[r].at = "verify" => timer[r] \in {"none", "stopped"} \/ file # job[r].render
  /\ Ended(r) => file = job[r].render /\ timer[r] \in {"none", "stopped"} /\ Inactive(r)

Kept == \A r \in Runs : Unarmed(r) /\ (Last(r) => Sole(r))

LEMMA KeptInit == Init => Kept
<1> SUFFICES ASSUME Init PROVE Kept
  OBVIOUS
<1>1. staged = Absent /\ \A r \in Runs : /\ job[r].at = "idle" /\ timer[r] = "none" /\ backup[r] = Absent
                                        /\ applier[r].at = "none" /\ job[r].render = Factory
  BY DEF Init
<1>2. Absent # Factory
  BY NetworkAssumption
<1> QED
  BY <1>1, <1>2 DEF Kept, Unarmed, Sole, Ended

LEMMA TestRecorded ==
  ASSUME NEW j, NEW f, NEW g, j = [at |-> "planned", render |-> g, insync |-> f = g]
  PROVE  j.insync <=> f = g
OBVIOUS

LEMMA StartMoves ==
  ASSUME job \in [Runs -> Job], NEW r \in Runs, NEW render, StartWith(r, render)
  PROVE  /\ job'[r].at = "planned" /\ job'[r].render = render /\ (job'[r].insync <=> file = render)
         /\ \A q \in Runs \ {r} : job'[q] = job[q]
<1>1. job' = [job EXCEPT ![r] = [at |-> "planned", render |-> render, insync |-> file = render]]
  BY DEF StartWith
<1>2. job'[r] = [at |-> "planned", render |-> render, insync |-> file = render]
  BY <1>1
<1>3. job'[r].insync <=> file = render
  BY <1>2, TestRecorded
<1> QED
  BY <1>1, <1>2, <1>3

LEMMA KeptStep ==
  Quick /\ InWindow /\ NodeOK /\ OneAtATime /\ OneAtATime' /\ Kept /\ [Next]_vars => Kept'
<1> SUFFICES ASSUME Quick, InWindow, NodeOK, OneAtATime, OneAtATime', Kept, [Next]_vars PROVE Kept'
  OBVIOUS
<1> USE DEF NodeOK, Waits, OneAtATime, Order, Inactive, Reloading, TimerStates, AppSteps, JobSteps, JobEnds
<1> USE DEF NodeSame, AppAt, JobAt, Timer, StopTimer, Kept, Unarmed, Last, Sole, Ended
<1>1. CASE UNCHANGED vars
  BY <1>1 DEF vars
<1>2. ASSUME NEW r \in Runs, Stage(r) PROVE Kept'
  BY <1>2, AppMoves, AppEnding DEF Stage
<1>3. ASSUME NEW r \in Runs, BackUp(r) PROVE Kept'
  BY <1>3, AppMoves, AppEnding DEF BackUp
<1>4. ASSUME NEW r \in Runs, ArmTimer(r) PROVE Kept'
  BY <1>4, AppMoves, AppEnding DEF ArmTimer
<1>5. ASSUME NEW r \in Runs, MoveFile(r) PROVE Kept'
  BY <1>5, AppReading, AppEnding DEF MoveFile
<1>6. ASSUME NEW r \in Runs, Reload(r) PROVE Kept'
  BY <1>6, AppMoves, AppEnding DEF Reload
<1>7. ASSUME NEW r \in Runs, RestoreFile(r) PROVE Kept'
  BY <1>7, AppReading DEF RestoreFile
<1>8. ASSUME NEW r \in Runs, RestoreLive(r) PROVE Kept'
  BY <1>8, AppEnding DEF RestoreLive
<1>9. ASSUME NEW r \in Runs, Dies(r) PROVE Kept'
  BY <1>9, AppEnding DEF Dies
<1>10. ASSUME NEW r \in Runs, Fire(r) PROVE Kept'
  BY <1>10 DEF Fire
<1>11. ASSUME NEW r \in Runs, CopyBack(r) PROVE Kept'
  BY <1>11 DEF CopyBack
<1>12. ASSUME NEW r \in Runs, ReloadBack(r) PROVE Kept'
  BY <1>12 DEF ReloadBack
<1>13. ASSUME NEW r \in Runs, InSync(r) PROVE Kept'
  BY <1>13, JobMoves DEF InSync
<1>14. ASSUME NEW r \in Runs, SendApply(r) PROVE Kept'
  BY <1>14, JobMoves, AppMoves DEF SendApply
<1>15. ASSUME NEW r \in Runs, StepFails(r) PROVE Kept'
  BY <1>15, JobMoves DEF StepFails
<1>16. ASSUME NEW r \in Runs, TakeResult(r) PROVE Kept'
  <2>1. applier[r].out \in {"ok", "changed", "failed"}
    BY <1>16 DEF TakeResult, Applier
  <2> QED
    BY <1>16, <2>1, JobMoves DEF TakeResult
<1>17. ASSUME NEW r \in Runs, LoseSession(r) PROVE Kept'
  BY <1>17, JobMoves, AppCut DEF LoseSession
<1>18. ASSUME NEW r \in Runs, Reconnect(r) PROVE Kept'
  BY <1>18, JobMoves DEF Reconnect
<1>19. ASSUME NEW r \in Runs, GiveUp(r) PROVE Kept'
  BY <1>19, JobMoves DEF GiveUp
<1>20. ASSUME NEW r \in Runs, ReadMarker(r) PROVE Kept'
  BY <1>20, JobMoves DEF ReadMarker
<1>21. ASSUME NEW r \in Runs, CancelTimer(r) PROVE Kept'
  BY <1>21, JobMoves DEF CancelTimer
<1>22. ASSUME NEW r \in Runs, Recheck(r) PROVE Kept'
  BY <1>22, JobMoves DEF Recheck
<1>23. ASSUME NEW r \in Runs, Verify(r) PROVE Kept'
  <2>1. PICK outcome \in {"failed", "changed"} :
                JobGoto(r, outcome) /\ (outcome = "changed" => file = job[r].render)
    BY <1>23 DEF Verify
  <2>2. /\ job[r].at = "verify" /\ UNCHANGED <<file, staged, live, backup, timer, applier>>
        /\ job'[r].at = outcome /\ job'[r].render = job[r].render /\ \A q \in Runs \ {r} : job'[q] = job[q]
    <3>1. outcome \in JobSteps \union JobEnds /\ job \in [Runs -> Job]
      OBVIOUS
    <3>2. /\ job'[r].at = outcome /\ job'[r].render = job[r].render
          /\ \A q \in Runs \ {r} : job'[q] = job[q]
      BY <2>1, <3>1, JobMoves
    <3>3. JobAt(r, "verify") /\ NodeSame /\ UNCHANGED <<timer, applier>>
      BY <1>23 DEF Verify
    <3> QED
      BY <3>2, <3>3
  <2>3. ASSUME Last(r), file = job[r].render PROVE timer[r] \in {"none", "stopped"} /\ Inactive(r)
    <3>1. applier[r].at \notin {"stage", "check", "arm", "move", "reload", "restore", "rereload"}
      BY <2>2, <2>3
    <3> QED
      BY <2>2, <2>3, <3>1 DEF Applier
  <2>4. ASSUME NEW q \in Runs PROVE Unarmed(q)' /\ (Last(q)' => Sole(q)')
    <3>1. CASE q = r
      BY <2>1, <2>2, <2>3, <3>1
    <3>2. CASE q # r
      BY <2>1, <2>2, <3>2
    <3> QED
      BY <3>1, <3>2
  <2> QED
    BY <2>4
<1>24. ASSUME NEW r \in Runs, Refuse(r) PROVE Kept'
  BY <1>24, JobMoves DEF Refuse
<1>25. ASSUME NEW r \in Runs, ConfirmFails(r) PROVE Kept'
  BY <1>25, JobMoves DEF ConfirmFails
<1>26. ASSUME NEW r \in Runs, WorkerDies(r) PROVE Kept'
  BY <1>26, JobMoves, AppCut DEF WorkerDies
<1>27. ASSUME NEW r \in Runs, Start(r) PROVE Kept'
  <2>1. PICK render \in Contents \ {Factory} : StartWith(r, render)
    BY <1>27 DEF Start
  <2>2. /\ job'[r].at = "planned" /\ job'[r].render = render /\ (job'[r].insync <=> file = render)
        /\ \A q \in Runs \ {r} : job'[q] = job[q]
    BY <2>1, StartMoves
  <2> QED
    BY <2>1, <2>2, NetworkAssumption DEF StartWith, MayStart
<1>28. CASE Reboot
  <2>1. /\ backup' = backup
        /\ \/ file' = file /\ staged' = staged
           \/ staged # Absent /\ file' = staged /\ staged' = Absent
    BY <1>28 DEF Reboot
  <2>2. ASSUME NEW r \in Runs PROVE Unarmed(r)'
    BY <1>28, Rebooted
  <2>3. ASSUME NEW r \in Runs, Last(r)' PROVE Sole(r)'
    <3>1. Last(r) /\ Sole(r)
      BY <1>28, <2>3, Rebooted
    <3> QED
      BY <1>28, <2>1, <3>1, Rebooted
  <2> QED
    BY <2>2, <2>3
<1> QED
  BY <1>1, <1>2, <1>3, <1>4, <1>5, <1>6, <1>7, <1>8, <1>9, <1>10, <1>11, <1>12, <1>13, <1>14, <1>15,
     <1>16, <1>17, <1>18, <1>19, <1>20, <1>21, <1>22, <1>23, <1>24, <1>25, <1>26, <1>27, <1>28 DEF Next,
     Apply, TimerRuns, JobRuns

-----------------------------------------------------------------------------
(* The type invariant: in particular a restoring command never lacks the   *)
(* backup that it copies back (nfv_step_network_apply, the rollback unit). *)
THEOREM NetTypeOKHolds == Spec => []NetTypeOK
<1>1. Init => NodeOK /\ CountOK
  BY NodeInit, CountInit
<1>2. NodeOK /\ CountOK /\ [Next]_vars => NodeOK' /\ CountOK'
  BY NodeStep, CountStep
<1> QED
  BY <1>1, <1>2, TypeParts, PTL DEF Spec

(* "management reachability is what the rollback timer protects"           *)
(* (docs/host-baseline.md): whatever the renders, and wherever a session,  *)
(* a worker or a command fails, a node that cannot be reached has a        *)
(* rollback pending, unless the failed command is a restoring one.  The    *)
(* assumptions are about time: a reload is over before its own timer fires *)
(* and before its job reconnects, and an applier before another starts.    *)
(* Without Quick the claim is false (README 5.7).                          *)
THEOREM NeverStrandedHolds == ASSUME Quick, InWindow PROVE Spec => []NeverStranded
<1> DEFINE IInv == NodeOK /\ OneAtATime /\ (botched \/ Rescued)
<1>1. Init => IInv
  BY NodeInit, OrderInit, RescuedInit
<1>2. IInv /\ [Next]_vars => IInv'
  <2> SUFFICES ASSUME IInv, [Next]_vars PROVE IInv'
    OBVIOUS
  <2>1. NodeOK' /\ OneAtATime'
    BY NodeStep, OrderStep
  <2>2. CASE botched
    BY <2>1, <2>2, BotchedStays
  <2>3. CASE Rescued
    BY <2>1, <2>3, RescuedStep
  <2> QED
    BY <2>2, <2>3
<1>3. IInv => NeverStranded
  BY DEF Rescued, Replaced, NeverStranded, Reachable, RollbackPending
<1> QED
  BY <1>1, <1>2, <1>3, PTL DEF Spec

(* A run that reports the network in place, the only one so far, is right: *)
(* _network_apply's "ok" and "changed" mean that the file is its render    *)
(* and that nothing is left to undo it, if a reload is over before its     *)
(* timer fires and before its job reconnects.                              *)
THEOREM DoneIsKeptHolds == ASSUME Quick, InWindow PROVE Spec => []DoneIsKept
<1> DEFINE IInv == NodeOK /\ OneAtATime /\ Kept
<1>1. Init => IInv
  BY NodeInit, OrderInit, KeptInit
<1>2. IInv /\ [Next]_vars => IInv'
  BY NodeStep, OrderStep, KeptStep
<1>3. IInv => DoneIsKept
  BY DEF NodeOK, Waits, Kept, Unarmed, Last, Sole, DoneIsKept, Ended, Inactive, RollbackPending, JobEnds
<1> QED
  BY <1>1, <1>2, <1>3, PTL DEF Spec

-----------------------------------------------------------------------------
(* The render. *)


(* The only element of a singleton. *)
LEMMA OnlyOne == \A x : TheOnly({x}) = x
BY DEF TheOnly

(* A set that has not several elements, and has some, has one. *)
LEMMA OneOfFew ==
  ASSUME NEW S, IsFiniteSet(S), S # {}, ~(Cardinality(S) > 1)
  PROVE  \E x : S = {x}
<1>1. Cardinality(S) \in Nat /\ Cardinality(S) # 0
  BY FS_CardinalityType, FS_EmptySet
<1>2. Cardinality(S) = 1
  BY <1>1
<1> QED
  BY <1>2, FS_Singleton

(* Parts of a record are finite. *)
LEMMA PartsFinite ==
  ASSUME NEW t, WellFormed(t)
  PROVE  /\ \A l : IsFiniteSet(MembersOf(t, l)) /\ IsFiniteSet(Flagged(t, MembersOf(t, l)))
         /\ \A b : IsFiniteSet(PortsOf(t, b)) /\ IsFiniteSet(Flagged(t, PortsOf(t, b)))
         /\ IsFiniteSet(Mine(t))
BY FS_Subset DEF WellFormed, MembersOf, PortsOf, Flagged, Mine

(* _pick_member: what it returns is a member, the only one or the only     *)
(* flagged one.                                                            *)
LEMMA PickedMember ==
  ASSUME NEW t, NEW S, IsFiniteSet(S), IsFiniteSet(Flagged(t, S)), PickMember(t, S) # None
  PROVE  /\ PickMember(t, S) \in S
         /\ S = {PickMember(t, S)} \/ Flagged(t, S) = {PickMember(t, S)}
<1>1. S # {} /\ ~(Cardinality(Flagged(t, S)) > 1)
  BY DEF PickMember
<1>2. CASE Cardinality(S) = 1
  <2>1. PICK x : S = {x}
    BY <1>2, FS_Singleton
  <2> QED
    BY <1>1, <1>2, <2>1, OnlyOne DEF PickMember
<1>3. CASE Cardinality(S) # 1
  <2>1. Flagged(t, S) # {} /\ PickMember(t, S) = TheOnly(Flagged(t, S))
    BY <1>1, <1>3 DEF PickMember
  <2>2. PICK x : Flagged(t, S) = {x}
    BY <1>1, <2>1, OneOfFew
  <2>3. x \in S
    BY <2>2 DEF Flagged
  <2> QED
    BY <2>1, <2>2, <2>3, OnlyOne
<1> QED
  BY <1>2, <1>3

-----------------------------------------------------------------------------
(* match_ports looks at the permanent address: what NICs show when they    *)
(* are in a bond makes no difference.                                      *)
LEMMA PermanentMac ==
  ASSUME NEW macs, NEW slaves, NEW bondMac, \A n \in DOMAIN macs : macs[n] # None
  PROVE  \A mac : NicsWith(LinksOf(macs, slaves, bondMac), mac) = NicsWith(LinksOf(macs, {}, None), mac)
<1> DEFINE Here == LinksOf(macs, slaves, bondMac)
           Fresh == LinksOf(macs, {}, None)
<1>1. DOMAIN Here = DOMAIN macs /\ DOMAIN Fresh = DOMAIN macs
  BY DEF LinksOf
<1>2. \A n \in DOMAIN macs : LinkMac(Here[n]) = macs[n]
  BY DEF LinksOf, LinkMac
<1>3. \A n \in DOMAIN macs : LinkMac(Fresh[n]) = macs[n]
  BY DEF LinksOf, LinkMac
<1> QED
  BY <1>1, <1>2, <1>3 DEF NicsWith

LEMMA SameLinks ==
  ASSUME NEW t, NEW here, NEW fresh, \A mac : NicsWith(here, mac) = NicsWith(fresh, mac)
  PROVE  /\ Matched(t, here) <=> Matched(t, fresh)
         /\ Render(t, here) = Render(t, fresh)
<1>1. \A i : LinuxName(t, here, i) = LinuxName(t, fresh, i)
  BY DEF LinuxName, NicOf
<1>2. Matched(t, here) <=> Matched(t, fresh)
  BY DEF Matched
<1> DEFINE slaves(links, l) == {LinuxName(t, links, m) : m \in MembersOf(t, l)}
           primary(links, l) == IF BondPrimary(t, l) = None THEN None ELSE LinuxName(t, links, BondPrimary(t, l))
           bond(links, l) == [slaves |-> slaves(links, l), mode |-> t.ifs[l].lagMode, primary |-> primary(links, l)]
           ports(links, b) == {LinuxName(t, links, p) : p \in PortsOf(t, b)}
           bridge(links, b) == [ports |-> ports(links, b), management |-> b \in Mine(t)]
<1>3. \A l : slaves(here, l) = slaves(fresh, l) /\ primary(here, l) = primary(fresh, l)
  BY <1>1
<1>4. \A b : ports(here, b) = ports(fresh, b)
  BY <1>1
<1>5. \A l : bond(here, l) = bond(fresh, l)
  BY <1>3
<1>6. \A b : bridge(here, b) = bridge(fresh, b)
  BY <1>4
<1> HIDE DEF bond, bridge
<1>7. [l \in OfType(t, "lag") |-> bond(here, l)] = [l \in OfType(t, "lag") |-> bond(fresh, l)]
  BY <1>5
<1>8. [b \in OfType(t, "bridge") |-> bridge(here, b)] = [b \in OfType(t, "bridge") |-> bridge(fresh, b)]
  BY <1>6
<1>9. \A links : Render(t, links) = [bonds |-> [l \in OfType(t, "lag") |-> bond(links, l)],
                                    bridges |-> [b \in OfType(t, "bridge") |-> bridge(links, b)]]
  BY DEF Render, bond, bridge
<1> QED
  BY <1>2, <1>7, <1>8, <1>9

-----------------------------------------------------------------------------
(* The NICs of the ports of a record that was matched. *)
LEMMA MatchedNic ==
  ASSUME NEW t, NEW links, IsFiniteSet(DOMAIN links), Matched(t, links), NEW p \in ModelPorts(t)
  PROVE  /\ NicsWith(links, t.ifs[p].mac) = {NicOf(t, links, p)}
         /\ NicOf(t, links, p) \in DOMAIN links
<1>1. IsFiniteSet(NicsWith(links, t.ifs[p].mac)) /\ Cardinality(NicsWith(links, t.ifs[p].mac)) = 1
  BY FS_Subset DEF NicsWith, Matched
<1>2. PICK n : NicsWith(links, t.ifs[p].mac) = {n}
  BY <1>1, FS_Singleton
<1>3. NicOf(t, links, p) = n
  BY <1>2, OnlyOne DEF NicOf
<1> QED
  BY <1>2, <1>3 DEF NicsWith

(* No two ports have one NIC. *)
LEMMA NicsDistinct ==
  ASSUME NEW t, NEW links, IsFiniteSet(DOMAIN links), Matched(t, links),
         NEW p \in ModelPorts(t), NEW q \in ModelPorts(t), NicOf(t, links, p) = NicOf(t, links, q)
  PROVE  p = q
<1>1. NicsWith(links, t.ifs[p].mac) = {NicOf(t, links, p)}
  BY MatchedNic
<1>2. NicsWith(links, t.ifs[q].mac) = {NicOf(t, links, q)}
  BY MatchedNic
<1> QED
  BY <1>1, <1>2 DEF Matched

(* What the derivation of the install port goes through. *)
LEMMA InstallChain ==
  ASSUME NEW t, WellFormed(t), Accepted(t), None \notin {"bridge", "lag"}, InstallPort(t) # None
  PROVE  \E b \in OfType(t, "bridge"), below \in Ids(t) :
           /\ Mine(t) = {b}
           /\ below \in PortsOf(t, b)
           /\ \/ t.ifs[below].type # "lag" /\ InstallPort(t) = below
              \/ /\ t.ifs[below].type = "lag"
                 /\ InstallPort(t) \in MembersOf(t, below)
                 /\ \/ MembersOf(t, below) = {InstallPort(t)}
                    \/ Flagged(t, MembersOf(t, below)) = {InstallPort(t)}
<1>1. Cardinality(Mine(t)) = 1 /\ Mine(t) \subseteq OfType(t, "bridge")
  BY DEF Accepted, ManagedByBridge
<1>2. PICK b : Mine(t) = {b}
  BY <1>1, PartsFinite, FS_Singleton
<1>3. b \in OfType(t, "bridge") /\ TheOnly(Mine(t)) = b /\ b # None /\ t.ifs[b].type = "bridge"
  BY <1>1, <1>2, OnlyOne DEF OfType, WellFormed
<1> DEFINE below == PickMember(t, PortsOf(t, b))
           port == IF below # None /\ t.ifs[below].type = "lag" THEN PickMember(t, MembersOf(t, below)) ELSE below
<1>4. InstallPort(t) = port
  BY <1>1, <1>3 DEF InstallPort
<1>5. below # None
  BY <1>4
<1>6. below \in PortsOf(t, b) /\ below \in Ids(t)
  <2>1. below \in PortsOf(t, b)
    BY <1>5, PartsFinite, PickedMember
  <2> QED
    BY <2>1 DEF PortsOf
<1>7. CASE t.ifs[below].type # "lag"
  BY <1>2, <1>3, <1>4, <1>6, <1>7
<1>8. CASE t.ifs[below].type = "lag"
  <2>1. InstallPort(t) = PickMember(t, MembersOf(t, below))
    BY <1>4, <1>5, <1>8
  <2>2. InstallPort(t) \in MembersOf(t, below)
    BY <2>1, PartsFinite, PickedMember
  <2>3. MembersOf(t, below) = {InstallPort(t)} \/ Flagged(t, MembersOf(t, below)) = {InstallPort(t)}
    BY <2>1, PartsFinite, PickedMember
  <2> QED
    BY <1>2, <1>3, <1>6, <1>8, <2>2, <2>3
<1> QED
  BY <1>7, <1>8

(* A port below a bond or a bridge is a port of the topology, and in no    *)
(* two parts of it.                                                        *)
LEMMA PortPlace ==
  ASSUME NEW t, WellFormed(t), Accepted(t)
  PROVE  /\ \A l \in OfType(t, "lag") : \A m \in MembersOf(t, l) : m \in ModelPorts(t) /\ PortValid(t, m)
         /\ \A b \in OfType(t, "bridge") : \A p \in PortsOf(t, b) :
              t.ifs[p].type # "lag" => p \in ModelPorts(t) /\ PortValid(t, p)
         /\ OfType(t, "lag") \intersect ModelPorts(t) = {}
<1>1. \A l \in OfType(t, "lag") : \A m \in MembersOf(t, l) : m \in ModelPorts(t) /\ PortValid(t, m)
  BY DEF Accepted, BondValid, ModelPorts
<1>2. \A b \in OfType(t, "bridge") : \A p \in PortsOf(t, b) :
        t.ifs[p].type # "lag" => p \in ModelPorts(t) /\ PortValid(t, p)
  BY DEF Accepted, BridgeValid, ModelPorts, OfType
<1>3. OfType(t, "lag") \intersect ModelPorts(t) = {}
  <2> SUFFICES ASSUME NEW l \in OfType(t, "lag"), l \in ModelPorts(t) PROVE FALSE
    OBVIOUS
  <2>1. t.ifs[l].type = "lag"
    BY DEF OfType
  <2>2. PICK k \in OfType(t, "lag") : l \in MembersOf(t, k)
    BY DEF ModelPorts
  <2> QED
    BY <1>1, <2>1, <2>2 DEF PortValid, NonPortTypes
<1> QED
  BY <1>1, <1>2, <1>3

(* "the same port stays the bond's primary afterwards, so the cable that   *)
(* carried the install keeps carrying management"                          *)
(* (docs/sot-data-contract.md): if the answer service derives an install   *)
(* port from a record that the Host Baseline accepts and matches, the NIC  *)
(* with its MAC is below the management bridge of the file rendered, and   *)
(* preferred by a bond that fails over.                                    *)
THEOREM InstallPortCarries ==
  ASSUME NEW t, WellFormed(t), None \notin {"bridge", "lag"},
         NEW links, IsFiniteSet(DOMAIN links), DOMAIN links \intersect OfType(t, "lag") = {},
         Accepted(t), Matched(t, links), InstallPort(t) # None,
         NEW cable, NicsWith(links, InstallMac(t)) = {cable}
  PROVE  PrefersUplink(Render(t, links), cable)
<1> DEFINE port == InstallPort(t)
           render == Render(t, links)
<1>1. PICK b \in OfType(t, "bridge"), below \in Ids(t) :
           /\ Mine(t) = {b}
           /\ below \in PortsOf(t, b)
           /\ \/ t.ifs[below].type # "lag" /\ port = below
              \/ /\ t.ifs[below].type = "lag"
                 /\ port \in MembersOf(t, below)
                 /\ \/ MembersOf(t, below) = {port}
                    \/ Flagged(t, MembersOf(t, below)) = {port}
  BY InstallChain
<1>2. b # None /\ below # None /\ port # None
  BY DEF WellFormed, OfType
<1>3. port \in ModelPorts(t) /\ PortValid(t, port)
  <2>1. CASE t.ifs[below].type # "lag"
    BY <1>1, <2>1, PortPlace
  <2>2. CASE t.ifs[below].type = "lag"
    <3>1. below \in OfType(t, "lag")
      BY <2>2 DEF OfType
    <3> QED
      BY <1>1, <2>2, <3>1, PortPlace
  <2> QED
    BY <2>1, <2>2
<1>4. NicOf(t, links, port) = cable /\ LinuxName(t, links, port) = cable /\ cable \in DOMAIN links
  <2>1. InstallMac(t) = t.ifs[port].mac
    BY <1>2 DEF InstallMac
  <2>2. NicsWith(links, t.ifs[port].mac) = {NicOf(t, links, port)} /\ NicOf(t, links, port) \in DOMAIN links
    BY <1>3, MatchedNic
  <2> QED
    BY <1>3, <2>1, <2>2 DEF LinuxName
<1>5. /\ DOMAIN render.bonds = OfType(t, "lag")
      /\ DOMAIN render.bridges = OfType(t, "bridge")
      /\ \A l \in OfType(t, "lag") : render.bonds[l].slaves = {LinuxName(t, links, m) : m \in MembersOf(t, l)}
      /\ \A l \in OfType(t, "lag") : render.bonds[l].mode = t.ifs[l].lagMode
      /\ render.bridges[b].ports = {LinuxName(t, links, p) : p \in PortsOf(t, b)}
      /\ render.bridges[b].management
  BY <1>1 DEF Render
<1>6. cable \notin OfType(t, "lag")
  BY <1>4
<1> HIDE DEF port, render
<1>7. cable \in Uplinks(render, b)
  <2>1. CASE t.ifs[below].type # "lag"
    <3>1. cable \in render.bridges[b].ports
      BY <1>1, <1>4, <1>5, <2>1
    <3> QED
      BY <1>5, <1>6, <3>1 DEF Uplinks
  <2>2. CASE t.ifs[below].type = "lag"
    <3>1. below \in OfType(t, "lag")
      BY <2>2 DEF OfType
    <3>2. LinuxName(t, links, below) = below
      BY <3>1, PortPlace DEF LinuxName
    <3>3. below \in DOMAIN render.bonds \intersect render.bridges[b].ports
      BY <1>1, <1>5, <3>1, <3>2
    <3>4. cable \in render.bonds[below].slaves
      BY <1>1, <1>4, <1>5, <2>2, <3>1
    <3> QED
      BY <3>3, <3>4 DEF Uplinks
  <2> QED
    BY <2>1, <2>2
<1>8. cable \in ManagementUplinks(render)
  BY <1>5, <1>7 DEF ManagementUplinks
<1>9. ASSUME NEW l \in OfType(t, "lag"), cable \in render.bonds[l].slaves,
             render.bonds[l].mode = "active-backup"
      PROVE  render.bonds[l].primary = cable \/ render.bonds[l].slaves = {cable}
  <2>1. PICK m \in MembersOf(t, l) : LinuxName(t, links, m) = cable
    BY <1>5, <1>9
  <2>2. m \in ModelPorts(t) /\ NicOf(t, links, m) = cable
    BY <2>1, PortPlace DEF LinuxName
  <2>3. m = port
    BY <1>3, <1>4, <2>2, NicsDistinct
  <2>4. t.ifs[port].lag = l /\ l # None
    BY <2>1, <2>3 DEF MembersOf, OfType, WellFormed
  <2>5. t.ifs[below].type = "lag"
    <3>1. ASSUME port = below PROVE FALSE
      <4>1. t.ifs[port].bridge = b
        BY <1>1, <3>1 DEF PortsOf
      <4> QED
        BY <1>2, <1>3, <2>4, <4>1 DEF PortValid
    <3> QED
      BY <1>1, <3>1
  <2>6. below = l
    BY <1>1, <2>4, <2>5 DEF MembersOf, PortValid, NonPortTypes, OfType
  <2>7. CASE MembersOf(t, l) = {port}
    BY <1>4, <1>5, <2>7
  <2>8. CASE Flagged(t, MembersOf(t, l)) = {port}
    <3>1. t.ifs[l].lagMode \in PrimaryModes
      BY <1>5, <1>9 DEF PrimaryModes
    <3>2. BondPrimary(t, l) = port
      BY <2>8, <3>1, OnlyOne DEF BondPrimary
    <3>3. render.bonds[l].primary = LinuxName(t, links, port)
      BY <1>2, <3>2 DEF Render, render
    <3> QED
      BY <1>4, <3>3
  <2> QED
    BY <1>1, <2>5, <2>6, <2>7, <2>8
<1> QED
  BY <1>5, <1>8, <1>9 DEF PrefersUplink, render
-----------------------------------------------------------------------------
(* The record is one of the SoT's, and the node one of the nodes, until    *)
(* the run has planned.                                                    *)
Recorded == sot # Forgotten => sot \in Topologies /\ node \in Nodes

LEMMA RecordedInit == HInit => Recorded
BY DEF HInit, Recorded

LEMMA RecordedStep == Recorded /\ [HNext]_hvars => Recorded'
BY DEF Recorded, HNext, Plan, hvars

(* A step of the composition is one of the apply. *)
LEMMA PlanIsStart == ASSUME [HNext]_hvars PROVE [Next]_vars
<1>1. CASE UNCHANGED hvars
  BY <1>1 DEF hvars
<1>2. ASSUME NEW r \in Runs, Planned(r) PROVE Next
  BY <1>2 DEF Planned, ContentsFor, Start, Next
<1>3. ASSUME NEW r \in Runs, Refused(r) PROVE Next
  BY <1>3 DEF Refused, Next
<1> QED
  BY <1>1, <1>2, <1>3 DEF HNext, Plan

(* The composition implements the apply: a run that plans is one that      *)
(* starts with some render, and one that refuses writes nothing            *)
(* (_network_plan before _network_apply in host_baseline.py).              *)
THEOREM PlanImplementsApply == HSpec => Spec
<1>1. HInit => Init
  BY DEF HInit
<1>2. [HNext]_hvars => [Next]_vars
  BY PlanIsStart
<1> QED
  BY <1>1, <1>2, PTL DEF HSpec, Spec

(* What a record and a node bring with them. *)
LEMMA NodeFacts ==
  ASSUME Recorded, sot # Forgotten
  PROVE  /\ WellFormed(sot) /\ None \notin {"bridge", "lag"}
         /\ DOMAIN Links = DOMAIN node.macs
         /\ IsFiniteSet(DOMAIN Links) /\ DOMAIN Links \intersect OfType(sot, "lag") = {}
         /\ \A n \in DOMAIN node.macs : node.macs[n] # None
<1>1. sot \in Topologies /\ node \in Nodes
  BY DEF Recorded
<1>2. WellFormed(sot) /\ None \notin {"bridge", "lag"}
  BY <1>1, HostNetworkAssumption
<1>3. IsFiniteSet(DOMAIN node.macs) /\ DOMAIN node.macs \intersect OfType(sot, "lag") = {}
  BY <1>1, HostNetworkAssumption
<1>4. \A n \in DOMAIN node.macs : node.macs[n] # None
  BY <1>1, HostNetworkAssumption
<1>5. DOMAIN Links = DOMAIN node.macs
  BY DEF Links, LinksOf
<1> QED
  BY <1>2, <1>3, <1>4, <1>5

(* "Matched to the node's NICs by MAC (the permanent address when          *)
(* enslaved)" (docs/sot-data-contract.md): whatever NICs are enslaved and  *)
(* whatever MAC their bond shows, match_ports finds the same NICs and the  *)
(* render is the same as on a node without bonds.                          *)
THEOREM BondsDoNotConfuseHolds == HSpec => []BondsDoNotConfuse
<1>1. Recorded => BondsDoNotConfuse
  <2> SUFFICES ASSUME Recorded, sot # Forgotten
               PROVE  LET fresh == LinksOf(node.macs, {}, None) IN
                        /\ Matched(sot, Links) <=> Matched(sot, fresh)
                        /\ Matched(sot, Links) => Render(sot, Links) = Render(sot, fresh)
    BY DEF BondsDoNotConfuse
  <2> DEFINE fresh == LinksOf(node.macs, {}, None)
  <2>1. \A mac : NicsWith(Links, mac) = NicsWith(fresh, mac)
    BY NodeFacts, PermanentMac DEF Links
  <2> QED
    BY <2>1, SameLinks
<1> QED
  BY <1>1, RecordedInit, RecordedStep, PTL DEF HSpec

(* "the same port stays the bond's primary afterwards, so the cable that   *)
(* carried the install keeps carrying management"                          *)
(* (docs/sot-data-contract.md): derive_install_interface and               *)
(* build_network_model read one record, and no record that both accept     *)
(* separates them.                                                         *)
THEOREM InstallCableKeptHolds == HSpec => InstallCableKept
<1> DEFINE Keeps(r) ==
      /\ sot # Forgotten
      /\ Planned(r)
      /\ InstallMac(sot) # None
      /\ NicsWith(Links, InstallMac(sot)) = {node.cable}
      => job'[r].render \in Reaches /\ PrefersUplink(Render(sot, Links), node.cable)
<1>1. ASSUME Recorded, NodeOK, NEW r \in Runs PROVE Keeps(r)
  <2> SUFFICES ASSUME sot # Forgotten, Planned(r), InstallMac(sot) # None,
                      NicsWith(Links, InstallMac(sot)) = {node.cable}
               PROVE  job'[r].render \in Reaches /\ PrefersUplink(Render(sot, Links), node.cable)
    OBVIOUS
  <2>1. PrefersUplink(Render(sot, Links), node.cable)
    <3>1. Accepted(sot) /\ Matched(sot, Links)
      BY DEF Planned
    <3>2. InstallPort(sot) # None
      BY DEF InstallMac
    <3> QED
      BY <1>1, <3>1, <3>2, NodeFacts, InstallPortCarries
  <2>2. PICK content \in ContentsFor(Render(sot, Links)) : StartWith(r, content)
    BY DEF Planned
  <2>3. job'[r].render = content
    BY <1>1, <2>2, StartMoves DEF NodeOK
  <2>4. content \in Reaches
    BY <2>1, <2>2 DEF ContentsFor, PrefersUplink
  <2> QED
    BY <2>1, <2>3, <2>4
<1>2. Recorded /\ NodeOK => [\A r \in Runs : Keeps(r)]_hvars
  BY <1>1
<1>3. HInit => Recorded /\ NodeOK
  BY RecordedInit, NodeInit DEF HInit
<1>4. Recorded /\ NodeOK /\ [HNext]_hvars => Recorded' /\ NodeOK'
  BY RecordedStep, NodeStep, PlanIsStart
<1> QED
  BY <1>2, <1>3, <1>4, PTL DEF HSpec, InstallCableKept
=============================================================================
