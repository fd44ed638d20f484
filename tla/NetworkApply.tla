----------------------------- MODULE NetworkApply -----------------------------
(***************************************************************************)
(* The last step of the Host Baseline job: a node's /etc/network/interfaces *)
(* is replaced over the very network it configures.  Three kinds of actor  *)
(* meet on the node: the applier of a run (jobs/lib/                       *)
(* host_baseline_applier.sh), which stages the file, arms a timer, moves   *)
(* the file and reloads; the systemd timer, which restores the previous    *)
(* file; and the job (jobs/baremetal/host_baseline.py, _network_apply),    *)
(* which must reconnect and cancel the timer.                              *)
(*                                                                         *)
(* Data kept: which content a file holds, and whether the node can be      *)
(* reached under it.  Time is not modelled: but for one step that follows  *)
(* the arming at once, a timer that is armed may fire at any moment.       *)
(***************************************************************************)
EXTENDS Naturals

CONSTANTS
  Runs,        \* bound: job runs on the node, each with its own NET_TS
  Contents,    \* contents of the file
  Factory,     \* the content that the installation left
  Absent,      \* no file
  Reaches,     \* contents under which the node answers on its management IP
  MaxFaults,   \* bound: failing commands, lost sessions, dead workers, reboots
  InWindow,    \* a reload is over before the timer of its run fires
  Quick        \* a reload is over before its job reconnects, and an applier before another one starts

ASSUME NetworkAssumption ==
  /\ Factory \in Contents
  /\ Absent \notin Contents
  /\ Reaches \subseteq Contents
  /\ Factory \in Reaches
  /\ MaxFaults \in Nat
  /\ InWindow \in BOOLEAN
  /\ Quick \in BOOLEAN

VARIABLES
  file,     \* /etc/network/interfaces
  staged,   \* interfaces.new
  live,     \* what the kernel runs
  backup,   \* [Runs -> interfaces.nfv-baseline.<ts>]
  timer,    \* [Runs -> the rollback timer and its service]
  applier,  \* [Runs -> the applier's process]
  job,      \* [Runs -> the job]
  botched,  \* history: a restoring command has failed, or a reboot caught an apply half-way
  faults

vars == <<file, staged, live, backup, timer, applier, job, botched, faults>>

TimerStates == {"none", "armed", "stopped", "firing", "copied", "done"}

AppSteps == {"none", "stage", "check", "arm", "move", "reload", "restore", "rereload", "ended"}

(* cut: its session is gone, so that it dies of its next message.          *)
Applier == [at : AppSteps, read : Contents \union {Absent}, cut : BOOLEAN,
            out : {"none", "ok", "changed", "failed"}]

JobSteps == {"idle", "planned", "applying", "reconnect", "marker", "stop", "recheck", "verify"}
JobEnds == {"ok", "changed", "failed", "dead"}

(* insync: the file was the render when the run observed the node          *)
Job == [at : JobSteps \union JobEnds, render : Contents, insync : BOOLEAN]

Init ==
  /\ file = Factory
  /\ staged = Absent
  /\ live = Factory
  /\ backup = [r \in Runs |-> Absent]
  /\ timer = [r \in Runs |-> "none"]
  /\ applier = [r \in Runs |-> [at |-> "none", read |-> Absent, cut |-> FALSE, out |-> "none"]]
  /\ job = [r \in Runs |-> [at |-> "idle", render |-> Factory, insync |-> FALSE]]
  /\ botched = FALSE
  /\ faults = 0

-----------------------------------------------------------------------------
Fault == faults < MaxFaults /\ faults' = faults + 1 /\ UNCHANGED botched
NoFault == UNCHANGED <<faults, botched>>

(* a command that restores the previous file fails: nobody looks at it *)
RestoreFault == faults < MaxFaults /\ faults' = faults + 1 /\ botched' = TRUE

Reachable == live \in Reaches

JobAt(r, step) == job[r].at = step
JobGoto(r, step) == job' = [job EXCEPT ![r].at = step]

AppAt(r, step) == applier[r].at = step
AppGoto(r, step) == applier' = [applier EXCEPT ![r].at = step]
AppReads(r, step, content) == applier' = [applier EXCEPT ![r].at = step, ![r].read = content]
AppEnds(r, outcome) == applier' = [applier EXCEPT ![r].at = "ended", ![r].out = outcome]
CutSession(r) == applier' = [applier EXCEPT ![r].cut = TRUE]

Reloading(r) == applier[r].at \in {"reload", "restore", "rereload"}

(* ifreload refuses while another one runs: its lock does not wait *)
AppLoads(r) == applier[r].at \in {"reload", "rereload"}
TimerLoads(r) == timer[r] = "copied"
AppLockedOut(r) == (\E q \in Runs : TimerLoads(q)) \/ \E q \in Runs \ {r} : AppLoads(q)
TimerLockedOut(r) == (\E q \in Runs : AppLoads(q)) \/ \E q \in Runs \ {r} : TimerLoads(q)

Timer(r, from, to) == timer[r] = from /\ timer' = [timer EXCEPT ![r] = to]

(* systemctl stop of the timer unit: a service that has started goes on *)
StopTimer(r) == timer' = [timer EXCEPT ![r] = IF @ = "armed" THEN "stopped" ELSE @]

NodeSame == UNCHANGED <<file, staged, live, backup>>

-----------------------------------------------------------------------------
(* The applier: nfv_step_network_apply.  nfv_write_file stages a whole     *)
(* file or leaves what is there.                                           *)
Stage(r) ==
  /\ AppAt(r, "stage")
  /\ \/ job[r].render = file /\ staged' = Absent /\ AppEnds(r, "ok") /\ NoFault
     \/ job[r].render # file /\ staged' = job[r].render /\ AppGoto(r, "check") /\ NoFault
     \/ UNCHANGED staged /\ AppEnds(r, "failed") /\ Fault
  /\ UNCHANGED <<file, live, backup, timer, job>>

(* mutant: the timer is armed without a backup having been made *)
BackUpForgotten(r) ==
  /\ AppAt(r, "check")
  /\ AppGoto(r, "arm")
  /\ NodeSame
  /\ UNCHANGED <<timer, job>> /\ NoFault

(* the syntax check and the backup; a refusal removes what was staged *)
BackUp(r) ==
  /\ AppAt(r, "check")
  /\ \/ backup' = [backup EXCEPT ![r] = file] /\ AppGoto(r, "arm") /\ UNCHANGED staged /\ NoFault
     \/ staged' = Absent /\ AppEnds(r, "failed") /\ Fault /\ UNCHANGED backup
  /\ UNCHANGED <<file, live, timer, job>>

(* mutant: a systemd-run that fails is overlooked *)
ArmTimerUnchecked(r) ==
  /\ AppAt(r, "arm")
  /\ \/ Timer(r, "none", "armed") /\ NoFault
     \/ Fault /\ UNCHANGED timer
  /\ AppGoto(r, "move")
  /\ NodeSame
  /\ UNCHANGED job

ArmTimer(r) ==
  /\ AppAt(r, "arm")
  /\ \/ Timer(r, "none", "armed") /\ AppGoto(r, "move") /\ UNCHANGED staged /\ NoFault
     \/ staged' = Absent /\ AppEnds(r, "failed") /\ Fault /\ UNCHANGED timer
  /\ UNCHANGED <<file, live, backup, job>>

(* the message about the armed timer has been printed: a cut applier is    *)
(* not here any more                                                       *)
MoveFile(r) ==
  /\ AppAt(r, "move")
  /\ ~applier[r].cut
  /\ \/ /\ staged # Absent
        /\ file' = staged
        /\ staged' = Absent
        /\ AppReads(r, "reload", staged)
        /\ UNCHANGED timer /\ NoFault
     \/ /\ StopTimer(r)
        /\ AppEnds(r, "failed")
        /\ Fault
        /\ UNCHANGED <<file, staged>>
  /\ UNCHANGED <<live, backup, job>>

(* ifreload -a in a unit of its own; one that fails may have got part of   *)
(* the way, one that is locked out has not begun                           *)
Reload(r) ==
  /\ AppAt(r, "reload")
  /\ \/ live' = applier[r].read /\ AppEnds(r, "changed") /\ NoFault
     \/ live' \in {live, applier[r].read} /\ AppGoto(r, "restore") /\ Fault
     \/ AppLockedOut(r) /\ UNCHANGED live /\ AppGoto(r, "restore") /\ NoFault
  /\ UNCHANGED <<file, staged, backup, timer, job>>

(* cp, ifreload -a and systemctl stop, one after the other whatever the    *)
(* first two come to                                                       *)
RestoreFile(r) ==
  /\ AppAt(r, "restore")
  /\ \/ file' = backup[r] /\ NoFault
     \/ UNCHANGED file /\ RestoreFault
  /\ AppReads(r, "rereload", file')
  /\ UNCHANGED <<staged, live, backup, timer, job>>

RestoreLive(r) ==
  /\ AppAt(r, "rereload")
  /\ \/ live' = applier[r].read /\ NoFault
     \/ UNCHANGED live /\ RestoreFault
     \/ AppLockedOut(r) /\ UNCHANGED live /\ NoFault
  /\ StopTimer(r)
  /\ AppEnds(r, "failed")
  /\ UNCHANGED <<file, staged, backup, job>>

(* an applier without a session may die of a message before the move *)
Dies(r) ==
  /\ applier[r].cut
  /\ applier[r].at \in {"stage", "check", "arm", "move"}
  /\ AppEnds(r, "none")
  /\ NodeSame
  /\ UNCHANGED <<timer, job>> /\ NoFault

Apply(r) ==
  \/ Stage(r) \/ BackUp(r) \/ ArmTimer(r) \/ MoveFile(r)
  \/ Reload(r) \/ RestoreFile(r) \/ RestoreLive(r) \/ Dies(r)

-----------------------------------------------------------------------------
(* The timer and its service.  ROLLBACK_MIN is 60 seconds, and the move is *)
(* the command after the arming; a reload takes longer.                    *)
Fire(r) ==
  /\ ~AppAt(r, "move")
  /\ InWindow => ~Reloading(r)
  /\ Timer(r, "armed", "firing")
  /\ NodeSame
  /\ UNCHANGED <<applier, job>> /\ NoFault

(* no reload without the copy; the marker, timer state "done", either way *)
CopyBack(r) ==
  /\ \/ Timer(r, "firing", "copied") /\ file' = backup[r] /\ NoFault
     \/ Timer(r, "firing", "done") /\ UNCHANGED file /\ RestoreFault
  /\ UNCHANGED <<staged, live, backup, applier, job>>

(* what the reload comes to, and that it was locked out, goes unnoticed *)
ReloadBack(r) ==
  /\ Timer(r, "copied", "done")
  /\ \/ live' = file /\ NoFault
     \/ UNCHANGED live /\ RestoreFault
     \/ TimerLockedOut(r) /\ UNCHANGED live /\ NoFault
  /\ UNCHANGED <<file, staged, backup, applier, job>>

TimerRuns(r) == Fire(r) \/ CopyBack(r) \/ ReloadBack(r)

-----------------------------------------------------------------------------
(* The job: one run at a time, its connection made at the start. *)
MayStart(r) ==
  /\ JobAt(r, "idle")
  /\ \A q \in Runs : job[q].at \in JobEnds \union {"idle"}

StartWith(r, render) ==
  /\ MayStart(r)
  /\ Reachable
  /\ job' = [job EXCEPT ![r] = [at |-> "planned", render |-> render, insync |-> file = render]]
  /\ NodeSame
  /\ UNCHANGED <<timer, applier>> /\ NoFault

Start(r) == \E render \in Contents \ {Factory} : StartWith(r, render)

(* the gates, the identity check or the plan refuse: nothing is written *)
Refuse(r) ==
  /\ MayStart(r)
  /\ JobGoto(r, "failed")
  /\ NodeSame
  /\ UNCHANGED <<timer, applier>> /\ NoFault

(* no difference when the node was observed: only the bonds are compared *)
InSync(r) ==
  /\ JobAt(r, "planned")
  /\ job[r].insync
  /\ \E outcome \in {"ok", "failed"} : JobGoto(r, outcome)
  /\ NodeSame
  /\ UNCHANGED <<timer, applier>> /\ NoFault

SendApply(r) ==
  /\ JobAt(r, "planned")
  /\ ~job[r].insync
  /\ Reachable
  /\ Quick => \A q \in Runs : applier[q].at \in {"none", "ended"}
  /\ JobGoto(r, "applying")
  /\ AppGoto(r, "stage")
  /\ NodeSame
  /\ UNCHANGED timer /\ NoFault

(* an earlier step of the job, or the payload, did not get through *)
StepFails(r) ==
  /\ JobAt(r, "planned")
  /\ ~Reachable
  /\ JobGoto(r, "failed")
  /\ NodeSame
  /\ UNCHANGED <<timer, applier>> /\ NoFault

(* the applier's messages arrived; the old session is closed *)
TakeResult(r) ==
  /\ JobAt(r, "applying")
  /\ AppAt(r, "ended")
  /\ JobGoto(r, IF applier[r].out = "changed" THEN "reconnect" ELSE applier[r].out)
  /\ NodeSame
  /\ UNCHANGED <<timer, applier>> /\ NoFault

(* the session dropped, or the payload's timeout (a third of the rollback  *)
(* window) passed                                                          *)
LoseSession(r) ==
  /\ JobAt(r, "applying")
  /\ ~AppAt(r, "ended")
  /\ JobGoto(r, "reconnect")
  /\ CutSession(r)
  /\ NodeSame
  /\ UNCHANGED timer /\ NoFault

Reconnect(r) ==
  /\ JobAt(r, "reconnect")
  /\ Reachable
  /\ Quick => ~Reloading(r)
  /\ JobGoto(r, "marker")
  /\ NodeSame
  /\ UNCHANGED <<timer, applier>> /\ NoFault

GiveUp(r) ==
  /\ JobAt(r, "reconnect")
  /\ JobGoto(r, "failed")
  /\ NodeSame
  /\ UNCHANGED <<timer, applier>> /\ NoFault

(* nfv_step_network_confirm, and the job's look at the file afterwards *)
ReadMarker(r) ==
  /\ JobAt(r, "marker")
  /\ JobGoto(r, IF timer[r] = "done" THEN "failed" ELSE "stop")
  /\ NodeSame
  /\ UNCHANGED <<timer, applier>> /\ NoFault

CancelTimer(r) ==
  /\ JobAt(r, "stop")
  /\ \/ StopTimer(r) /\ NoFault
     \/ UNCHANGED timer /\ Fault
  /\ JobGoto(r, "recheck")
  /\ NodeSame
  /\ UNCHANGED applier

(* mutant: only the marker is looked at, not the service that is restoring *)
RecheckMarkerOnly(r) ==
  /\ JobAt(r, "recheck")
  /\ JobGoto(r, IF timer[r] \in {"done", "armed"} THEN "failed" ELSE "verify")
  /\ NodeSame
  /\ UNCHANGED <<timer, applier>> /\ NoFault

Recheck(r) ==
  /\ JobAt(r, "recheck")
  /\ JobGoto(r, IF timer[r] \in {"firing", "copied", "done", "armed"} THEN "failed" ELSE "verify")
  /\ NodeSame
  /\ UNCHANGED <<timer, applier>> /\ NoFault

Verify(r) ==
  /\ JobAt(r, "verify")
  /\ \E outcome \in {"failed"} \union (IF file = job[r].render THEN {"changed"} ELSE {}) :
       JobGoto(r, outcome)
  /\ NodeSame
  /\ UNCHANGED <<timer, applier>> /\ NoFault

(* the confirming session is lost *)
ConfirmFails(r) ==
  /\ job[r].at \in {"marker", "stop", "recheck", "verify"}
  /\ Fault
  /\ JobGoto(r, "failed")
  /\ NodeSame
  /\ UNCHANGED <<timer, applier>>

WorkerDies(r) ==
  /\ job[r].at \in JobSteps \ {"idle"}
  /\ Fault
  /\ JobGoto(r, "dead")
  /\ CutSession(r)
  /\ NodeSame
  /\ UNCHANGED timer

(* The node reboots: transient units, the applier and all sessions are     *)
(* gone, as is the marker in /run; the interfaces come up as the file      *)
(* says, or as a staged file that PVE puts into its place.  Nothing then   *)
(* guards a file that was moved or staged, or finishes a restoring that    *)
(* had not yet copied.                                                     *)
HalfWay(r) ==
  \/ timer[r] \in {"armed", "firing"} /\ file # backup[r]
  \/ AppAt(r, "restore")

Reboot ==
  /\ faults < MaxFaults
  /\ faults' = faults + 1
  /\ \/ UNCHANGED <<file, staged>>
     \/ staged # Absent /\ file' = staged /\ staged' = Absent
  /\ live' = file'
  /\ botched' = (botched \/ file' # file \/ \E r \in Runs : HalfWay(r))
  /\ timer' = [r \in Runs |-> IF timer[r] = "none" THEN "none" ELSE "stopped"]
  /\ applier' = [r \in Runs |-> IF applier[r].at \in {"none", "ended"} THEN applier[r]
                                ELSE [applier[r] EXCEPT !.at = "ended", !.out = "none", !.cut = TRUE]]
  /\ job' = [r \in Runs |->
               CASE job[r].at = "applying" -> [job[r] EXCEPT !.at = "reconnect"]
                 [] job[r].at \in {"planned", "marker", "stop", "recheck", "verify"} -> [job[r] EXCEPT !.at = "failed"]
                 [] OTHER -> job[r]]
  /\ UNCHANGED backup

JobRuns(r) ==
  \/ InSync(r) \/ SendApply(r) \/ StepFails(r)
  \/ TakeResult(r) \/ LoseSession(r) \/ Reconnect(r) \/ GiveUp(r)
  \/ ReadMarker(r) \/ CancelTimer(r) \/ Recheck(r) \/ Verify(r)

Next ==
  \/ \E r \in Runs :
       \/ Apply(r) \/ TimerRuns(r) \/ JobRuns(r)
       \/ Start(r) \/ Refuse(r) \/ ConfirmFails(r) \/ WorkerDies(r)
  \/ Reboot

Spec == Init /\ [][Next]_vars

(* The node's processes run, a timer that is armed fires, and a job that   *)
(* has started goes on.                                                    *)
Fairness ==
  \A r \in Runs : WF_vars(Apply(r)) /\ WF_vars(TimerRuns(r)) /\ WF_vars(JobRuns(r))

FairSpec == Spec /\ Fairness

-----------------------------------------------------------------------------
NetTypeOK ==
  /\ file \in Contents
  /\ staged \in Contents \union {Absent}
  /\ live \in Contents
  /\ backup \in [Runs -> Contents \union {Absent}]
  /\ timer \in [Runs -> TimerStates]
  /\ applier \in [Runs -> Applier]
  /\ job \in [Runs -> Job]
  /\ botched \in BOOLEAN
  /\ faults \in 0..MaxFaults

(* Something on the node is still going to bring the previous file back. *)
RollbackPending ==
  \E r \in Runs : timer[r] \in {"armed", "firing", "copied"} \/ applier[r].at \in {"restore", "rereload"}

(* "management reachability is what the rollback timer protects"           *)
(* (docs/host-baseline.md): a node that cannot be reached has a rollback   *)
(* pending that does not need the job, wherever the session, the worker or *)
(* a command failed, unless the failed command is a restoring one.  It     *)
(* takes reloads that are over before their timer fires (InWindow) and     *)
(* before their job reconnects (Quick).                                    *)
NeverStranded == Reachable \/ RollbackPending \/ botched

(* A run that reports the network in place, the only one so far, is right: *)
(* the file is its render and nothing on the node is going to undo it, an  *)
(* applier that the job has lost included.                                 *)
Ended(r) == job[r].at \in {"ok", "changed"}

DoneIsKept ==
  \A r \in Runs :
    Ended(r) /\ (\A q \in Runs \ {r} : job[q].at = "idle") =>
      file = job[r].render /\ ~RollbackPending

(* "Re-run any time: it converges" (docs/baremetal-install.md): a run that *)
(* ends well leaves its render in place, also after one that did not.      *)
RerunConverges ==
  \A r \in Runs :
    Ended(r) /\ (\A q \in Runs \ {r} : job[q].at \in {"idle", "failed", "dead"} /\ AppAt(q, "ended")) =>
      file = job[r].render /\ ~RollbackPending

(* A node that was lost in the apply comes back by itself, as long as no   *)
(* restoring command has failed.                                           *)
ComesBack == []<>(Reachable \/ botched)
=============================================================================
