-------------------------- MODULE HostBaseline_proofs --------------------------
(***************************************************************************)
(* The Host Baseline job for any number of runs, edits and faults.  Types  *)
(* need no assumption; the rest needs Alone, by which a run's state can be *)
(* disturbed by its own steps only (Ordered).  So an invariant says, step  *)
(* by step, what the active run is sure of: of snmpd (SnmpSure), of the    *)
(* realm (RealmSure), of the account, its token and Secrets (AccountSure). *)
(* A payload that goes on after a failed command is sure of less (bad).    *)
(***************************************************************************)
EXTENDS HostBaseline, TLAPS

(* Types.  A run's token value is its own; what is being recorded exists.  *)
RunRecords ==
  [at : Steps \union Ends \union {"idle"}, want : Settings, plan : Plans, value : Runs \union {None},
   bad : BOOLEAN, changed : BOOLEAN, warned : BOOLEAN, untried : BOOLEAN, torn : BOOLEAN, misprinted : BOOLEAN]

NodeTyped ==
  /\ snmp \in [conf : Values \union {None}, loaded : Values \union {None}, up : BOOLEAN,
              user : Values \union {None}, print : Values \union {None}]
  /\ realm \in [options : Values \union {None}, password : Values \union {None}, group : BOOLEAN, acl : BOOLEAN]
  /\ account \in [user : BOOLEAN, token : Tokens \union {None}, privsep : BOOLEAN, grants : SUBSET Grants]

SotTyped ==
  /\ sot \in Settings
  /\ store \in [value : Runs \union {None}, named : BOOLEAN]
  /\ state \in {"bm_installed", "baseline_done"}
  /\ edits \in 0..MaxEdits
  /\ faults \in 0..MaxFaults

RunTyped ==
  /\ run \in [Runs -> RunRecords]
  /\ \A r \in Runs : run[r].value \in {r, None}

Recorded ==
  /\ store.named => store.value # None
  /\ \A r \in Runs : At(r, "records") => store.value # None

TypeInv == NodeTyped /\ SotTyped /\ RunTyped /\ Recorded

(* Alone: the runs start in order, and each starts when the others are over. *)
Ordered ==
  /\ \A q, r \in Runs : Active(q) /\ Active(r) => q = r
  /\ \A q, r \in Runs : q < r /\ At(q, "idle") => At(r, "idle")

(* A token's ACL entries go with it. *)
NoGhostGrants == account.token = None => "token" \notin account.grants

OrderInv == Ordered /\ NoGhostGrants

Is(r, steps) == run[r].at \in steps
Late == {"user", "token", "add", "privsep", "aclDelete", "aclAdd", "files", "records", "verify", "network", "save"}
AfterSnmp == {"realm", "password", "sync", "groupAcl"} \union Late

(* snmpd, step by step *)
SnmpSure(r) ==
  /\ Is(r, {"conf", "users"}) => run[r].misprinted \/ ~Misprinted(r)
  /\ Is(r, {"conf"}) => run[r].torn \/ ~Torn
  /\ Is(r, {"users", "create", "print", "restart"}) =>
       /\ snmp.conf = Want(r).conf
       /\ run[r].torn \/ run[r].changed \/ ~Torn
  /\ Is(r, {"print"}) => snmp.user = Want(r).v3
  /\ Is(r, {"restart"} \union AfterSnmp) => run[r].misprinted \/ snmp.user = Want(r).v3
  /\ Is(r, AfterSnmp) => snmp.conf = Want(r).conf /\ snmp.up /\ (run[r].torn \/ ~Torn)

SnmpInv == \A r \in Runs : SnmpSure(r)

(* the realm, step by step *)
BeforeRealm == {"conf", "users", "create", "print", "restart", "realm"}

RealmSure(r) ==
  /\ Is(r, BeforeRealm) /\ Planned(r).realm = "none" => realm.options = Want(r).options
  /\ Is(r, {"password", "sync", "groupAcl"}) => run[r].bad \/ realm.options = Want(r).options
  /\ Is(r, {"sync", "groupAcl"}) => run[r].bad \/ realm.password = Want(r).password
  /\ Is(r, {"groupAcl"}) => run[r].warned \/ realm.group
  /\ Is(r, Late) => /\ realm.options = Want(r).options /\ realm.password = Want(r).password
                    /\ run[r].warned \/ (realm.group /\ realm.acl)

RealmInv == \A r \in Runs : RealmSure(r)

(* the account and its token, step by step *)
BeforeToken == BeforeRealm \union {"password", "sync", "groupAcl", "user", "token"}

(* Whoever reads the Secrets has the node's token, or the API was not asked. *)
Kept(r) == run[r].untried \/ (Stored /\ store.value = account.token)

Made(r) == run[r].value = r /\ account.token = r

PlanFits(r) ==
  /\ Planned(r).adds = Desired(Want(r)) \ KnownGrants(Planned(r).token)
  /\ Planned(r).deletes = KnownGrants(Planned(r).token) \ Desired(Want(r))

TokenPlanned(r) ==
  /\ PlanFits(r)
  /\ run[r].value = None
  /\ Planned(r).token = "create" <=> account.token = None
  /\ Planned(r).token = "keep" => Kept(r)
  /\ Planned(r).privsepFix <=> Planned(r).token = "keep" /\ account.privsep # Want(r).privsep

TokenSure(r) ==
  /\ account.token # None
  /\ (run[r].value = None /\ Kept(r)) \/ Made(r)

AccountSure(r) ==
  /\ Is(r, BeforeToken) => TokenPlanned(r)
  /\ Is(r, {"add"}) =>
       /\ run[r].value = None /\ account.token = None /\ ~Planned(r).privsepFix
       /\ Planned(r).adds = Desired(Want(r)) \ account.grants
       /\ Planned(r).deletes = account.grants \ Desired(Want(r))
  /\ Is(r, {"privsep", "aclDelete"}) /\ ~run[r].bad =>
       /\ TokenSure(r)
       /\ Planned(r).adds = Desired(Want(r)) \ account.grants
       /\ Planned(r).deletes = account.grants \ Desired(Want(r))
  /\ Is(r, {"privsep"}) /\ ~run[r].bad => Planned(r).privsepFix \/ account.privsep = Want(r).privsep
  /\ Is(r, {"aclDelete", "aclAdd", "files", "records", "verify"}) /\ ~run[r].bad =>
       account.privsep = Want(r).privsep
  /\ Is(r, {"aclAdd"}) /\ ~run[r].bad =>
       TokenSure(r) /\ account.grants \union Planned(r).adds = Desired(Want(r))
  /\ Is(r, {"files"}) /\ ~run[r].bad => TokenSure(r) /\ account.grants = Desired(Want(r))
  /\ Is(r, {"records", "verify"}) => run[r].value = r /\ store.value = r
  /\ Is(r, {"verify"}) => store.named
  /\ Is(r, {"records", "verify"}) /\ ~run[r].bad => account.token = r /\ account.grants = Desired(Want(r))
  /\ Is(r, {"network"}) =>
       /\ account.token # None /\ Kept(r)
       /\ account.grants = Desired(Want(r)) /\ account.privsep = Want(r).privsep

Unmade(r) == Is(r, {"idle", "plan"}) => run[r].value = None

AccountInv == \A r \in Runs : AccountSure(r) /\ Unmade(r)

-----------------------------------------------------------------------------
(* How a step changes the run that makes it. *)
Only(r) == run' \in [Runs -> RunRecords] /\ \A q \in Runs \ {r} : run'[q] = run[q]

Keeps(r) ==
  /\ Only(r)
  /\ run'[r].want = run[r].want /\ run'[r].plan = run[r].plan
  /\ run'[r].torn = run[r].torn /\ run'[r].misprinted = run[r].misprinted

KeepsToken(r) == run'[r].value = run[r].value /\ run'[r].untried = run[r].untried

KeepsWarnings(r) == run'[r].bad = run[r].bad /\ run'[r].warned = run[r].warned

LEMMA Going ==
  ASSUME RunTyped, NEW r \in Runs, NEW step \in Steps \union Ends, Goto(r, step)
  PROVE  /\ Keeps(r) /\ KeepsToken(r) /\ KeepsWarnings(r)
         /\ run'[r].at = step /\ run'[r].changed = run[r].changed
<1> DEFINE q == [run[r] EXCEPT !.at = step]
<1>1. q \in RunRecords /\ q.at = step
  BY DEF RunTyped, RunRecords
<1>2. /\ q.want = run[r].want /\ q.plan = run[r].plan /\ q.torn = run[r].torn
      /\ q.misprinted = run[r].misprinted /\ q.value = run[r].value /\ q.untried = run[r].untried
      /\ q.bad = run[r].bad /\ q.warned = run[r].warned /\ q.changed = run[r].changed
  BY DEF RunTyped, RunRecords
<1>3. run' = [run EXCEPT ![r] = q]
  BY DEF Goto
<1> HIDE DEF q
<1> QED
  BY <1>1, <1>2, <1>3 DEF Keeps, KeepsToken, KeepsWarnings, Only, RunTyped

LEMMA Stumbling ==
  ASSUME RunTyped, NEW r \in Runs, NEW step \in Steps,
         run' = [run EXCEPT ![r].at = step, ![r].bad = TRUE]
  PROVE  /\ Keeps(r) /\ KeepsToken(r) /\ run'[r].warned = run[r].warned
         /\ run'[r].at = step /\ run'[r].bad
<1> DEFINE q == [run[r] EXCEPT !.at = step, !.bad = TRUE]
<1>1. q \in RunRecords /\ q.at = step /\ q.bad
  BY DEF RunTyped, RunRecords
<1>2. /\ q.want = run[r].want /\ q.plan = run[r].plan /\ q.torn = run[r].torn
      /\ q.misprinted = run[r].misprinted /\ q.value = run[r].value /\ q.untried = run[r].untried
      /\ q.warned = run[r].warned
  BY DEF RunTyped, RunRecords
<1>3. run' = [run EXCEPT ![r] = q]
  BY DEF RunTyped
<1> HIDE DEF q
<1> QED
  BY <1>1, <1>2, <1>3 DEF Keeps, KeepsToken, Only, RunTyped

LEMMA Faults ==
  ASSUME faults \in 0..MaxFaults, Fault \/ UNCHANGED faults
  PROVE  faults' \in 0..MaxFaults
<1>1. CASE Fault
  BY <1>1, BaselineAssumption DEF Fault
<1>2. CASE UNCHANGED faults
  BY <1>2
<1> QED
  BY <1>1, <1>2

LEMMA Starting ==
  ASSUME TypeInv, NEW r \in Runs, Start(r)
  PROVE  /\ Only(r) /\ run[r].at = "idle" /\ run'[r].at = "plan" /\ run'[r].value = run[r].value
         /\ \A q \in Runs : q < r => run[q].at # "idle" /\ (Alone => ~Active(q))
         /\ UNCHANGED <<snmp, realm, account, sot, store, state, edits, faults>>
<1> DEFINE q == [run[r] EXCEPT !.at = "plan", !.want = sot]
<1>0. "plan" \in Steps /\ sot \in Settings
  BY DEF Steps, TypeInv, SotTyped
<1>1. q \in RunRecords /\ q.at = "plan" /\ q.value = run[r].value
  BY <1>0 DEF TypeInv, RunTyped, RunRecords
<1>2. run' = [run EXCEPT ![r] = q]
  BY DEF Start, TypeInv, RunTyped
<1> HIDE DEF q
<1> QED
  BY <1>1, <1>2 DEF Only, TypeInv, RunTyped, Start, At, OnlyJob, NautobotSame, nodeVars

(* A plan is of the node as it is found; a token that cannot be tried is kept. *)
LEMMA PlanTyped ==
  ASSUME TypeInv, NEW want \in Settings, NEW reachable \in BOOLEAN
  PROVE  PlanFor(want, Verdict(reachable)) \in Plans
<1>1. TokenAction(Verdict(reachable)) \in {"keep", "create", "rotate"}
  BY DEF TokenAction
<1>2. KnownGrants(TokenAction(Verdict(reachable))) \subseteq Grants
  BY DEF KnownGrants, TypeInv, NodeTyped
<1>3. Desired(want) \subseteq Grants
  BY DEF Desired, Grants
<1>4. account.user \in BOOLEAN
  BY DEF TypeInv, NodeTyped
<1> QED
  BY <1>1, <1>2, <1>3, <1>4 DEF PlanFor, Plans

LEMMA Planning ==
  ASSUME TypeInv, NEW r \in Runs, Plan(r)
  PROVE  /\ Only(r) /\ run[r].at = "plan" /\ run'[r].at = "conf"
         /\ run'[r].want = run[r].want /\ run'[r].value = run[r].value /\ run'[r].bad = run[r].bad
         /\ run'[r].torn = Torn /\ run'[r].misprinted = Misprinted(r)
         /\ \E reachable \in BOOLEAN :
              /\ run'[r].untried = ~reachable
              /\ run'[r].plan = PlanFor(Want(r), Verdict(reachable))
              /\ reachable \/ Stored
         /\ UNCHANGED <<snmp, realm, account, sot, store, state, edits>>
         /\ faults' \in 0..MaxFaults
<1>1. PICK reachable \in BOOLEAN :
        /\ IF reachable THEN UNCHANGED faults ELSE Stored /\ Fault
        /\ run' = [run EXCEPT ![r].at = "conf", ![r].torn = Torn, ![r].misprinted = Misprinted(r),
                              ![r].untried = ~reachable, ![r].plan = PlanFor(Want(r), Verdict(reachable))]
  BY DEF Plan
<1>2. faults' \in 0..MaxFaults
  BY <1>1, Faults DEF TypeInv, SotTyped
<1>3. /\ Torn \in BOOLEAN /\ Misprinted(r) \in BOOLEAN /\ Want(r) \in Settings
  BY DEF Torn, Misprinted, Want, TypeInv, NodeTyped, RunTyped, RunRecords
<1>4. PlanFor(Want(r), Verdict(reachable)) \in Plans
  BY <1>3, PlanTyped
<1> DEFINE p == PlanFor(Want(r), Verdict(reachable))
           q == [run[r] EXCEPT !.at = "conf", !.torn = Torn, !.misprinted = Misprinted(r),
                               !.untried = ~reachable, !.plan = p]
<1>5. run' = [run EXCEPT ![r] = q]
  BY <1>1 DEF TypeInv, RunTyped
<1> HIDE DEF p
<1>6. q \in RunRecords
  <2>1. "conf" \in Steps /\ p \in Plans
    BY <1>4 DEF p, Steps
  <2> QED
    BY <1>3, <2>1 DEF TypeInv, RunTyped, RunRecords
<1>7. /\ q.at = "conf" /\ q.want = run[r].want /\ q.value = run[r].value /\ q.bad = run[r].bad
      /\ q.torn = Torn /\ q.misprinted = Misprinted(r) /\ q.untried = ~reachable /\ q.plan = p
  BY DEF TypeInv, RunTyped, RunRecords
<1> HIDE DEF q
<1>8. Only(r) /\ run'[r] = q
  BY <1>5, <1>6 DEF Only, TypeInv, RunTyped
<1>9. At(r, "plan") /\ UNCHANGED <<snmp, realm, account, sot, store, state, edits>>
  BY DEF Plan, OnlyJob, NautobotSame, nodeVars
<1>10. reachable \/ Stored
  BY <1>1
<1> QED
  BY <1>2, <1>7, <1>8, <1>9, <1>10 DEF p, At

LEMMA Changing ==
  ASSUME RunTyped, NEW r \in Runs, NEW step \in Steps, NEW c \in BOOLEAN,
         run' = [run EXCEPT ![r].at = step, ![r].changed = c]
  PROVE  /\ Keeps(r) /\ KeepsToken(r) /\ KeepsWarnings(r)
         /\ run'[r].at = step /\ run'[r].changed = c
<1> DEFINE q == [run[r] EXCEPT !.at = step, !.changed = c]
<1>1. q \in RunRecords /\ q.at = step /\ q.changed = c
  BY DEF RunTyped, RunRecords
<1>2. /\ q.want = run[r].want /\ q.plan = run[r].plan /\ q.torn = run[r].torn
      /\ q.misprinted = run[r].misprinted /\ q.value = run[r].value /\ q.untried = run[r].untried
      /\ q.bad = run[r].bad /\ q.warned = run[r].warned
  BY DEF RunTyped, RunRecords
<1>3. run' = [run EXCEPT ![r] = q]
  BY DEF RunTyped
<1> HIDE DEF q
<1> QED
  BY <1>1, <1>2, <1>3 DEF Keeps, KeepsToken, KeepsWarnings, Only, RunTyped

LEMMA Warning ==
  ASSUME RunTyped, NEW r \in Runs, run' = [run EXCEPT ![r].at = "groupAcl", ![r].warned = TRUE]
  PROVE  /\ Keeps(r) /\ KeepsToken(r)
         /\ run'[r].at = "groupAcl" /\ run'[r].warned /\ run'[r].bad = run[r].bad
<1> DEFINE q == [run[r] EXCEPT !.at = "groupAcl", !.warned = TRUE]
<1>0. "groupAcl" \in Steps
  BY DEF Steps
<1>1. q \in RunRecords /\ q.at = "groupAcl" /\ q.warned
  BY <1>0 DEF RunTyped, RunRecords
<1>2. /\ q.want = run[r].want /\ q.plan = run[r].plan /\ q.torn = run[r].torn
      /\ q.misprinted = run[r].misprinted /\ q.value = run[r].value /\ q.untried = run[r].untried
      /\ q.bad = run[r].bad
  BY DEF RunTyped, RunRecords
<1>3. run' = [run EXCEPT ![r] = q]
  BY DEF RunTyped
<1> HIDE DEF q
<1> QED
  BY <1>1, <1>2, <1>3 DEF Keeps, KeepsToken, Only, RunTyped

(* The steps of each part, and what they leave alone. *)
SnmpStep(r) == WriteConf(r) \/ CheckUsers(r) \/ CreateUser(r) \/ PrintUser(r) \/ Restart(r)
RealmStep(r) == ChangeRealm(r) \/ RealmPassword(r) \/ RealmSync(r) \/ GroupAcl(r)
AccountStep(r) ==
  AddUser(r) \/ RemoveToken(r) \/ AddToken(r) \/ FixPrivsep(r) \/ DeleteAcls(r) \/ AddAcls(r)
StoreStep(r) == WriteFiles(r) \/ SaveRecords(r) \/ VerifyStored(r)
EndStep(r) == Network(r) \/ Save(r) \/ RunFails(r)

SnmpTyped == snmp' \in [conf : Values \union {None}, loaded : Values \union {None}, up : BOOLEAN,
                        user : Values \union {None}, print : Values \union {None}]
RealmTyped ==
  realm' \in [options : Values \union {None}, password : Values \union {None}, group : BOOLEAN, acl : BOOLEAN]
AccountTyped ==
  account' \in [user : BOOLEAN, token : Tokens \union {None}, privsep : BOOLEAN, grants : SUBSET Grants]

Moves(r, from, to) == run[r].at = from /\ run'[r].at = to

Dies(r) == Keeps(r) /\ KeepsToken(r) /\ KeepsWarnings(r) /\ run'[r].at = "failed" /\ run'[r].changed = run[r].changed

LEMMA Breaking ==
  ASSUME RunTyped, NEW r \in Runs, Breaks(r)
  PROVE  Dies(r) /\ Fault
BY Going DEF Breaks, Dies, Ends

LEMMA SnmpEffect ==
  ASSUME TypeInv, NEW r \in Runs, SnmpStep(r)
  PROVE  /\ Keeps(r) /\ KeepsToken(r) /\ KeepsWarnings(r)
         /\ UNCHANGED <<realm, account, sot, store, state, edits>>
         /\ faults' \in 0..MaxFaults /\ SnmpTyped
         /\ \/ /\ Moves(r, "conf", "users")
               /\ snmp' = [snmp EXCEPT !.conf = Want(r).conf]
               /\ run'[r].changed = (snmp.conf # Want(r).conf)
            \/ /\ Moves(r, "users", "restart")
               /\ UserCurrent(r) /\ snmp' = snmp /\ run'[r].changed = run[r].changed
            \/ /\ Moves(r, "users", "create")
               /\ snmp' = [snmp EXCEPT !.up = FALSE] /\ run'[r].changed = run[r].changed
            \/ /\ Moves(r, "create", "print")
               /\ snmp' = [snmp EXCEPT !.user = Want(r).v3] /\ run'[r].changed = run[r].changed
            \/ /\ Moves(r, "print", "restart") /\ run'[r].changed
               /\ snmp' = snmp \/ snmp' = [snmp EXCEPT !.print = Want(r).v3]
            \/ /\ Moves(r, "restart", "realm")
               /\ snmp' = IF run[r].changed \/ ~snmp.up THEN [snmp EXCEPT !.loaded = snmp.conf, !.up = TRUE]
                          ELSE snmp
            \/ run[r].at \in {"conf", "users", "create", "print", "restart"} /\ run'[r].at = "failed"
<1>t. /\ RunTyped /\ NodeTyped /\ faults \in 0..MaxFaults
      /\ run[r] \in RunRecords /\ Want(r) \in Settings /\ run[r].want \in Settings
  BY DEF TypeInv, SotTyped, RunTyped, RunRecords, Want
<1>v. Want(r).conf \in Values /\ Want(r).v3 \in Values
  BY <1>t DEF Settings
<1>s. {"users", "create", "print", "restart", "realm"} \subseteq Steps
  BY DEF Steps
<1>1. CASE WriteConf(r)
  <2>1. /\ SnmpTyped /\ UNCHANGED faults /\ run[r].at = "conf"
        /\ snmp' = [snmp EXCEPT !.conf = Want(r).conf]
        /\ UNCHANGED <<realm, account, sot, store, state, edits>>
        /\ run' = [run EXCEPT ![r].at = "users", ![r].changed = (snmp.conf # Want(r).conf)]
    BY <1>1, <1>t, <1>v DEF WriteConf, SetSnmp, NautobotSame, NodeTyped, SnmpTyped, At
  <2>2. /\ Keeps(r) /\ KeepsToken(r) /\ KeepsWarnings(r)
        /\ run'[r].at = "users" /\ run'[r].changed = (snmp.conf # Want(r).conf)
    BY <2>1, <1>t, <1>s, Changing, (snmp.conf # Want(r).conf) \in BOOLEAN
  <2> QED
    BY <2>1, <2>2, <1>t DEF Moves
<1>2. CASE CheckUsers(r)
  <2>1. /\ UNCHANGED <<realm, account, sot, store, state, edits>> /\ run[r].at = "users"
        /\ \/ UserCurrent(r) /\ snmp' = snmp /\ Goto(r, "restart") /\ UNCHANGED faults
           \/ snmp' = [snmp EXCEPT !.up = FALSE] /\ Goto(r, "create") /\ UNCHANGED faults
           \/ snmp' = snmp /\ Breaks(r)
    BY <1>2 DEF CheckUsers, SetSnmp, NautobotSame, At
  <2>2. SnmpTyped
    BY <2>1, <1>t DEF NodeTyped, SnmpTyped
  <2>3. CASE UserCurrent(r) /\ snmp' = snmp /\ Goto(r, "restart") /\ UNCHANGED faults
    BY <2>1, <2>2, <2>3, <1>t, <1>s, Going DEF Moves
  <2>4. CASE snmp' = [snmp EXCEPT !.up = FALSE] /\ Goto(r, "create") /\ UNCHANGED faults
    BY <2>1, <2>2, <2>4, <1>t, <1>s, Going DEF Moves
  <2>5. CASE snmp' = snmp /\ Breaks(r)
    BY <2>1, <2>2, <2>5, <1>t, Breaking, Faults DEF Dies
  <2> QED
    BY <2>1, <2>3, <2>4, <2>5
<1>3. CASE CreateUser(r)
  <2>1. /\ UNCHANGED <<realm, account, sot, store, state, edits>> /\ run[r].at = "create"
        /\ \/ snmp' = [snmp EXCEPT !.user = Want(r).v3] /\ Goto(r, "print") /\ UNCHANGED faults
           \/ snmp' = [snmp EXCEPT !.user = None] /\ Breaks(r)
    BY <1>3 DEF CreateUser, SetSnmp, NautobotSame, At
  <2>2. SnmpTyped
    BY <2>1, <1>t, <1>v DEF NodeTyped, SnmpTyped
  <2>3. CASE snmp' = [snmp EXCEPT !.user = Want(r).v3] /\ Goto(r, "print") /\ UNCHANGED faults
    BY <2>1, <2>2, <2>3, <1>t, <1>s, Going DEF Moves
  <2>4. CASE snmp' = [snmp EXCEPT !.user = None] /\ Breaks(r)
    BY <2>1, <2>2, <2>4, <1>t, Breaking, Faults DEF Dies
  <2> QED
    BY <2>1, <2>3, <2>4
<1>4. CASE PrintUser(r)
  <2>1. /\ UNCHANGED <<realm, account, sot, store, state, edits>> /\ run[r].at = "print"
        /\ snmp' = snmp \/ snmp' = [snmp EXCEPT !.print = Want(r).v3]
        /\ Fault \/ UNCHANGED faults
        /\ run' = [run EXCEPT ![r].at = "restart", ![r].changed = TRUE]
    BY <1>4 DEF PrintUser, SetSnmp, NautobotSame, At
  <2>2. SnmpTyped
    BY <2>1, <1>t, <1>v DEF NodeTyped, SnmpTyped
  <2> QED
    BY <2>1, <2>2, <1>t, <1>s, Changing, Faults DEF Moves
<1>5. CASE Restart(r)
  <2>1. /\ UNCHANGED <<realm, account, sot, store, state, edits>> /\ run[r].at = "restart"
        /\ \/ /\ snmp' = IF NeedsRestart(r) THEN [snmp EXCEPT !.loaded = snmp.conf, !.up = TRUE] ELSE snmp
              /\ run' = [run EXCEPT ![r].at = "realm", ![r].changed = FALSE]
              /\ UNCHANGED faults
           \/ snmp' = [snmp EXCEPT !.up = FALSE] /\ Breaks(r)
    BY <1>5 DEF Restart, SetSnmp, NautobotSame, At
  <2>2. SnmpTyped
    BY <2>1, <1>t DEF NodeTyped, SnmpTyped
  <2>3. CASE /\ snmp' = IF NeedsRestart(r) THEN [snmp EXCEPT !.loaded = snmp.conf, !.up = TRUE] ELSE snmp
             /\ run' = [run EXCEPT ![r].at = "realm", ![r].changed = FALSE]
             /\ UNCHANGED faults
    BY <2>1, <2>2, <2>3, <1>t, <1>s, Changing DEF Moves, NeedsRestart
  <2>4. CASE snmp' = [snmp EXCEPT !.up = FALSE] /\ Breaks(r)
    BY <2>1, <2>2, <2>4, <1>t, Breaking, Faults DEF Dies
  <2> QED
    BY <2>1, <2>3, <2>4
<1> QED
  BY <1>1, <1>2, <1>3, <1>4, <1>5 DEF SnmpStep

LEMMA RealmEffect ==
  ASSUME TypeInv, NEW r \in Runs, RealmStep(r)
  PROVE  /\ Keeps(r) /\ KeepsToken(r)
         /\ UNCHANGED <<snmp, account, sot, store, state, edits>>
         /\ faults' \in 0..MaxFaults /\ RealmTyped
         /\ \/ /\ Moves(r, "realm", "password") /\ run'[r].warned = run[r].warned
               /\ \/ Planned(r).realm = "none" /\ realm' = realm /\ run'[r].bad = run[r].bad
                  \/ realm' = [realm EXCEPT !.options = Want(r).options] /\ run'[r].bad = run[r].bad
                  \/ run'[r].bad
            \/ /\ Moves(r, "password", "sync") /\ run'[r].warned = run[r].warned
               /\ \/ realm' = [realm EXCEPT !.password = Want(r).password] /\ run'[r].bad = run[r].bad
                  \/ realm' = realm /\ run'[r].bad
            \/ /\ Moves(r, "sync", "groupAcl") /\ run'[r].bad = run[r].bad
               /\ \/ realm' = [realm EXCEPT !.group = TRUE]
                  \/ realm' = realm /\ run'[r].warned
            \/ /\ Moves(r, "groupAcl", "user") /\ ~run[r].bad
               /\ realm' = [realm EXCEPT !.acl = @ \/ realm.group]
               /\ run'[r].warned = (run[r].warned \/ ~realm.group)
            \/ run[r].at \in {"realm", "password", "sync", "groupAcl"} /\ run'[r].at = "failed"
<1>t. /\ RunTyped /\ NodeTyped /\ faults \in 0..MaxFaults
      /\ run[r] \in RunRecords /\ Want(r) \in Settings
  BY DEF TypeInv, SotTyped, RunTyped, RunRecords, Want
<1>v. Want(r).options \in Values /\ Want(r).password \in Values
  BY <1>t DEF Settings
<1>s. {"password", "sync", "groupAcl", "user"} \subseteq Steps /\ {"user", "failed"} \subseteq Steps \union Ends
  BY DEF Steps, Ends
<1>1. CASE ChangeRealm(r)
  <2>1. /\ UNCHANGED <<snmp, account, sot, store, state, edits>> /\ run[r].at = "realm"
        /\ \/ Planned(r).realm = "none" /\ realm' = realm /\ Goes(r, "password")
           \/ realm' = [realm EXCEPT !.options = Want(r).options] /\ Goes(r, "password")
           \/ realm' = realm /\ Stumbles(r, "password")
    BY <1>1 DEF ChangeRealm, SetRealmTo, NautobotSame, At
  <2>2. RealmTyped
    BY <2>1, <1>t, <1>v DEF NodeTyped, RealmTyped
  <2>3. CASE Goes(r, "password")
    <3>1. /\ Keeps(r) /\ KeepsToken(r) /\ KeepsWarnings(r) /\ run'[r].at = "password" /\ UNCHANGED faults
      BY <2>3, <1>t, <1>s, Going DEF Goes
    <3>2. \/ Planned(r).realm = "none" /\ realm' = realm
          \/ realm' = [realm EXCEPT !.options = Want(r).options]
          \/ run'[r].bad
      <4>1. CASE Stumbles(r, "password")
        BY <4>1, <1>t, <1>s, Stumbling DEF Stumbles
      <4> QED
        BY <4>1, <2>1
    <3> QED
      BY <2>1, <2>2, <3>1, <3>2, <1>t DEF Moves, KeepsWarnings
  <2>4. CASE realm' = realm /\ Stumbles(r, "password")
    BY <2>1, <2>2, <2>4, <1>t, <1>s, Stumbling, Faults DEF Moves, Stumbles
  <2> QED
    BY <2>1, <2>3, <2>4
<1>2. CASE RealmPassword(r)
  <2>1. /\ UNCHANGED <<snmp, account, sot, store, state, edits>> /\ run[r].at = "password"
        /\ \/ /\ realm' = [realm EXCEPT !.password = Want(r).password]
              /\ run' = [run EXCEPT ![r].at = "sync", ![r].changed = (realm.password # Want(r).password)]
              /\ UNCHANGED faults
           \/ realm' = realm /\ Stumbles(r, "sync")
    BY <1>2 DEF RealmPassword, SetRealmTo, NautobotSame, At
  <2>2. RealmTyped
    BY <2>1, <1>t, <1>v DEF NodeTyped, RealmTyped
  <2>3. CASE /\ realm' = [realm EXCEPT !.password = Want(r).password]
             /\ run' = [run EXCEPT ![r].at = "sync", ![r].changed = (realm.password # Want(r).password)]
             /\ UNCHANGED faults
    <3>1. Keeps(r) /\ KeepsToken(r) /\ KeepsWarnings(r) /\ run'[r].at = "sync"
      BY <2>3, <1>t, <1>s, Changing, (realm.password # Want(r).password) \in BOOLEAN
    <3> QED
      BY <2>1, <2>2, <2>3, <3>1, <1>t DEF Moves, KeepsWarnings
  <2>4. CASE realm' = realm /\ Stumbles(r, "sync")
    BY <2>1, <2>2, <2>4, <1>t, <1>s, Stumbling, Faults DEF Moves, Stumbles
  <2> QED
    BY <2>1, <2>3, <2>4
<1>3. CASE RealmSync(r)
  <2>1. /\ UNCHANGED <<snmp, account, sot, store, state, edits, faults>> /\ run[r].at = "sync"
        /\ \/ realm' = [realm EXCEPT !.group = TRUE] /\ Goto(r, "groupAcl")
           \/ realm' = realm /\ run' = [run EXCEPT ![r].at = "groupAcl", ![r].warned = TRUE]
    BY <1>3 DEF RealmSync, SetRealmTo, NautobotSame, At, Goes
  <2>2. RealmTyped
    BY <2>1, <1>t DEF NodeTyped, RealmTyped
  <2>3. CASE realm' = [realm EXCEPT !.group = TRUE] /\ Goto(r, "groupAcl")
    BY <2>1, <2>2, <2>3, <1>t, <1>s, Going DEF Moves, KeepsWarnings
  <2>4. CASE realm' = realm /\ run' = [run EXCEPT ![r].at = "groupAcl", ![r].warned = TRUE]
    BY <2>1, <2>2, <2>4, <1>t, Warning DEF Moves
  <2> QED
    BY <2>1, <2>3, <2>4
<1>4. CASE GroupAcl(r)
  <2> DEFINE next == IF run[r].bad THEN "failed" ELSE "user"
             q == [run[r] EXCEPT !.at = next, !.changed = FALSE, !.warned = @ \/ ~realm.group]
  <2>1. /\ UNCHANGED <<snmp, account, sot, store, state, edits>> /\ run[r].at = "groupAcl"
        /\ \/ /\ realm' = [realm EXCEPT !.acl = @ \/ realm.group]
              /\ run' = [run EXCEPT ![r].at = next, ![r].changed = FALSE, ![r].warned = @ \/ ~realm.group]
              /\ UNCHANGED faults
           \/ realm' = realm /\ Breaks(r)
    BY <1>4 DEF GroupAcl, SetRealmTo, NautobotSame, At
  <2>2. RealmTyped
    BY <2>1, <1>t DEF NodeTyped, RealmTyped
  <2>3. CASE /\ realm' = [realm EXCEPT !.acl = @ \/ realm.group]
             /\ run' = [run EXCEPT ![r].at = next, ![r].changed = FALSE, ![r].warned = @ \/ ~realm.group]
             /\ UNCHANGED faults
    <3>1. run' = [run EXCEPT ![r] = q]
      BY <2>3, <1>t DEF RunTyped
    <3>2. /\ q \in RunRecords /\ q.at = next /\ q.warned = (run[r].warned \/ ~realm.group)
      BY <1>t, <1>s DEF RunTyped, RunRecords, NodeTyped
    <3>3. /\ q.want = run[r].want /\ q.plan = run[r].plan /\ q.torn = run[r].torn
          /\ q.misprinted = run[r].misprinted /\ q.value = run[r].value /\ q.untried = run[r].untried
      BY <1>t DEF RunTyped, RunRecords
    <3> HIDE DEF q
    <3>4. Keeps(r) /\ KeepsToken(r) /\ run'[r].at = next /\ run'[r].warned = (run[r].warned \/ ~realm.group)
      BY <3>1, <3>2, <3>3, <1>t DEF Keeps, KeepsToken, Only, RunTyped
    <3> QED
      BY <2>1, <2>2, <2>3, <3>4, <1>t DEF Moves
  <2>4. CASE realm' = realm /\ Breaks(r)
    BY <2>1, <2>2, <2>4, <1>t, Breaking, Faults DEF Dies
  <2> QED
    BY <2>1, <2>3, <2>4
<1> QED
  BY <1>1, <1>2, <1>3, <1>4 DEF RealmStep

LEMMA WithoutTokenTyped ==
  ASSUME NodeTyped
  PROVE  WithoutToken \in [user : BOOLEAN, token : Tokens \union {None}, privsep : BOOLEAN, grants : SUBSET Grants]
<1>1. account.grants \ {"token"} \in SUBSET Grants
  BY DEF NodeTyped
<1> QED
  BY <1>1 DEF NodeTyped, WithoutToken

LEMMA AccountEffect ==
  ASSUME TypeInv, NEW r \in Runs, AccountStep(r)
  PROVE  /\ Keeps(r) /\ run'[r].warned = run[r].warned /\ run'[r].untried = run[r].untried
         /\ run'[r].value \in {run[r].value, r}
         /\ UNCHANGED <<snmp, realm, sot, store, state, edits>>
         /\ faults' \in 0..MaxFaults /\ AccountTyped
         /\ \/ /\ Moves(r, "user", "token") /\ KeepsToken(r)
               /\ account' = account \/ account' = [account EXCEPT !.user = TRUE]
            \/ /\ Moves(r, "token", "privsep") /\ KeepsToken(r) /\ account' = account
               /\ run'[r].bad \/ Planned(r).token = "keep"
            \/ /\ Moves(r, "token", "add") /\ KeepsToken(r)
               /\ \/ Planned(r).token = "create" /\ account' = account
                  \/ Planned(r).token = "rotate" /\ account' = WithoutToken
            \/ /\ Moves(r, "add", "privsep")
               /\ account' = account \/ account' = [account EXCEPT !.token = r, !.privsep = Want(r).privsep]
               /\ \/ run'[r].bad
                  \/ run'[r].value = r /\ account' = [account EXCEPT !.token = r, !.privsep = Want(r).privsep]
            \/ /\ Moves(r, "privsep", "aclDelete") /\ KeepsToken(r)
               /\ account' = account \/ account' = [account EXCEPT !.privsep = Want(r).privsep]
               /\ \/ run'[r].bad
                  \/ ~Planned(r).privsepFix /\ account' = account /\ run'[r].bad = run[r].bad
                  \/ account' = [account EXCEPT !.privsep = Want(r).privsep] /\ run'[r].bad = run[r].bad
            \/ /\ Moves(r, "aclDelete", "aclAdd") /\ KeepsToken(r)
               /\ \/ account' = [account EXCEPT !.grants = @ \ Planned(r).deletes] /\ run'[r].bad = run[r].bad
                  \/ account' = account /\ run'[r].bad
            \/ /\ Moves(r, "aclAdd", "files") /\ KeepsToken(r)
               /\ \/ /\ account' = [account EXCEPT !.grants = @ \union (Planned(r).adds \
                                      (IF account.token = None THEN {"token"} ELSE {}))]
                     /\ run[r].bad => run'[r].bad
                  \/ account' = account /\ run'[r].bad
<1>t. /\ RunTyped /\ NodeTyped /\ faults \in 0..MaxFaults
      /\ run[r] \in RunRecords /\ Want(r) \in Settings /\ Planned(r) \in Plans
  BY DEF TypeInv, SotTyped, RunTyped, RunRecords, Want, Planned
<1>v. /\ Want(r).privsep \in BOOLEAN /\ r \in Tokens
      /\ Planned(r).adds \in SUBSET Grants /\ Planned(r).token \in {"keep", "create", "rotate"}
  BY <1>t DEF Settings, Plans, Tokens
<1>s. {"token", "add", "privsep", "aclDelete", "aclAdd", "files"} \subseteq Steps
  BY DEF Steps
<1>g. \A step \in {"token", "add", "privsep", "aclDelete", "aclAdd", "files"} :
        Goes(r, step) =>
          /\ Keeps(r) /\ KeepsToken(r) /\ KeepsWarnings(r) /\ run'[r].at = step /\ faults' \in 0..MaxFaults
  BY <1>t, <1>s, Going DEF Goes
<1>b. \A step \in {"token", "add", "privsep", "aclDelete", "aclAdd", "files"} :
        Stumbles(r, step) =>
          /\ Keeps(r) /\ KeepsToken(r) /\ run'[r].warned = run[r].warned /\ run'[r].bad
          /\ run'[r].at = step /\ faults' \in 0..MaxFaults
  BY <1>t, <1>s, Stumbling, Faults DEF Stumbles
<1>k. KeepsToken(r) => run'[r].untried = run[r].untried /\ run'[r].value \in {run[r].value, r}
  BY DEF KeepsToken
<1>1. CASE AddUser(r)
  <2>1. /\ UNCHANGED <<snmp, realm, sot, store, state, edits>> /\ run[r].at = "user"
        /\ account' = account \/ account' = [account EXCEPT !.user = TRUE]
        /\ Goes(r, "token") \/ Stumbles(r, "token")
    BY <1>1 DEF AddUser, SetAccount, NautobotSame, At
  <2>2. AccountTyped
    BY <2>1, <1>t DEF NodeTyped, AccountTyped
  <2> QED
    BY <2>1, <2>2, <1>g, <1>b, <1>k DEF Moves, KeepsWarnings
<1>2. CASE RemoveToken(r)
  <2>1. /\ UNCHANGED <<snmp, realm, sot, store, state, edits>> /\ run[r].at = "token"
        /\ \/ Planned(r).token = "keep" /\ account' = account /\ Goes(r, "privsep")
           \/ Planned(r).token = "create" /\ account' = account /\ Goes(r, "add")
           \/ Planned(r).token = "rotate" /\ account' = WithoutToken /\ Goes(r, "add")
           \/ account' = account /\ Stumbles(r, "privsep")
    BY <1>2 DEF RemoveToken, SetAccount, NautobotSame, At
  <2>2. AccountTyped
    BY <2>1, <1>t, WithoutTokenTyped DEF NodeTyped, AccountTyped
  <2> QED
    BY <2>1, <2>2, <1>g, <1>b, <1>k DEF Moves, KeepsWarnings
<1>3. CASE AddToken(r)
  <2> DEFINE made == [account EXCEPT !.token = r, !.privsep = Want(r).privsep]
             q == [run[r] EXCEPT !.at = "privsep", !.value = r]
  <2>1. /\ UNCHANGED <<snmp, realm, sot, store, state, edits>> /\ run[r].at = "add"
        /\ \/ /\ account' = made
              /\ run' = [run EXCEPT ![r].at = "privsep", ![r].value = r]
              /\ UNCHANGED faults
           \/ /\ account' \in {account, made}
              /\ run' = [run EXCEPT ![r].at = "privsep", ![r].bad = TRUE]
              /\ Fault \/ UNCHANGED faults
    BY <1>3 DEF AddToken, SetAccount, NautobotSame, At, Stumbles
  <2>2. AccountTyped
    BY <2>1, <1>t, <1>v DEF NodeTyped, AccountTyped
  <2>3. CASE /\ account' = made
             /\ run' = [run EXCEPT ![r].at = "privsep", ![r].value = r]
             /\ UNCHANGED faults
    <3>1. run' = [run EXCEPT ![r] = q]
      BY <2>3, <1>t DEF RunTyped
    <3>2. q \in RunRecords /\ q.at = "privsep" /\ q.value = r
      BY <1>t, <1>s DEF RunTyped, RunRecords
    <3>3. /\ q.want = run[r].want /\ q.plan = run[r].plan /\ q.torn = run[r].torn
          /\ q.misprinted = run[r].misprinted /\ q.warned = run[r].warned /\ q.untried = run[r].untried
      BY <1>t DEF RunTyped, RunRecords
    <3> HIDE DEF q
    <3>4. /\ Keeps(r) /\ run'[r].at = "privsep" /\ run'[r].value = r
          /\ run'[r].warned = run[r].warned /\ run'[r].untried = run[r].untried
      BY <3>1, <3>2, <3>3, <1>t DEF Keeps, Only, RunTyped
    <3> QED
      BY <2>1, <2>2, <2>3, <3>4, <1>t DEF Moves
  <2>4. CASE /\ account' \in {account, made}
             /\ run' = [run EXCEPT ![r].at = "privsep", ![r].bad = TRUE]
             /\ Fault \/ UNCHANGED faults
    <3>1. /\ Keeps(r) /\ KeepsToken(r) /\ run'[r].warned = run[r].warned
          /\ run'[r].bad /\ run'[r].at = "privsep"
      BY <2>4, <1>t, <1>s, Stumbling
    <3>2. faults' \in 0..MaxFaults
      BY <2>4, <1>t, Faults
    <3> QED
      BY <2>1, <2>2, <2>4, <3>1, <3>2, <1>k DEF Moves
  <2> QED
    BY <2>1, <2>3, <2>4
<1>4. CASE FixPrivsep(r)
  <2>1. /\ UNCHANGED <<snmp, realm, sot, store, state, edits>> /\ run[r].at = "privsep"
        /\ \/ ~Planned(r).privsepFix /\ account' = account /\ Goes(r, "aclDelete")
           \/ account' = [account EXCEPT !.privsep = Want(r).privsep] /\ Goes(r, "aclDelete")
           \/ account' = account /\ Stumbles(r, "aclDelete")
    BY <1>4 DEF FixPrivsep, SetAccount, NautobotSame, At
  <2>2. AccountTyped
    BY <2>1, <1>t, <1>v DEF NodeTyped, AccountTyped
  <2> QED
    BY <2>1, <2>2, <1>g, <1>b, <1>k DEF Moves, KeepsWarnings
<1>5. CASE DeleteAcls(r)
  <2>1. /\ UNCHANGED <<snmp, realm, sot, store, state, edits>> /\ run[r].at = "aclDelete"
        /\ \/ account' = [account EXCEPT !.grants = @ \ Planned(r).deletes] /\ Goes(r, "aclAdd")
           \/ account' = account /\ Stumbles(r, "aclAdd")
    BY <1>5 DEF DeleteAcls, SetAccount, NautobotSame, At
  <2>2. AccountTyped
    BY <2>1, <1>t DEF NodeTyped, AccountTyped
  <2> QED
    BY <2>1, <2>2, <1>g, <1>b, <1>k DEF Moves, KeepsWarnings
<1>6. CASE AddAcls(r)
  <2> DEFINE refused == IF account.token = None THEN {"token"} ELSE {}
             worse == run[r].bad \/ Planned(r).adds \intersect refused # {}
             q == [run[r] EXCEPT !.at = "files", !.bad = worse]
  <2>1. /\ UNCHANGED <<snmp, realm, sot, store, state, edits>> /\ run[r].at = "aclAdd"
        /\ \/ /\ account' = [account EXCEPT !.grants = @ \union (Planned(r).adds \ refused)]
              /\ run' = [run EXCEPT ![r].at = "files", ![r].bad = worse]
              /\ UNCHANGED faults
           \/ account' = account /\ Stumbles(r, "files")
    BY <1>6, <1>t DEF AddAcls, SetAccount, NautobotSame, At, RunTyped, RunRecords
  <2>2. AccountTyped
    BY <2>1, <1>t, <1>v DEF NodeTyped, AccountTyped
  <2>3. CASE /\ account' = [account EXCEPT !.grants = @ \union (Planned(r).adds \ refused)]
             /\ run' = [run EXCEPT ![r].at = "files", ![r].bad = worse]
             /\ UNCHANGED faults
    <3>1. run' = [run EXCEPT ![r] = q]
      BY <2>3, <1>t DEF RunTyped
    <3>w. worse \in BOOLEAN /\ (run[r].bad => worse)
      BY <1>t DEF RunRecords
    <3> HIDE DEF worse
    <3>2. q \in RunRecords /\ q.at = "files" /\ q.bad = worse
      BY <1>t, <1>s, <3>w DEF RunTyped, RunRecords
    <3>3. /\ q.want = run[r].want /\ q.plan = run[r].plan /\ q.torn = run[r].torn
          /\ q.misprinted = run[r].misprinted /\ q.value = run[r].value /\ q.untried = run[r].untried
          /\ q.warned = run[r].warned
      BY <1>t DEF RunTyped, RunRecords
    <3> HIDE DEF q
    <3>4. /\ Keeps(r) /\ KeepsToken(r) /\ run'[r].at = "files" /\ run'[r].warned = run[r].warned
          /\ run[r].bad => run'[r].bad
      BY <3>1, <3>2, <3>3, <3>w, <1>t DEF Keeps, KeepsToken, Only, RunTyped
    <3> QED
      BY <2>1, <2>2, <2>3, <3>4, <1>t, <1>k DEF Moves
  <2>4. CASE account' = account /\ Stumbles(r, "files")
    BY <2>1, <2>2, <2>4, <1>b, <1>k DEF Moves
  <2> QED
    BY <2>1, <2>3, <2>4
<1> QED
  BY <1>1, <1>2, <1>3, <1>4, <1>5, <1>6 DEF AccountStep

LEMMA StoreEffect ==
  ASSUME TypeInv, NEW r \in Runs, StoreStep(r)
  PROVE  /\ Keeps(r) /\ KeepsWarnings(r)
         /\ run'[r].value = run[r].value
         /\ run[r].untried => run'[r].untried
         /\ UNCHANGED <<snmp, realm, account, sot, state, edits>>
         /\ faults' \in 0..MaxFaults
         /\ \/ /\ run[r].at = "files" /\ run'[r].at = StoreDone(r) /\ run[r].value = None
               /\ store' = store
            \/ /\ Moves(r, "files", "records") /\ run[r].value # None
               /\ store' = [store EXCEPT !.value = run[r].value]
            \/ /\ Moves(r, "records", "verify")
               /\ store' = [store EXCEPT !.named = TRUE]
            \/ /\ run[r].at = "verify" /\ run'[r].at = StoreDone(r) /\ store' = store
               /\ run'[r].untried \/ run[r].value = account.token
            \/ Moves(r, "verify", "failed") /\ store' = store
<1>t. /\ RunTyped /\ faults \in 0..MaxFaults /\ run[r] \in RunRecords
  BY DEF TypeInv, SotTyped, RunTyped
<1>s. {"records", "verify", "failed", "network"} \subseteq Steps \union Ends /\ "network" \in Steps
  BY DEF Steps, Ends
<1>d. StoreDone(r) \in {"failed", "network"}
  BY DEF StoreDone
<1>g. \A step \in {"records", "verify", "failed", "network"} :
        Goes(r, step) =>
          /\ Keeps(r) /\ KeepsToken(r) /\ KeepsWarnings(r) /\ run'[r].at = step /\ faults' \in 0..MaxFaults
  BY <1>t, <1>s, Going DEF Goes
<1>1. CASE WriteFiles(r)
  <2>1. /\ UNCHANGED <<snmp, realm, account, sot, state, edits>> /\ run[r].at = "files"
        /\ \/ run[r].value = None /\ store' = store /\ Goes(r, StoreDone(r))
           \/ run[r].value # None /\ store' = [store EXCEPT !.value = run[r].value] /\ Goes(r, "records")
    BY <1>1 DEF WriteFiles, SetStore, At, nodeVars
  <2> QED
    BY <2>1, <1>g, <1>d DEF Moves, KeepsToken
<1>2. CASE SaveRecords(r)
  <2>1. /\ UNCHANGED <<snmp, realm, account, sot, state, edits>> /\ run[r].at = "records"
        /\ store' = [store EXCEPT !.named = TRUE] /\ Goes(r, "verify")
    BY <1>2 DEF SaveRecords, SetStore, At, nodeVars
  <2> QED
    BY <2>1, <1>g DEF Moves, KeepsToken
<1>3. CASE VerifyStored(r)
  <2>1. /\ UNCHANGED <<snmp, realm, account, sot, state, store, edits>> /\ run[r].at = "verify"
        /\ \/ Goes(r, IF run[r].value = account.token THEN StoreDone(r) ELSE "failed")
           \/ run' = [run EXCEPT ![r].at = StoreDone(r), ![r].untried = TRUE] /\ Fault
    BY <1>3 DEF VerifyStored, OnlyJob, NautobotSame, At, nodeVars
  <2>2. CASE Goes(r, IF run[r].value = account.token THEN StoreDone(r) ELSE "failed")
    <3>1. CASE run[r].value = account.token
      BY <2>1, <2>2, <3>1, <1>g, <1>d DEF KeepsToken
    <3>2. CASE run[r].value # account.token
      BY <2>1, <2>2, <3>2, <1>g, <1>d DEF KeepsToken, Moves
    <3> QED
      BY <3>1, <3>2
  <2>3. CASE run' = [run EXCEPT ![r].at = StoreDone(r), ![r].untried = TRUE] /\ Fault
    <3> DEFINE q == [run[r] EXCEPT !.at = StoreDone(r), !.untried = TRUE]
    <3>1. run' = [run EXCEPT ![r] = q]
      BY <2>3, <1>t DEF RunTyped
    <3>2. q \in RunRecords /\ q.at = StoreDone(r) /\ q.untried
      BY <1>t, <1>s, <1>d DEF RunRecords
    <3>3. /\ q.want = run[r].want /\ q.plan = run[r].plan /\ q.torn = run[r].torn
          /\ q.misprinted = run[r].misprinted /\ q.value = run[r].value
          /\ q.warned = run[r].warned /\ q.bad = run[r].bad
      BY <1>t DEF RunRecords
    <3> HIDE DEF q
    <3>4. /\ Keeps(r) /\ KeepsWarnings(r) /\ run'[r].at = StoreDone(r)
          /\ run'[r].value = run[r].value /\ run'[r].untried
      BY <3>1, <3>2, <3>3, <1>t DEF Keeps, KeepsWarnings, Only, RunTyped
    <3> QED
      BY <2>1, <2>3, <3>4, <1>t, Faults
  <2> QED
    BY <2>1, <2>2, <2>3
<1> QED
  BY <1>1, <1>2, <1>3 DEF StoreStep

LEMMA EndEffect ==
  ASSUME TypeInv, NEW r \in Runs, EndStep(r)
  PROVE  /\ Keeps(r) /\ KeepsToken(r) /\ KeepsWarnings(r)
         /\ UNCHANGED <<snmp, realm, account, sot, store, edits>>
         /\ state' \in {state, "baseline_done"} /\ faults' \in 0..MaxFaults
         /\ \/ Moves(r, "network", "save")
            \/ Active(r) /\ run'[r].at \in Ends
<1>t. /\ RunTyped /\ faults \in 0..MaxFaults
  BY DEF TypeInv, SotTyped
<1>s. {"save", "done"} \subseteq Steps \union Ends /\ "failed" \in Ends /\ "done" \in Ends
      /\ "save" \in Steps /\ "network" \in Steps
  BY DEF Steps, Ends
<1>1. CASE Network(r)
  <2>1. /\ UNCHANGED <<snmp, realm, account, sot, store, state, edits>> /\ run[r].at = "network"
        /\ (Goto(r, "save") /\ UNCHANGED faults) \/ Breaks(r)
    BY <1>1 DEF Network, OnlyJob, NautobotSame, nodeVars, At, Goes
  <2>2. CASE Goto(r, "save") /\ UNCHANGED faults
    BY <2>1, <2>2, <1>t, <1>s, Going DEF Moves
  <2>3. CASE Breaks(r)
    BY <2>1, <2>3, <1>t, <1>s, Breaking, Faults DEF Active, Dies
  <2> QED
    BY <2>1, <2>2, <2>3
<1>2. CASE Save(r)
  <2>1. /\ UNCHANGED <<snmp, realm, account, sot, store, edits, faults>> /\ run[r].at = "save"
        /\ state' = "baseline_done" /\ Goto(r, "done")
    BY <1>2 DEF Save, nodeVars, At, Goes
  <2> QED
    BY <2>1, <1>t, <1>s, Going DEF Active
<1>3. CASE RunFails(r)
  <2>1. /\ UNCHANGED <<snmp, realm, account, sot, store, state, edits>> /\ Active(r) /\ Breaks(r)
    BY <1>3 DEF RunFails, OnlyJob, NautobotSame, nodeVars
  <2> QED
    BY <2>1, <1>t, <1>s, Breaking, Faults DEF Dies
<1> QED
  BY <1>1, <1>2, <1>3 DEF EndStep

(* A reboot ends every run; people act between runs. *)
LEMMA RebootEffect ==
  ASSUME TypeInv, Reboot
  PROVE  /\ SnmpTyped /\ UNCHANGED <<realm, account, sot, store, state, edits>> /\ faults' \in 0..MaxFaults
         /\ run' \in [Runs -> RunRecords]
         /\ \A r \in Runs : /\ run'[r].at = (IF Active(r) THEN "failed" ELSE run[r].at)
                            /\ run'[r].value = run[r].value
<1>t. /\ RunTyped /\ NodeTyped /\ faults \in 0..MaxFaults
  BY DEF TypeInv, SotTyped
<1>1. /\ Fault /\ UNCHANGED <<realm, account, sot, store, state, edits>>
      /\ snmp' = [snmp EXCEPT !.loaded = snmp.conf, !.up = TRUE]
      /\ run' = [r \in Runs |-> [run[r] EXCEPT !.at = IF Active(r) THEN "failed" ELSE @]]
  BY DEF Reboot, NautobotSame
<1>2. SnmpTyped
  BY <1>1, <1>t DEF NodeTyped, SnmpTyped
<1>3. ASSUME NEW r \in Runs
      PROVE  /\ run'[r] \in RunRecords
             /\ run'[r].at = (IF Active(r) THEN "failed" ELSE run[r].at) /\ run'[r].value = run[r].value
  <2>1. "failed" \in Ends /\ run[r] \in RunRecords
    BY <1>t DEF Ends, RunTyped
  <2> DEFINE next == IF Active(r) THEN "failed" ELSE run[r].at
             q == [run[r] EXCEPT !.at = next]
  <2>2. run'[r] = q
    BY <1>1, <2>1 DEF RunRecords
  <2>3. next \in Steps \union Ends \union {"idle"}
    BY <2>1 DEF RunRecords
  <2> HIDE DEF next
  <2>4. q \in RunRecords /\ q.at = next /\ q.value = run[r].value
    BY <2>1, <2>3 DEF RunRecords
  <2> QED
    BY <2>2, <2>4 DEF next
<1>4. run' \in [Runs -> RunRecords]
  BY <1>1, <1>3
<1> QED
  BY <1>1, <1>2, <1>3, <1>4, <1>t, Faults

LEMMA EditEffect ==
  ASSUME TypeInv, EditSot \/ Reinstall \/ DeleteToken
  PROVE  /\ \A r \in Runs : ~Active(r)
         /\ UNCHANGED <<run, store, faults>> /\ edits' \in 0..MaxEdits
         /\ sot' \in Settings /\ SnmpTyped /\ RealmTyped /\ AccountTyped
         /\ state' \in {state, "bm_installed"}
         /\ account' \in {account, FreshAccount, WithoutToken}
<1>t. /\ NodeTyped /\ sot \in Settings
  BY DEF TypeInv, SotTyped
<1>1. ASSUME Edit
      PROVE  (\A r \in Runs : ~Active(r)) /\ UNCHANGED <<run, faults>> /\ edits' \in 0..MaxEdits
  BY <1>1, BaselineAssumption DEF Edit, TypeInv, SotTyped
<1>2. CASE EditSot
  <2>1. PICK key \in {"conf", "v3", "options", "password"}, v \in Values, privsep \in BOOLEAN :
          sot' = [sot EXCEPT ![key] = v, !.privsep = privsep]
    BY <1>2 DEF EditSot
  <2>2. sot' \in Settings
    <3>1. CASE key = "conf"
      BY <2>1, <3>1, <1>t DEF Settings
    <3>2. CASE key = "v3"
      BY <2>1, <3>2, <1>t DEF Settings
    <3>3. CASE key = "options"
      BY <2>1, <3>3, <1>t DEF Settings
    <3>4. CASE key = "password"
      BY <2>1, <3>4, <1>t DEF Settings
    <3> QED
      BY <2>1, <3>1, <3>2, <3>3, <3>4
  <2>3. UNCHANGED <<snmp, realm, account, store, state>> /\ Edit
    BY <1>2 DEF EditSot, nodeVars
  <2> QED
    BY <2>2, <2>3, <1>1, <1>t DEF NodeTyped, SnmpTyped, RealmTyped, AccountTyped
<1>3. CASE Reinstall
  <2>1. /\ Edit /\ UNCHANGED <<sot, store>> /\ state' = "bm_installed"
        /\ snmp' = FreshSnmp /\ realm' = FreshRealm /\ account' = FreshAccount
    BY <1>3 DEF Reinstall
  <2>2. SnmpTyped
    BY <2>1 DEF FreshSnmp, SnmpTyped
  <2>3. RealmTyped
    BY <2>1 DEF FreshRealm, RealmTyped
  <2>4. AccountTyped
    BY <2>1 DEF FreshAccount, AccountTyped
  <2> QED
    BY <2>1, <2>2, <2>3, <2>4, <1>1, <1>t
<1>4. CASE DeleteToken
  <2>1. Edit /\ account' = WithoutToken /\ UNCHANGED <<sot, snmp, realm, store, state>>
    BY <1>4 DEF DeleteToken
  <2>2. AccountTyped
    BY <2>1, <1>t, WithoutTokenTyped DEF AccountTyped
  <2> QED
    BY <2>1, <2>2, <1>1, <1>t DEF NodeTyped, SnmpTyped, RealmTyped
<1> QED
  BY <1>2, <1>3, <1>4

RunStep(r) ==
  Start(r) \/ Plan(r) \/ SnmpStep(r) \/ RealmStep(r) \/ AccountStep(r) \/ StoreStep(r) \/ EndStep(r)

LEMMA StepSplit ==
  Next => (\E r \in Runs : RunStep(r)) \/ Reboot \/ EditSot \/ Reinstall \/ DeleteToken
BY DEF Next, RunStep, SnmpStep, RealmStep, AccountStep, StoreStep, EndStep

-----------------------------------------------------------------------------
LEMMA TypeInit == Init => TypeInv
<1> SUFFICES ASSUME Init PROVE TypeInv
  OBVIOUS
<1>1. NodeTyped
  <2>1. snmp = FreshSnmp /\ realm = FreshRealm
    BY DEF Init
  <2>2. account \in [user : BOOLEAN, token : Tokens \union {None}, privsep : BOOLEAN, grants : SUBSET Grants]
    <3> DEFINE Accounts == [user : BOOLEAN, token : Tokens \union {None}, privsep : BOOLEAN, grants : SUBSET Grants]
               made == [user |-> TRUE, token |-> Old, privsep |-> FALSE, grants |-> {"user", "extra"}]
    <3>1. FreshAccount \in Accounts
      BY DEF FreshAccount
    <3>2. {"user", "extra"} \in SUBSET Grants /\ Old \in Tokens
      BY DEF Grants, Tokens
    <3>3. made \in Accounts
      BY <3>2
    <3>4. account \in {FreshAccount, made}
      BY DEF Init
    <3> QED
      BY <3>1, <3>3, <3>4
  <2> QED
    BY <2>1, <2>2 DEF NodeTyped, FreshSnmp, FreshRealm
<1>2. SotTyped
  BY BaselineAssumption DEF Init, SotTyped, Settings, Values
<1>3. NewRun \in RunRecords /\ NewRun.value = None /\ NewRun.at = "idle"
  <2>1. NewRun.want \in Settings
    BY DEF NewRun, Settings, Values
  <2>2. NoPlan \in Plans
    BY DEF NoPlan, Plans
  <2> QED
    BY <2>1, <2>2 DEF NewRun, RunRecords
<1>4. run \in [Runs -> RunRecords] /\ \A r \in Runs : run[r].value = None /\ run[r].at = "idle"
  BY <1>3 DEF Init
<1> QED
  BY <1>1, <1>2, <1>4 DEF TypeInv, RunTyped, Recorded, Init, At

LEMMA TypeStep ==
  ASSUME TypeInv, [Next]_vars
  PROVE  TypeInv'
<1>t. /\ NodeTyped /\ SotTyped /\ RunTyped /\ Recorded
      /\ run \in [Runs -> RunRecords] /\ \A r \in Runs : run[r].value \in {r, None}
  BY DEF TypeInv, RunTyped
<1>1. ASSUME NEW r \in Runs, Only(r), run'[r].value \in {r, None},
             store' = store, run'[r].at # "records", SnmpTyped, RealmTyped, AccountTyped,
             UNCHANGED sot, state' \in {state, "baseline_done"}, UNCHANGED edits, faults' \in 0..MaxFaults
      PROVE  TypeInv'
  <2>1. NodeTyped'
    BY <1>1 DEF NodeTyped, SnmpTyped, RealmTyped, AccountTyped
  <2>2. SotTyped'
    BY <1>1, <1>t DEF SotTyped
  <2>3. RunTyped'
    BY <1>1, <1>t DEF RunTyped, Only
  <2>4. Recorded'
    BY <1>1, <1>t DEF Recorded, Only, At
  <2> QED
    BY <2>1, <2>2, <2>3, <2>4 DEF TypeInv
<1>s. UNCHANGED snmp => SnmpTyped
  BY <1>t DEF NodeTyped, SnmpTyped
<1>r. UNCHANGED realm => RealmTyped
  BY <1>t DEF NodeTyped, RealmTyped
<1>a. UNCHANGED account => AccountTyped
  BY <1>t DEF NodeTyped, AccountTyped
<1>2. ASSUME NEW r \in Runs, Start(r) \/ Plan(r)
      PROVE  TypeInv'
  BY <1>1, <1>2, <1>s, <1>r, <1>a, <1>t, Starting, Planning DEF SotTyped
<1>3. ASSUME NEW r \in Runs, SnmpStep(r)
      PROVE  TypeInv'
  BY <1>1, <1>3, <1>r, <1>a, <1>t, SnmpEffect DEF Keeps, KeepsToken, Moves
<1>4. ASSUME NEW r \in Runs, RealmStep(r)
      PROVE  TypeInv'
  BY <1>1, <1>4, <1>s, <1>a, <1>t, RealmEffect DEF Keeps, KeepsToken, Moves
<1>5. ASSUME NEW r \in Runs, AccountStep(r)
      PROVE  TypeInv'
  BY <1>1, <1>5, <1>s, <1>r, <1>t, AccountEffect DEF Keeps, Moves
<1>6. ASSUME NEW r \in Runs, StoreStep(r)
      PROVE  TypeInv'
  <2>1. /\ Only(r) /\ run'[r].value = run[r].value /\ faults' \in 0..MaxFaults
        /\ UNCHANGED <<snmp, realm, account, sot, state, edits>>
        /\ \/ store' = store /\ run'[r].at # "records"
           \/ /\ Moves(r, "files", "records") /\ run[r].value # None
              /\ store' = [store EXCEPT !.value = run[r].value]
           \/ Moves(r, "records", "verify") /\ store' = [store EXCEPT !.named = TRUE]
    BY <1>6, StoreEffect DEF Keeps, Moves, StoreDone
  <2>2. NodeTyped' /\ RunTyped'
    BY <2>1, <1>t DEF NodeTyped, RunTyped, Only
  <2>3. SotTyped' /\ Recorded'
    <3>1. store' = store /\ run'[r].at # "records" => SotTyped' /\ Recorded'
      BY <2>1, <1>t DEF SotTyped, Recorded, Only, At
    <3>2. CASE /\ Moves(r, "files", "records") /\ run[r].value # None
               /\ store' = [store EXCEPT !.value = run[r].value]
      <4>1. store'.value = run[r].value /\ store'.value # None /\ store' \in [value : Runs \union {None}, named : BOOLEAN]
        BY <3>2, <1>t DEF SotTyped
      <4> QED
        BY <2>1, <4>1, <1>t DEF SotTyped, Recorded
    <3>3. CASE Moves(r, "records", "verify") /\ store' = [store EXCEPT !.named = TRUE]
      <4>1. store.value # None /\ store'.value = store.value /\ store' \in [value : Runs \union {None}, named : BOOLEAN]
        BY <3>3, <1>t DEF SotTyped, Recorded, At, Moves
      <4> QED
        BY <2>1, <4>1, <1>t DEF SotTyped, Recorded
    <3> QED
      BY <2>1, <3>1, <3>2, <3>3
  <2> QED
    BY <2>2, <2>3 DEF TypeInv
<1>7. ASSUME NEW r \in Runs, EndStep(r)
      PROVE  TypeInv'
  <2>1. run'[r].at # "records"
    BY <1>7, EndEffect DEF Moves, Ends
  <2> QED
    BY <1>1, <1>7, <2>1, <1>s, <1>r, <1>a, <1>t, EndEffect DEF Keeps, KeepsToken
<1>8. CASE Reboot
  <2>1. NodeTyped' /\ SotTyped' /\ RunTyped'
    BY <1>8, <1>t, RebootEffect DEF NodeTyped, SotTyped, RunTyped, SnmpTyped
  <2>2. Recorded'
    BY <1>8, <1>t, RebootEffect DEF Recorded, At
  <2> QED
    BY <2>1, <2>2 DEF TypeInv
<1>9. CASE EditSot \/ Reinstall \/ DeleteToken
  BY <1>9, <1>t, EditEffect
     DEF TypeInv, NodeTyped, SotTyped, RunTyped, Recorded, At, SnmpTyped, RealmTyped, AccountTyped
<1>10. CASE UNCHANGED vars
  BY <1>10, <1>t DEF vars, TypeInv, NodeTyped, SotTyped, RunTyped, Recorded, At
<1> QED
  BY <1>2, <1>3, <1>4, <1>5, <1>6, <1>7, <1>8, <1>9, <1>10, StepSplit DEF RunStep

LEMMA Typed == TypeInv => BaselineTypeOK
<1> SUFFICES ASSUME TypeInv PROVE BaselineTypeOK
  OBVIOUS
<1>1. \A r \in Runs : /\ run[r].at \in Steps \union Ends \union {"idle"} /\ run[r].want \in Settings
                      /\ run[r].plan \in Plans /\ run[r].value \in {r, None}
  BY DEF TypeInv, RunTyped, RunRecords
<1> QED
  BY <1>1 DEF TypeInv, NodeTyped, SotTyped, Recorded, BaselineTypeOK

(* The types of the job, the node, the Secrets and the Device; and Secrets *)
(* that are named lead to a file, since a run records only what it wrote.  *)
THEOREM BaselineTypeOKHolds == Spec => []BaselineTypeOK
<1>1. Init => TypeInv
  BY TypeInit
<1>2. TypeInv /\ [Next]_vars => TypeInv'
  BY TypeStep
<1>3. TypeInv => BaselineTypeOK
  BY Typed
<1> QED
  BY <1>1, <1>2, <1>3, PTL DEF Spec

-----------------------------------------------------------------------------
(* Alone, a step of one run finds every other run over or not yet started. *)
ActiveStep(r) ==
  Plan(r) \/ SnmpStep(r) \/ RealmStep(r) \/ AccountStep(r) \/ StoreStep(r) \/ EndStep(r)

LEMMA ActiveSteps ==
  ASSUME TypeInv, NEW r \in Runs, ActiveStep(r)
  PROVE  Only(r) /\ Active(r) /\ run'[r].at \in (Steps \union Ends) \ {"plan"}
<1>1. CASE Plan(r)
  BY <1>1, Planning DEF Active, Steps
<1>2. CASE SnmpStep(r)
  BY <1>2, SnmpEffect DEF Keeps, Moves, Active, Steps, Ends
<1>3. CASE RealmStep(r)
  BY <1>3, RealmEffect DEF Keeps, Moves, Active, Steps, Ends
<1>4. CASE AccountStep(r)
  BY <1>4, AccountEffect DEF Keeps, Moves, Active, Steps, Ends
<1>5. CASE StoreStep(r)
  BY <1>5, StoreEffect DEF Keeps, Moves, StoreDone, Active, Steps, Ends
<1>6. CASE EndStep(r)
  BY <1>6, EndEffect DEF Keeps, Moves, Active, Steps, Ends
<1> QED
  BY <1>1, <1>2, <1>3, <1>4, <1>5, <1>6 DEF ActiveStep

LEMMA Apart == "idle" \notin Steps \union Ends /\ Steps \intersect Ends = {}
BY DEF Steps, Ends

LEMMA OrderInit == Init => OrderInv
<1> SUFFICES ASSUME Init PROVE OrderInv
  OBVIOUS
<1>1. \A r \in Runs : run[r].at = "idle"
  BY DEF Init, NewRun
<1>2. NoGhostGrants
  BY BaselineAssumption DEF Init, FreshAccount, NoGhostGrants
<1> QED
  BY <1>1, <1>2, Apart DEF OrderInv, Ordered, Active, At

LEMMA OrderStep ==
  ASSUME Alone, TypeInv, OrderInv, [Next]_vars
  PROVE  OrderInv'
<1>1. ASSUME NEW r \in Runs, Start(r)
      PROVE  OrderInv'
  <2>1. /\ Only(r) /\ run[r].at = "idle" /\ run'[r].at = "plan" /\ UNCHANGED account
        /\ \A q \in Runs : q < r => run[q].at # "idle" /\ ~Active(q)
    BY <1>1, Starting
  <2>2. \A q \in Runs \ {r} : run'[q].at = run[q].at
    BY <2>1 DEF Only
  <2>3. \A q \in Runs \ {r} : q < r \/ r < q
    BY BaselineAssumption
  <2>4. \A q \in Runs \ {r} : ~Active(q)
    <3>1. \A q \in Runs : r < q => At(q, "idle")
      BY <2>1 DEF OrderInv, Ordered, At
    <3> QED
      BY <2>1, <2>3, <3>1, Apart DEF Active, At
  <2>5. Ordered'
    <3>1. ASSUME NEW p \in Runs, NEW q \in Runs, Active(p)', Active(q)'
          PROVE  p = q
      BY <3>1, <2>2, <2>4 DEF Active
    <3>2. ASSUME NEW p \in Runs, NEW q \in Runs, p < q, At(p, "idle")'
          PROVE  At(q, "idle")'
      <4>1. p # r /\ At(p, "idle")
        BY <3>2, <2>1, <2>2 DEF At
      <4>2. At(q, "idle") /\ q # r
        BY <3>2, <4>1, <2>1 DEF OrderInv, Ordered, At
      <4> QED
        BY <4>2, <2>2 DEF At
    <3> QED
      BY <3>1, <3>2 DEF Ordered
  <2> QED
    BY <2>1, <2>5 DEF OrderInv, NoGhostGrants
<1>2. ASSUME NEW r \in Runs, ActiveStep(r)
      PROVE  OrderInv'
  <2>1. Only(r) /\ Active(r) /\ run'[r].at # "idle"
    BY <1>2, ActiveSteps, Apart
  <2>2. Ordered'
    <3>1. \A q \in Runs \ {r} : run'[q].at = run[q].at
      BY <2>1 DEF Only
    <3>2. ~At(r, "idle")
      BY <2>1, Apart DEF Active, At
    <3> QED
      BY <2>1, <3>1, <3>2 DEF OrderInv, Ordered, Active, At
  <2>3. NoGhostGrants'
    <3>1. CASE AccountStep(r)
      <4>1. /\ account \in [user : BOOLEAN, token : Tokens \union {None}, privsep : BOOLEAN, grants : SUBSET Grants]
            /\ NoGhostGrants /\ r # None
        BY BaselineAssumption DEF TypeInv, NodeTyped, OrderInv
      <4>2. \/ account' = account \/ account' = WithoutToken
            \/ account' = [account EXCEPT !.user = TRUE]
            \/ account' = [account EXCEPT !.token = r, !.privsep = Want(r).privsep]
            \/ account' = [account EXCEPT !.privsep = Want(r).privsep]
            \/ account' = [account EXCEPT !.grants = @ \ Planned(r).deletes]
            \/ account' = [account EXCEPT !.grants = @ \union (Planned(r).adds \
                             (IF account.token = None THEN {"token"} ELSE {}))]
        BY <3>1, AccountEffect
      <4>3. account' = WithoutToken => NoGhostGrants'
        BY <4>1 DEF WithoutToken, NoGhostGrants
      <4>4. CASE account' = [account EXCEPT !.token = r, !.privsep = Want(r).privsep]
        <5>1. account'.token = r
          BY <4>1, <4>4
        <5> QED
          BY <4>1, <5>1 DEF NoGhostGrants
      <4>5. account' = [account EXCEPT !.grants = @ \ Planned(r).deletes] => NoGhostGrants'
        BY <4>1 DEF NoGhostGrants
      <4>6. CASE account' = [account EXCEPT !.grants = @ \union (Planned(r).adds \
                               (IF account.token = None THEN {"token"} ELSE {}))]
        BY <4>1, <4>6 DEF NoGhostGrants
      <4>7. CASE \/ account' = account \/ account' = [account EXCEPT !.user = TRUE]
                 \/ account' = [account EXCEPT !.privsep = Want(r).privsep]
        BY <4>1, <4>7 DEF NoGhostGrants
      <4> QED
        BY <4>2, <4>3, <4>4, <4>5, <4>6, <4>7
    <3>2. CASE UNCHANGED account
      BY <3>2 DEF OrderInv, NoGhostGrants
    <3> QED
      BY <1>2, <3>1, <3>2, Planning, SnmpEffect, RealmEffect, StoreEffect, EndEffect DEF ActiveStep
  <2> QED
    BY <2>2, <2>3 DEF OrderInv
<1>3. CASE Reboot
  <2>1. /\ UNCHANGED account
        /\ \A r \in Runs : run'[r].at = IF Active(r) THEN "failed" ELSE run[r].at
    BY <1>3, RebootEffect
  <2>2. "failed" \notin Steps \union {"idle"}
    BY DEF Steps
  <2>3. \A r \in Runs : /\ ~Active(r)' /\ (At(r, "idle")' <=> At(r, "idle"))
    BY <2>1, <2>2, Apart DEF Active, At
  <2> QED
    BY <2>1, <2>3 DEF OrderInv, Ordered, NoGhostGrants
<1>4. CASE EditSot \/ Reinstall \/ DeleteToken
  <2>1. UNCHANGED run /\ account' \in {account, FreshAccount, WithoutToken}
    BY <1>4, EditEffect
  <2>2. NoGhostGrants'
    <3>1. account' = account => NoGhostGrants'
      BY DEF OrderInv, NoGhostGrants
    <3>2. account' = FreshAccount => NoGhostGrants'
      BY DEF FreshAccount, NoGhostGrants
    <3>3. CASE account' = WithoutToken
      <4>1. account'.grants = account.grants \ {"token"}
        BY <3>3 DEF WithoutToken, TypeInv, NodeTyped
      <4> QED
        BY <4>1 DEF NoGhostGrants
    <3> QED
      BY <2>1, <3>1, <3>2, <3>3
  <2> QED
    BY <2>1, <2>2 DEF OrderInv, Ordered, Active, At
<1>5. CASE UNCHANGED vars
  BY <1>5 DEF vars, OrderInv, Ordered, NoGhostGrants, Active, At
<1> QED
  BY <1>1, <1>2, <1>3, <1>4, <1>5, StepSplit DEF RunStep, ActiveStep

(* So what a run is sure of can be disturbed by its own steps only. *)
LEMMA OthersIdle ==
  ASSUME TypeInv, Ordered, Ordered', NEW r \in Runs, Start(r) \/ ActiveStep(r), NEW q \in Runs \ {r}
  PROVE  ~Active(q)'
<1>1. CASE Start(r)
  <2>1. Active(r)'
    BY <1>1, Starting DEF Active, Steps
  <2> QED
    BY <2>1 DEF Ordered
<1>2. CASE ActiveStep(r)
  <2>1. Only(r) /\ Active(r)
    BY <1>2, ActiveSteps
  <2> QED
    BY <2>1 DEF Ordered, Only, Active
<1> QED
  BY <1>1, <1>2

-----------------------------------------------------------------------------
LEMMA SnmpSteps ==
  ASSUME TypeInv, NEW r \in Runs, ActiveStep(r), SnmpSure(r)
  PROVE  SnmpSure(r)'
<1>t. snmp \in [conf : Values \union {None}, loaded : Values \union {None}, up : BOOLEAN,
                user : Values \union {None}, print : Values \union {None}]
  BY DEF TypeInv, NodeTyped
<1>1. CASE Plan(r)
  <2>1. /\ run'[r].at = "conf" /\ run'[r].want = run[r].want /\ UNCHANGED snmp
        /\ run'[r].torn = Torn /\ run'[r].misprinted = Misprinted(r)
    BY <1>1, Planning
  <2> QED
    BY <2>1 DEF SnmpSure, Is, AfterSnmp, Late, Torn, Misprinted, Want
<1>2. CASE SnmpStep(r)
  <2>w. Want(r)' = Want(r) /\ run'[r].torn = run[r].torn /\ run'[r].misprinted = run[r].misprinted
    BY <1>2, SnmpEffect DEF Keeps, Want
  <2>1. CASE /\ Moves(r, "conf", "users")
             /\ snmp' = [snmp EXCEPT !.conf = Want(r).conf]
             /\ run'[r].changed = (snmp.conf # Want(r).conf)
    <3>1. /\ snmp'.conf = Want(r).conf /\ snmp'.user = snmp.user /\ snmp'.print = snmp.print
          /\ snmp'.up = snmp.up /\ snmp'.loaded = snmp.loaded
      BY <2>1, <1>t
    <3> QED
      BY <2>1, <2>w, <3>1 DEF SnmpSure, Is, AfterSnmp, Late, Torn, Misprinted, Moves, Want
  <2>2. CASE Moves(r, "users", "restart") /\ UserCurrent(r) /\ snmp' = snmp /\ run'[r].changed = run[r].changed
    BY <2>2, <2>w DEF SnmpSure, Is, AfterSnmp, Late, Torn, Misprinted, Moves, Want, UserCurrent
  <2>3. CASE Moves(r, "users", "create") /\ snmp' = [snmp EXCEPT !.up = FALSE] /\ run'[r].changed = run[r].changed
    <3>1. snmp'.conf = snmp.conf /\ ~snmp'.up
      BY <2>3, <1>t
    <3> QED
      BY <2>3, <2>w, <3>1 DEF SnmpSure, Is, AfterSnmp, Late, Torn, Moves, Want
  <2>4. CASE /\ Moves(r, "create", "print")
             /\ snmp' = [snmp EXCEPT !.user = Want(r).v3] /\ run'[r].changed = run[r].changed
    <3>1. snmp'.conf = snmp.conf /\ snmp'.up = snmp.up /\ snmp'.loaded = snmp.loaded /\ snmp'.user = Want(r).v3
      BY <2>4, <1>t
    <3> QED
      BY <2>4, <2>w, <3>1 DEF SnmpSure, Is, AfterSnmp, Late, Torn, Moves, Want
  <2>5. CASE /\ Moves(r, "print", "restart") /\ run'[r].changed
             /\ snmp' = snmp \/ snmp' = [snmp EXCEPT !.print = Want(r).v3]
    <3>1. snmp'.conf = snmp.conf /\ snmp'.user = snmp.user
      BY <2>5, <1>t
    <3> QED
      BY <2>5, <2>w, <3>1 DEF SnmpSure, Is, AfterSnmp, Late, Torn, Moves, Want
  <2>6. CASE /\ Moves(r, "restart", "realm")
             /\ snmp' = IF run[r].changed \/ ~snmp.up THEN [snmp EXCEPT !.loaded = snmp.conf, !.up = TRUE]
                        ELSE snmp
    <3>1. /\ snmp'.conf = snmp.conf /\ snmp'.user = snmp.user /\ snmp'.up
          /\ run[r].torn \/ snmp'.loaded = snmp'.conf
      BY <2>6, <1>t DEF SnmpSure, Is, Torn, Moves
    <3> QED
      BY <2>6, <2>w, <3>1 DEF SnmpSure, Is, AfterSnmp, Late, Torn, Moves, Want
  <2>7. CASE run'[r].at = "failed"
    BY <2>7 DEF SnmpSure, Is, AfterSnmp, Late
  <2> QED
    BY <1>2, <2>1, <2>2, <2>3, <2>4, <2>5, <2>6, <2>7, SnmpEffect
<1>3. ASSUME Keeps(r), UNCHANGED snmp, run[r].at \in AfterSnmp, run'[r].at \in AfterSnmp \union Ends
      PROVE  SnmpSure(r)'
  <2>1. Want(r)' = Want(r) /\ run'[r].torn = run[r].torn /\ run'[r].misprinted = run[r].misprinted
    BY <1>3 DEF Keeps, Want
  <2>2. Ends \intersect ({"conf", "users", "create", "print", "restart"} \union AfterSnmp) = {}
        /\ AfterSnmp \intersect {"conf", "users", "create", "print", "restart"} = {}
    BY DEF Ends, AfterSnmp, Late
  <2> HIDE DEF AfterSnmp
  <2> QED
    BY <1>3, <2>1, <2>2 DEF SnmpSure, Is, Torn, Want
<1>4. CASE RealmStep(r)
  <2>1. run[r].at \in AfterSnmp /\ run'[r].at \in AfterSnmp \union Ends
    BY <1>4, RealmEffect DEF Moves, AfterSnmp, Late, Ends
  <2> QED
    BY <1>3, <1>4, <2>1, RealmEffect
<1>5. CASE AccountStep(r)
  <2>1. run[r].at \in AfterSnmp /\ run'[r].at \in AfterSnmp \union Ends
    BY <1>5, AccountEffect DEF Moves, AfterSnmp, Late, Ends
  <2> QED
    BY <1>3, <1>5, <2>1, AccountEffect
<1>6. CASE StoreStep(r)
  <2>1. run[r].at \in AfterSnmp /\ run'[r].at \in AfterSnmp \union Ends
    BY <1>6, StoreEffect DEF Moves, StoreDone, AfterSnmp, Late, Ends
  <2> QED
    BY <1>3, <1>6, <2>1, StoreEffect
<1>7. CASE EndStep(r)
  <2>1. CASE run'[r].at \in Ends
    <3>1. ~Active(r)'
      BY <2>1, Apart DEF Active
    <3>2. \A x \in Steps : ~(run'[r].at = x)
      BY <2>1, Apart
    <3> QED
      BY <3>2 DEF SnmpSure, Is, AfterSnmp, Late, Steps
  <2>2. CASE Moves(r, "network", "save")
    <3>1. run[r].at \in AfterSnmp /\ run'[r].at \in AfterSnmp
      BY <2>2 DEF Moves, AfterSnmp, Late
    <3> QED
      BY <1>3, <1>7, <3>1, EndEffect
  <2> QED
    BY <1>7, <2>1, <2>2, EndEffect
<1> QED
  BY <1>1, <1>2, <1>4, <1>5, <1>6, <1>7 DEF ActiveStep

LEMMA RealmSteps ==
  ASSUME TypeInv, NEW r \in Runs, ActiveStep(r), RealmSure(r)
  PROVE  RealmSure(r)'
<1>t. realm \in [options : Values \union {None}, password : Values \union {None}, group : BOOLEAN, acl : BOOLEAN]
  BY DEF TypeInv, NodeTyped
<1>e. ASSUME run'[r].at \in Ends
      PROVE  RealmSure(r)'
  <2>1. \A x \in Steps : ~(run'[r].at = x)
    BY <1>e, Apart
  <2> QED
    BY <2>1 DEF RealmSure, Is, BeforeRealm, Late, Steps
<1>1. CASE Plan(r)
  <2>1. /\ run'[r].at = "conf" /\ Want(r)' = Want(r) /\ UNCHANGED realm
        /\ \E reachable \in BOOLEAN : run'[r].plan = PlanFor(Want(r), Verdict(reachable))
    BY <1>1, Planning DEF Want
  <2>2. run'[r].plan.realm = "none" => realm.options = Want(r).options
    BY <2>1 DEF PlanFor
  <2> QED
    BY <2>1, <2>2 DEF RealmSure, Is, BeforeRealm, Late, Planned
<1>2. CASE SnmpStep(r)
  <2>1. /\ Want(r)' = Want(r) /\ Planned(r)' = Planned(r) /\ UNCHANGED realm
        /\ run[r].at \in BeforeRealm \ {"realm"}
        /\ run'[r].at \in BeforeRealm \union Ends
    BY <1>2, SnmpEffect DEF Keeps, Want, Planned, Moves, BeforeRealm, Ends
  <2>2. CASE run'[r].at \in BeforeRealm
    <3>1. ~Is(r, Late)' /\ ~Is(r, {"password", "sync", "groupAcl"})' /\ Is(r, BeforeRealm)
      BY <2>1, <2>2 DEF Is, Late, BeforeRealm
    <3>2. ~Is(r, {"sync", "groupAcl"})' /\ ~Is(r, {"groupAcl"})'
      BY <3>1 DEF Is
    <3> QED
      BY <2>1, <3>1, <3>2 DEF RealmSure
  <2> QED
    BY <2>1, <2>2, <1>e
<1>3. CASE RealmStep(r)
  <2>w. Want(r)' = Want(r) /\ Planned(r)' = Planned(r)
    BY <1>3, RealmEffect DEF Keeps, Want, Planned
  <2>1. CASE /\ Moves(r, "realm", "password") /\ run'[r].warned = run[r].warned
             /\ \/ Planned(r).realm = "none" /\ realm' = realm /\ run'[r].bad = run[r].bad
                \/ realm' = [realm EXCEPT !.options = Want(r).options] /\ run'[r].bad = run[r].bad
                \/ run'[r].bad
    <3>1. run'[r].bad \/ realm'.options = Want(r).options
      BY <2>1, <1>t DEF RealmSure, Is, BeforeRealm, Moves
    <3> QED
      BY <2>1, <2>w, <3>1 DEF RealmSure, Is, BeforeRealm, Late, Moves
  <2>2. CASE /\ Moves(r, "password", "sync") /\ run'[r].warned = run[r].warned
             /\ \/ realm' = [realm EXCEPT !.password = Want(r).password] /\ run'[r].bad = run[r].bad
                \/ realm' = realm /\ run'[r].bad
    <3>1. run'[r].bad \/ (realm'.options = Want(r).options /\ realm'.password = Want(r).password)
      BY <2>2, <1>t DEF RealmSure, Is, Moves
    <3> QED
      BY <2>2, <2>w, <3>1 DEF RealmSure, Is, BeforeRealm, Late, Moves
  <2>3. CASE /\ Moves(r, "sync", "groupAcl") /\ run'[r].bad = run[r].bad
             /\ \/ realm' = [realm EXCEPT !.group = TRUE]
                \/ realm' = realm /\ run'[r].warned
    <3>1. /\ run'[r].bad \/ (realm'.options = Want(r).options /\ realm'.password = Want(r).password)
          /\ run'[r].warned \/ realm'.group
      BY <2>3, <1>t DEF RealmSure, Is, Moves
    <3> QED
      BY <2>3, <2>w, <3>1 DEF RealmSure, Is, BeforeRealm, Late, Moves
  <2>4. CASE /\ Moves(r, "groupAcl", "user") /\ ~run[r].bad
             /\ realm' = [realm EXCEPT !.acl = @ \/ realm.group]
             /\ run'[r].warned = (run[r].warned \/ ~realm.group)
    <3>1. /\ realm'.options = Want(r).options /\ realm'.password = Want(r).password
          /\ run'[r].warned \/ (realm'.group /\ realm'.acl)
      BY <2>4, <1>t DEF RealmSure, Is, Moves
    <3> QED
      BY <2>4, <2>w, <3>1 DEF RealmSure, Is, BeforeRealm, Late, Moves
  <2>5. CASE run'[r].at = "failed"
    BY <2>5, <1>e DEF Ends
  <2> QED
    BY <1>3, <2>1, <2>2, <2>3, <2>4, <2>5, RealmEffect
<1>4. ASSUME Keeps(r), UNCHANGED realm, run'[r].warned = run[r].warned,
             run[r].at \in Late, run'[r].at \in Late \union Ends
      PROVE  RealmSure(r)'
  <2>1. CASE run'[r].at \in Late
    <3>1. Want(r)' = Want(r)
      BY <1>4 DEF Keeps, Want
    <3>2. /\ ~Is(r, BeforeRealm)' /\ ~Is(r, {"password", "sync", "groupAcl"})' /\ Is(r, Late)
          /\ ~Is(r, {"sync", "groupAcl"})' /\ ~Is(r, {"groupAcl"})'
      BY <1>4, <2>1 DEF Is, Late, BeforeRealm
    <3> QED
      BY <1>4, <3>1, <3>2 DEF RealmSure
  <2> QED
    BY <1>4, <2>1, <1>e
<1>5. CASE AccountStep(r)
  <2>1. run[r].at \in Late /\ run'[r].at \in Late \union Ends
    BY <1>5, AccountEffect DEF Moves, Late, Ends
  <2> QED
    BY <1>4, <1>5, <2>1, AccountEffect
<1>6. CASE StoreStep(r)
  <2>1. run[r].at \in Late /\ run'[r].at \in Late \union Ends
    BY <1>6, StoreEffect DEF Moves, StoreDone, Late, Ends
  <2> QED
    BY <1>4, <1>6, <2>1, StoreEffect DEF KeepsWarnings
<1>7. CASE EndStep(r)
  <2>1. CASE Moves(r, "network", "save")
    <3>1. run[r].at \in Late /\ run'[r].at \in Late
      BY <2>1 DEF Moves, Late
    <3> QED
      BY <1>4, <1>7, <3>1, EndEffect DEF KeepsWarnings
  <2> QED
    BY <1>7, <2>1, <1>e, EndEffect
<1> QED
  BY <1>1, <1>2, <1>3, <1>5, <1>6, <1>7 DEF ActiveStep

(* A plan made from what is found: TokenPlanned holds of it. *)
LEMMA PlanSure ==
  ASSUME TypeInv, NEW r \in Runs, Plan(r), run[r].value = None
  PROVE  TokenPlanned(r)'
<1>1. /\ Want(r)' = Want(r) /\ run'[r].value = None /\ UNCHANGED <<account, store>>
      /\ \E reachable \in BOOLEAN :
              /\ run'[r].untried = ~reachable
              /\ run'[r].plan = PlanFor(Want(r), Verdict(reachable))
  BY Planning DEF Want
<1>2. PICK reachable \in BOOLEAN :
        run'[r].untried = ~reachable /\ run'[r].plan = PlanFor(Want(r), Verdict(reachable))
  BY <1>1
<1> DEFINE action == TokenAction(Verdict(reachable))
<1>3. /\ Planned(r)'.token = action
      /\ Planned(r)'.adds = Desired(Want(r)) \ KnownGrants(action)
      /\ Planned(r)'.deletes = KnownGrants(action) \ Desired(Want(r))
      /\ Planned(r)'.privsepFix = (action = "keep" /\ account.privsep # Want(r).privsep)
  BY <1>2 DEF PlanFor, Planned
<1>4. action = "create" <=> account.token = None
  BY DEF TokenAction
<1>5. action = "keep" => run'[r].untried \/ (Stored /\ store.value = account.token)
  BY <1>2 DEF TokenAction, Verdict
<1>6. PlanFits(r)'
  BY <1>1, <1>3 DEF PlanFits, KnownGrants, Desired
<1> HIDE DEF action
<1> QED
  BY <1>1, <1>3, <1>4, <1>5, <1>6 DEF TokenPlanned, Kept, Stored

LEMMA AccountSteps ==
  ASSUME TypeInv, NoGhostGrants, NEW r \in Runs, ActiveStep(r), AccountSure(r), Unmade(r)
  PROVE  AccountSure(r)'
<1>t. /\ account \in [user : BOOLEAN, token : Tokens \union {None}, privsep : BOOLEAN, grants : SUBSET Grants]
      /\ store \in [value : Runs \union {None}, named : BOOLEAN]
      /\ run[r].value \in {r, None} /\ r # None
      /\ Planned(r).token \in {"keep", "create", "rotate"}
      /\ Planned(r).privsepFix \in BOOLEAN
  <2>1. run[r] \in RunRecords /\ run[r].value \in {r, None}
    BY DEF TypeInv, RunTyped
  <2>2. run[r].plan \in Plans
    BY <2>1 DEF RunRecords
  <2> QED
    BY <2>1, <2>2, BaselineAssumption DEF TypeInv, NodeTyped, SotTyped, Planned, Plans
<1>e. ASSUME run'[r].at \in Ends \union {"save"}
      PROVE  AccountSure(r)'
  <2>1. \A x \in Steps \ {"save"} : ~(run'[r].at = x)
    BY <1>e, Apart
  <2> QED
    BY <2>1 DEF AccountSure, Is, BeforeToken, BeforeRealm, Steps
<1>1. CASE Plan(r)
  <2>1. run[r].value = None /\ run'[r].at = "conf"
    BY <1>1, Planning DEF Unmade, Is
  <2>2. TokenPlanned(r)'
    BY <1>1, <2>1, PlanSure
  <2> QED
    BY <2>1, <2>2 DEF AccountSure, Is
<1>2. ASSUME Keeps(r), KeepsToken(r), UNCHANGED store,
             run[r].at \in BeforeToken, run'[r].at \in BeforeToken \union Ends,
             account'.token = account.token, account'.grants = account.grants, account'.privsep = account.privsep
      PROVE  AccountSure(r)'
  <2>1. CASE run'[r].at \in BeforeToken
    <3>1. TokenPlanned(r)
      BY <1>2 DEF AccountSure, Is
    <3>2. TokenPlanned(r)'
      BY <1>2, <3>1 DEF Keeps, KeepsToken, TokenPlanned, PlanFits, KnownGrants, Desired, Kept, Stored, Want, Planned
    <3>3. run'[r].at \notin {"add", "privsep", "aclDelete", "aclAdd", "files", "records", "verify", "network"}
      BY <2>1 DEF BeforeToken, BeforeRealm
    <3> QED
      BY <3>2, <3>3 DEF AccountSure, Is
  <2> QED
    BY <1>2, <2>1, <1>e
<1>3. CASE SnmpStep(r)
  <2>1. run[r].at \in BeforeToken /\ run'[r].at \in BeforeToken \union Ends
    BY <1>3, SnmpEffect DEF Moves, BeforeToken, BeforeRealm, Ends
  <2> QED
    BY <1>2, <1>3, <2>1, SnmpEffect
<1>4. CASE RealmStep(r)
  <2>1. run[r].at \in BeforeToken /\ run'[r].at \in BeforeToken \union Ends
    BY <1>4, RealmEffect DEF Moves, BeforeToken, BeforeRealm, Ends
  <2> QED
    BY <1>2, <1>4, <2>1, RealmEffect
<1>5. CASE AccountStep(r)
  <2>w. /\ Keeps(r) /\ run'[r].untried = run[r].untried /\ UNCHANGED store
        /\ Want(r)' = Want(r) /\ Planned(r)' = Planned(r)
    BY <1>5, AccountEffect DEF Keeps, Want, Planned
  <2>g. ASSUME account.token # None, account'.token = account.token, run'[r].value = run[r].value, TokenSure(r)
        PROVE  TokenSure(r)'
    BY <2>g, <2>w DEF TokenSure, Kept, Made, Stored
  <2>d. Desired(Want(r))' = Desired(Want(r))
    BY <2>w DEF Desired
  <2>1. CASE /\ Moves(r, "user", "token") /\ KeepsToken(r)
             /\ account' = account \/ account' = [account EXCEPT !.user = TRUE]
    <3>1. run[r].at \in BeforeToken /\ run'[r].at \in BeforeToken
      BY <2>1 DEF Moves, BeforeToken
    <3>2. account'.token = account.token /\ account'.grants = account.grants /\ account'.privsep = account.privsep
      BY <2>1, <1>t
    <3> QED
      BY <1>2, <2>1, <2>w, <3>1, <3>2
  <2>p. CASE run[r].at = "token"
    <3>1. TokenPlanned(r)
      BY <2>p DEF AccountSure, Is, BeforeToken
    <3>2. CASE /\ Moves(r, "token", "privsep") /\ KeepsToken(r) /\ account' = account
               /\ run'[r].bad \/ Planned(r).token = "keep"
      <4>1. CASE Planned(r).token = "keep"
        <5>1. /\ account.token # None /\ run[r].value = None /\ Kept(r)
              /\ Planned(r).privsepFix \/ account.privsep = Want(r).privsep
          BY <3>1, <4>1 DEF TokenPlanned
        <5>2. /\ Planned(r).adds = Desired(Want(r)) \ account.grants
              /\ Planned(r).deletes = account.grants \ Desired(Want(r))
          BY <3>1, <4>1 DEF TokenPlanned, PlanFits, KnownGrants
        <5>3. TokenSure(r)'
          BY <5>1, <3>2, <2>g DEF TokenSure, KeepsToken
        <5>4. run'[r].at = "privsep"
          BY <3>2 DEF Moves
        <5> QED
          BY <3>2, <5>1, <5>2, <5>3, <5>4, <2>w, <2>d DEF AccountSure, Is, BeforeToken, BeforeRealm
      <4>2. CASE run'[r].bad
        BY <3>2, <4>2 DEF AccountSure, Is, BeforeToken, BeforeRealm, Moves
      <4> QED
        BY <3>2, <4>1, <4>2
    <3>3. CASE /\ Moves(r, "token", "add") /\ KeepsToken(r)
               /\ \/ Planned(r).token = "create" /\ account' = account
                  \/ Planned(r).token = "rotate" /\ account' = WithoutToken
      <4>1. /\ run'[r].value = None /\ ~Planned(r).privsepFix
            /\ KnownGrants(Planned(r).token) = account.grants \ {"token"}
        BY <3>1, <3>3 DEF TokenPlanned, KnownGrants, KeepsToken
      <4>2. account'.token = None /\ account'.grants = account.grants \ {"token"}
        <5>1. CASE Planned(r).token = "create" /\ account' = account
          BY <3>1, <5>1 DEF TokenPlanned, NoGhostGrants
        <5>2. CASE account' = WithoutToken
          BY <5>2, <1>t DEF WithoutToken
        <5> QED
          BY <3>3, <5>1, <5>2
      <4>3. /\ Planned(r).adds = Desired(Want(r)) \ account'.grants
            /\ Planned(r).deletes = account'.grants \ Desired(Want(r))
        BY <3>1, <4>1, <4>2 DEF TokenPlanned, PlanFits
      <4>4. run'[r].at = "add"
        BY <3>3 DEF Moves
      <4> QED
        BY <4>1, <4>2, <4>3, <4>4, <2>w, <2>d DEF AccountSure, Is, BeforeToken, BeforeRealm
    <3> QED
      BY <1>5, <2>p, <3>2, <3>3, AccountEffect DEF Moves
  <2>2. CASE /\ Moves(r, "add", "privsep")
             /\ \/ run'[r].bad
                \/ run'[r].value = r /\ account' = [account EXCEPT !.token = r, !.privsep = Want(r).privsep]
    <3>1. run'[r].at = "privsep" /\ run[r].at = "add"
      BY <2>2 DEF Moves
    <3>2. CASE run'[r].value = r /\ account' = [account EXCEPT !.token = r, !.privsep = Want(r).privsep]
      <4>1. account'.token = r /\ account'.grants = account.grants /\ account'.privsep = Want(r).privsep
        BY <3>2, <1>t
      <4>2. /\ Planned(r).adds = Desired(Want(r)) \ account.grants
            /\ Planned(r).deletes = account.grants \ Desired(Want(r))
        BY <3>1 DEF AccountSure, Is
      <4>3. TokenSure(r)'
        BY <3>2, <4>1, <1>t DEF TokenSure, Made
      <4> QED
        BY <3>1, <4>1, <4>2, <4>3, <2>w, <2>d DEF AccountSure, Is, BeforeToken, BeforeRealm
    <3>3. CASE run'[r].bad
      BY <3>1, <3>3 DEF AccountSure, Is, BeforeToken, BeforeRealm
    <3> QED
      BY <2>2, <3>2, <3>3
  <2>3. CASE /\ Moves(r, "privsep", "aclDelete") /\ KeepsToken(r)
             /\ \/ run'[r].bad
                \/ ~Planned(r).privsepFix /\ account' = account /\ run'[r].bad = run[r].bad
                \/ account' = [account EXCEPT !.privsep = Want(r).privsep] /\ run'[r].bad = run[r].bad
    <3>1. run'[r].at = "aclDelete" /\ run[r].at = "privsep"
      BY <2>3 DEF Moves
    <3>2. CASE run'[r].bad
      BY <3>1, <3>2 DEF AccountSure, Is, BeforeToken, BeforeRealm
    <3>3. CASE ~run'[r].bad
      <4>1. /\ ~run[r].bad /\ account'.token = account.token /\ account'.grants = account.grants
            /\ (~Planned(r).privsepFix /\ account'.privsep = account.privsep) \/ account'.privsep = Want(r).privsep
        BY <2>3, <3>3, <1>t
      <4>2. /\ Planned(r).adds = Desired(Want(r)) \ account.grants
            /\ Planned(r).deletes = account.grants \ Desired(Want(r))
        BY <3>1, <4>1 DEF AccountSure, Is
      <4>3. TokenSure(r)
        BY <3>1, <4>1 DEF AccountSure, Is
      <4>4. TokenSure(r)'
        BY <4>1, <4>3, <2>3, <2>g DEF TokenSure, KeepsToken
      <4>5. account'.privsep = Want(r).privsep
        <5>1. Planned(r).privsepFix \/ account.privsep = Want(r).privsep
          BY <3>1, <4>1 DEF AccountSure, Is
        <5> QED
          BY <4>1, <5>1
      <4> QED
        BY <3>1, <4>1, <4>2, <4>4, <4>5, <2>w, <2>d DEF AccountSure, Is, BeforeToken, BeforeRealm
    <3> QED
      BY <3>2, <3>3
  <2>4. CASE /\ Moves(r, "aclDelete", "aclAdd") /\ KeepsToken(r)
             /\ \/ account' = [account EXCEPT !.grants = @ \ Planned(r).deletes] /\ run'[r].bad = run[r].bad
                \/ account' = account /\ run'[r].bad
    <3>1. run'[r].at = "aclAdd" /\ run[r].at = "aclDelete"
      BY <2>4 DEF Moves
    <3>2. CASE run'[r].bad
      BY <3>1, <3>2 DEF AccountSure, Is, BeforeToken, BeforeRealm
    <3>3. CASE ~run'[r].bad
      <4>1. /\ ~run[r].bad /\ account'.token = account.token /\ account'.privsep = account.privsep
            /\ account'.grants = account.grants \ Planned(r).deletes
        BY <2>4, <3>3, <1>t
      <4>2. /\ Planned(r).adds = Desired(Want(r)) \ account.grants
            /\ Planned(r).deletes = account.grants \ Desired(Want(r))
            /\ TokenSure(r) /\ account.privsep = Want(r).privsep
        BY <3>1, <4>1 DEF AccountSure, Is
      <4>3. account'.grants \union Planned(r).adds = Desired(Want(r))
        BY <4>1, <4>2
      <4>4. TokenSure(r)'
        BY <4>1, <4>2, <2>4, <2>g DEF TokenSure, KeepsToken
      <4> QED
        BY <3>1, <4>1, <4>2, <4>3, <4>4, <2>w, <2>d DEF AccountSure, Is, BeforeToken, BeforeRealm
    <3> QED
      BY <3>2, <3>3
  <2>5. CASE /\ Moves(r, "aclAdd", "files") /\ KeepsToken(r)
             /\ \/ /\ account' = [account EXCEPT !.grants = @ \union (Planned(r).adds \
                                    (IF account.token = None THEN {"token"} ELSE {}))]
                   /\ run[r].bad => run'[r].bad
                \/ account' = account /\ run'[r].bad
    <3>1. run'[r].at = "files" /\ run[r].at = "aclAdd"
      BY <2>5 DEF Moves
    <3>2. CASE run'[r].bad
      BY <3>1, <3>2 DEF AccountSure, Is, BeforeToken, BeforeRealm
    <3>3. CASE ~run'[r].bad
      <4>1. /\ ~run[r].bad /\ account'.token = account.token /\ account'.privsep = account.privsep
            /\ account'.grants = account.grants \union (Planned(r).adds \
                                   (IF account.token = None THEN {"token"} ELSE {}))
        BY <2>5, <3>3, <1>t
      <4>2. /\ account.grants \union Planned(r).adds = Desired(Want(r))
            /\ TokenSure(r) /\ account.privsep = Want(r).privsep
        BY <3>1, <4>1 DEF AccountSure, Is
      <4>3. account'.grants = Desired(Want(r))
        BY <4>1, <4>2 DEF TokenSure
      <4>4. TokenSure(r)'
        BY <4>1, <4>2, <2>5, <2>g DEF TokenSure, KeepsToken
      <4> QED
        BY <3>1, <4>1, <4>2, <4>3, <4>4, <2>w, <2>d DEF AccountSure, Is, BeforeToken, BeforeRealm
    <3> QED
      BY <3>2, <3>3
  <2> QED
    BY <1>5, <2>1, <2>p, <2>2, <2>3, <2>4, <2>5, AccountEffect DEF Moves
<1>6. CASE StoreStep(r)
  <2>w. /\ Keeps(r) /\ KeepsWarnings(r) /\ run'[r].value = run[r].value /\ UNCHANGED account
        /\ run[r].untried => run'[r].untried
        /\ Want(r)' = Want(r) /\ Planned(r)' = Planned(r) /\ Desired(Want(r))' = Desired(Want(r))
    BY <1>6, StoreEffect DEF Keeps, Want, Planned, Desired
  <2>1. CASE /\ run[r].at = "files" /\ run'[r].at = StoreDone(r) /\ run[r].value = None
             /\ store' = store
    <3>1. CASE run[r].bad
      BY <2>1, <3>1, <1>e DEF StoreDone, Ends
    <3>2. CASE ~run[r].bad
      <4>1. run'[r].at = "network"
        BY <2>1, <3>2 DEF StoreDone
      <4>2. TokenSure(r) /\ account.grants = Desired(Want(r))
        BY <2>1, <3>2 DEF AccountSure, Is
      <4>3. account.privsep = Want(r).privsep
        BY <2>1, <3>2 DEF AccountSure, Is
      <4>4. account.token # None /\ Kept(r)
        BY <2>1, <4>2, <1>t DEF TokenSure, Made
      <4>5. Kept(r)'
        BY <2>1, <4>4, <2>w DEF Kept, Stored
      <4> QED
        BY <4>1, <4>2, <4>3, <4>4, <4>5, <2>w DEF AccountSure, Is, BeforeToken, BeforeRealm
    <3> QED
      BY <3>1, <3>2
  <2>2. CASE /\ Moves(r, "files", "records") /\ run[r].value # None
             /\ store' = [store EXCEPT !.value = run[r].value]
    <3>1. run'[r].at = "records" /\ run[r].at = "files" /\ run'[r].value = r /\ store'.value = r
      BY <2>2, <2>w, <1>t DEF Moves
    <3>2. run'[r].bad = run[r].bad
      BY <2>w DEF KeepsWarnings
    <3>3. ~run[r].bad => /\ account.token = r /\ account.grants = Desired(Want(r))
                         /\ account.privsep = Want(r).privsep
      BY <2>2, <3>1, <1>t DEF AccountSure, Is, TokenSure, Made
    <3> QED
      BY <3>1, <3>2, <3>3, <2>w DEF AccountSure, Is, BeforeToken, BeforeRealm
  <2>3. CASE /\ Moves(r, "records", "verify")
             /\ store' = [store EXCEPT !.named = TRUE]
    <3>1. run'[r].at = "verify" /\ run[r].at = "records" /\ store'.value = store.value /\ store'.named
      BY <2>3, <1>t DEF Moves
    <3>2. run'[r].bad = run[r].bad
      BY <2>w DEF KeepsWarnings
    <3>3. /\ run[r].value = r /\ store.value = r
          /\ ~run[r].bad => /\ account.token = r /\ account.grants = Desired(Want(r))
                            /\ account.privsep = Want(r).privsep
      BY <3>1 DEF AccountSure, Is
    <3> QED
      BY <3>1, <3>2, <3>3, <2>w DEF AccountSure, Is, BeforeToken, BeforeRealm
  <2>4. CASE /\ run[r].at = "verify" /\ run'[r].at = StoreDone(r) /\ store' = store
             /\ run'[r].untried \/ run[r].value = account.token
    <3>1. CASE run[r].bad
      BY <2>4, <3>1, <1>e DEF StoreDone, Ends
    <3>2. CASE ~run[r].bad
      <4>1. run'[r].at = "network"
        BY <2>4, <3>2 DEF StoreDone
      <4>2. /\ store.value = r /\ store.named
            /\ account.token = r /\ account.grants = Desired(Want(r)) /\ account.privsep = Want(r).privsep
        BY <2>4, <3>2 DEF AccountSure, Is
      <4>3. account'.token # None /\ Kept(r)'
        BY <2>4, <4>2, <2>w, <1>t DEF Kept, Stored
      <4> QED
        BY <4>1, <4>2, <4>3, <2>w DEF AccountSure, Is, BeforeToken, BeforeRealm
    <3> QED
      BY <3>1, <3>2
  <2>5. CASE Moves(r, "verify", "failed")
    BY <2>5, <1>e DEF Moves, Ends
  <2> QED
    BY <1>6, <2>1, <2>2, <2>3, <2>4, <2>5, StoreEffect
<1>7. CASE EndStep(r)
  BY <1>7, <1>e, EndEffect DEF Moves
<1> QED
  BY <1>1, <1>3, <1>4, <1>5, <1>6, <1>7 DEF ActiveStep

-----------------------------------------------------------------------------
BaselineIInv == TypeInv /\ OrderInv /\ SnmpInv /\ RealmInv /\ AccountInv

LEMMA SureInit == Init => BaselineIInv
<1> SUFFICES ASSUME Init PROVE BaselineIInv
  OBVIOUS
<1>1. \A r \in Runs : run[r].at = "idle" /\ run[r].value = None
  BY DEF Init, NewRun
<1>2. ASSUME NEW r \in Runs
      PROVE  SnmpSure(r) /\ RealmSure(r) /\ AccountSure(r) /\ Unmade(r)
  <2>1. run[r].at = "idle" /\ run[r].value = None
    BY <1>1
  <2> QED
    BY <2>1 DEF SnmpSure, RealmSure, AccountSure, Unmade, Is, AfterSnmp, BeforeRealm, BeforeToken, Late
<1> QED
  BY <1>2, TypeInit, OrderInit DEF BaselineIInv, SnmpInv, RealmInv, AccountInv

LEMMA SureStep ==
  ASSUME Alone, BaselineIInv, [Next]_vars
  PROVE  BaselineIInv'
<1>t. TypeInv /\ OrderInv /\ TypeInv' /\ OrderInv'
  BY TypeStep, OrderStep DEF BaselineIInv
<1>o. Ordered /\ Ordered' /\ NoGhostGrants
  BY <1>t DEF OrderInv
<1>s. ASSUME NEW q \in Runs
      PROVE  SnmpSure(q) /\ RealmSure(q) /\ AccountSure(q) /\ Unmade(q)
  BY DEF BaselineIInv, SnmpInv, RealmInv, AccountInv
<1>n. ASSUME NEW q \in Runs, ~Active(q)' \/ run'[q].at = "plan"
      PROVE  SnmpSure(q)' /\ RealmSure(q)' /\ AccountSure(q)'
  <2>1. \A x \in Steps \ {"plan"} : ~(run'[q].at = x)
    BY <1>n DEF Active
  <2>2. SnmpSure(q)'
    BY <2>1 DEF SnmpSure, Is, AfterSnmp, Late, Steps
  <2>3. RealmSure(q)'
    BY <2>1 DEF RealmSure, Is, BeforeRealm, Late, Steps
  <2>4. AccountSure(q)'
    BY <2>1 DEF AccountSure, Is, BeforeToken, BeforeRealm, Steps
  <2> QED
    BY <2>2, <2>3, <2>4
<1>1. ASSUME NEW r \in Runs, Start(r) \/ ActiveStep(r), NEW q \in Runs
      PROVE  SnmpSure(q)' /\ RealmSure(q)' /\ AccountSure(q)' /\ Unmade(q)'
  <2>1. Only(r)
    BY <1>1, <1>t, Starting, ActiveSteps
  <2>2. CASE q # r
    <3>1. ~Active(q)'
      BY <1>1, <1>t, <1>o, <2>2, OthersIdle
    <3>2. run'[q] = run[q]
      BY <2>1, <2>2 DEF Only
    <3> QED
      BY <3>1, <3>2, <1>n, <1>s DEF Unmade, Is
  <2>3. CASE q = r /\ Start(r)
    BY <2>3, <1>t, <1>n, <1>s, Starting DEF Unmade, Is
  <2>4. CASE q = r /\ ActiveStep(r)
    <3>1. Unmade(r)'
      BY <2>4, <1>t, ActiveSteps, Apart DEF Unmade, Is
    <3> QED
      BY <2>4, <3>1, <1>t, <1>o, <1>s, SnmpSteps, RealmSteps, AccountSteps
  <2> QED
    BY <1>1, <2>2, <2>3, <2>4
<1>2. ASSUME Reboot \/ EditSot \/ Reinstall \/ DeleteToken, NEW q \in Runs
      PROVE  SnmpSure(q)' /\ RealmSure(q)' /\ AccountSure(q)' /\ Unmade(q)'
  <2>1. CASE Reboot
    <3>1. run'[q].at = (IF Active(q) THEN "failed" ELSE run[q].at) /\ run'[q].value = run[q].value
      BY <2>1, <1>t, RebootEffect
    <3>2. "failed" \notin Steps \union {"idle", "plan"}
      BY DEF Steps
    <3> QED
      BY <3>1, <3>2, <1>n, <1>s DEF Active, Unmade, Is
  <2>2. CASE EditSot \/ Reinstall \/ DeleteToken
    <3>1. ~Active(q) /\ run' = run
      BY <2>2, <1>t, EditEffect
    <3>2. ~Active(q)'
      BY <3>1 DEF Active
    <3> QED
      BY <3>1, <3>2, <1>n, <1>s DEF Unmade, Is
  <2> QED
    BY <1>2, <2>1, <2>2
<1>3. CASE UNCHANGED vars
  <2>1. UNCHANGED <<snmp, realm, account, store, run>>
    BY <1>3 DEF vars
  <2>2. ASSUME NEW q \in Runs
        PROVE  SnmpSure(q)' /\ RealmSure(q)' /\ AccountSure(q)' /\ Unmade(q)'
    <3>1. SnmpSure(q)'
      BY <2>1, <1>s DEF SnmpSure, Is, Misprinted, Torn, Want
    <3>2. RealmSure(q)'
      BY <2>1, <1>s DEF RealmSure, Is, Want, Planned
    <3>3. AccountSure(q)'
      BY <2>1, <1>s DEF AccountSure, Is, Want, Planned, TokenPlanned, PlanFits, KnownGrants, Desired, Kept, Stored,
                        TokenSure, Made
    <3>4. Unmade(q)'
      BY <2>1, <1>s DEF Unmade, Is
    <3> QED
      BY <3>1, <3>2, <3>3, <3>4
  <2> QED
    BY <2>2, <1>t DEF BaselineIInv, SnmpInv, RealmInv, AccountInv
<1> QED
  BY <1>1, <1>2, <1>3, <1>t, StepSplit DEF RunStep, ActiveStep, BaselineIInv, SnmpInv, RealmInv, AccountInv

LEMMA SureAlways == ASSUME Alone PROVE Spec => []BaselineIInv
<1>1. Init => BaselineIInv
  BY SureInit
<1>2. BaselineIInv /\ [Next]_vars => BaselineIInv'
  BY SureStep
<1> QED
  BY <1>1, <1>2, PTL DEF Spec

(* The step that reaches the network is the last one at the Secrets; it *)
(* leaves everything on the node as it is.                              *)
LEMMA Reaching ==
  ASSUME TypeInv, Next, NEW r \in Runs, Reaches(r)
  PROVE  /\ run'[r].at = "network"
         /\ Want(r)' = Want(r) /\ run'[r].torn = run[r].torn /\ run'[r].misprinted = run[r].misprinted
         /\ run'[r].warned = run[r].warned
<1>1. run'[r].at = "network" /\ run[r].at # "network"
  BY DEF Reaches, At
<1>2. StoreStep(r)
  <2>1. ASSUME NEW q \in Runs, RunStep(q)
        PROVE  q = r /\ ~Start(q)
    <3>1. Only(q)
      BY <2>1, Starting, ActiveSteps DEF RunStep, ActiveStep
    <3>2. q = r
      BY <1>1, <3>1 DEF Only
    <3> QED
      BY <1>1, <3>2, Starting
  <2>2. ~Reboot
    <3>1. Reboot => run'[r].at = IF Active(r) THEN "failed" ELSE run[r].at
      BY RebootEffect
    <3> QED
      BY <1>1, <3>1
  <2>3. ~(EditSot \/ Reinstall \/ DeleteToken)
    BY <1>1, EditEffect
  <2>4. RunStep(r) /\ ~Start(r)
    BY <2>1, <2>2, <2>3, StepSplit
  <2>5. ~Plan(r)
    BY <1>1, Planning
  <2>6. ~SnmpStep(r)
    BY <1>1, SnmpEffect DEF Moves
  <2>7. ~RealmStep(r)
    BY <1>1, RealmEffect DEF Moves
  <2>8. ~AccountStep(r)
    BY <1>1, AccountEffect DEF Moves
  <2>9. ~EndStep(r)
    BY <1>1, EndEffect DEF Moves, Ends
  <2> QED
    BY <2>4, <2>5, <2>6, <2>7, <2>8, <2>9 DEF RunStep
<1> QED
  BY <1>1, <1>2, StoreEffect DEF Keeps, KeepsWarnings, Want

(* Whatever earlier runs lost on the way, a run that comes through leaves  *)
(* Secrets with the value of the node's token, or has warned that the API  *)
(* could not be asked.                                                     *)
THEOREM TokenIsStoredHolds == ASSUME Alone PROVE Spec => TokenIsStored
<1>1. ASSUME BaselineIInv, BaselineIInv', [Next]_vars
      PROVE  [\A r \in Runs : Reaches(r) =>
                /\ account'.token # None
                /\ run'[r].untried \/ (Stored' /\ store'.value = account'.token)]_vars
  <2>1. ASSUME NEW r \in Runs, Next, Reaches(r)
        PROVE  account'.token # None /\ (run'[r].untried \/ (Stored' /\ store'.value = account'.token))
    <3>1. run'[r].at = "network" /\ AccountSure(r)'
      BY <1>1, <2>1, Reaching DEF BaselineIInv, AccountInv
    <3> QED
      BY <3>1 DEF AccountSure, Is, Kept
  <2> QED
    BY <1>1, <2>1
<1> QED
  BY <1>1, SureAlways, PTL DEF Spec, TokenIsStored

(* The service account ends with the ACL entries of the SoT, no more and   *)
(* no less, however its token was kept, made or made anew.                 *)
THEOREM LeastPrivilegeHolds == ASSUME Alone PROVE Spec => LeastPrivilege
<1>1. ASSUME BaselineIInv, BaselineIInv', [Next]_vars
      PROVE  [\A r \in Runs : Reaches(r) =>
                account'.grants = Desired(Want(r)) /\ account'.privsep = Want(r).privsep]_vars
  <2>1. ASSUME NEW r \in Runs, Next, Reaches(r)
        PROVE  account'.grants = Desired(Want(r)) /\ account'.privsep = Want(r).privsep
    <3>1. run'[r].at = "network" /\ AccountSure(r)' /\ Want(r)' = Want(r)
      BY <1>1, <2>1, Reaching DEF BaselineIInv, AccountInv
    <3> QED
      BY <3>1 DEF AccountSure, Is, Desired
  <2> QED
    BY <1>1, <2>1
<1> QED
  BY <1>1, SureAlways, PTL DEF Spec, LeastPrivilege

(* A run that comes through leaves snmpd and the realm as the SoT has      *)
(* them, except for the two states it does not notice and the warnings it  *)
(* gave: for any number of edits, reinstalls and broken runs before.       *)
THEOREM ServesSotHolds == ASSUME Alone PROVE Spec => ServesSot
<1>1. ASSUME BaselineIInv, BaselineIInv', [Next]_vars
      PROVE  [\A r \in Runs : Reaches(r) => SnmpRight(r) /\ (run[r].warned \/ RealmRight(r))]_vars
  <2>1. ASSUME NEW r \in Runs, Next, Reaches(r)
        PROVE  SnmpRight(r) /\ (run[r].warned \/ RealmRight(r))
    <3>1. /\ run'[r].at = "network" /\ SnmpSure(r)' /\ RealmSure(r)' /\ Want(r)' = Want(r)
          /\ run'[r].torn = run[r].torn /\ run'[r].misprinted = run[r].misprinted
          /\ run'[r].warned = run[r].warned /\ TypeInv'
      BY <1>1, <2>1, Reaching DEF BaselineIInv, SnmpInv, RealmInv
    <3>2. SnmpRight(r)
      BY <3>1 DEF SnmpSure, Is, AfterSnmp, Late, SnmpRight, Torn
    <3>3. run[r].warned \/ RealmRight(r)
      <4>1. /\ realm' \in [options : Values \union {None}, password : Values \union {None},
                           group : BOOLEAN, acl : BOOLEAN]
            /\ realm'.options = Want(r).options /\ realm'.password = Want(r).password
            /\ run[r].warned \/ (realm'.group /\ realm'.acl)
        BY <3>1 DEF RealmSure, Is, Late, TypeInv, NodeTyped
      <4> QED
        BY <4>1 DEF RealmRight
    <3> QED
      BY <3>2, <3>3
  <2> QED
    BY <1>1, <2>1
<1> QED
  BY <1>1, SureAlways, PTL DEF Spec, ServesSot
=============================================================================
