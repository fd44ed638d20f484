------------------------------ MODULE HostBaseline ------------------------------
(***************************************************************************)
(* The Host Baseline job (jobs/baremetal/host_baseline.py) with its plans  *)
(* (jobs/lib/host_baseline.py) and the applier it runs on the node         *)
(* (jobs/lib/host_baseline_applier.sh): observe the node and the stored    *)
(* token, plan, then SNMP, AD realm, service account and network, one      *)
(* payload per step.  A run may end anywhere and is simply run again; each *)
(* payload decides for itself, from the node, what there is to do.         *)
(*                                                                         *)
(* Data kept: a setting of the config context, or a Secret, is one of two  *)
(* values; one SNMPv3 user; one service account, whose token values are    *)
(* named by the run that made them.  The packages, the root e-mail and the *)
(* sync job are settings like the realm's; the network step is one action  *)
(* here (NetworkApply has its own steps).  A dry run writes nothing.       *)
(***************************************************************************)
EXTENDS Naturals

CONSTANTS
  Runs,       \* bound: runs of the job, numbered in the order they start
  Old,        \* the value of a token that was made by hand
  None,
  Alone,      \* one run of the job at a time
  MaxEdits,   \* bound: changed settings, reinstalls, deleted tokens
  MaxFaults   \* bound: failing commands, lost sessions, reboots, an unreachable API

ASSUME BaselineAssumption ==
  /\ Runs \subseteq Nat
  /\ Old \notin Runs
  /\ None \notin Runs \union {Old}
  /\ Alone \in BOOLEAN
  /\ MaxEdits \in Nat
  /\ MaxFaults \in Nat

VARIABLES
  sot,        \* the config context and its Secrets
  snmp,       \* snmpd.conf, what snmpd has loaded, the v3 user, its fingerprint file
  realm,      \* the AD realm's options, its password file, the admin group, its ACL
  account,    \* the service account on the node: user, token, privsep, ACL entries
  store,      \* the token's files, and whether Secrets and SecretsGroup lead to them
  state,      \* the Device's provisioning_state
  run,        \* [Runs -> the job's run]
  edits,
  faults

nodeVars == <<snmp, realm, account>>
vars == <<sot, snmp, realm, account, store, state, run, edits, faults>>

Values == {"a", "b"}
Tokens == Runs \union {Old}
Grants == {"user", "token", "extra"}   \* extra: a role the SoT does not give

Settings == [conf : Values, v3 : Values, options : Values, password : Values, privsep : BOOLEAN]

FreshSnmp == [conf |-> None, loaded |-> None, up |-> TRUE, user |-> None, print |-> None]
FreshRealm == [options |-> None, password |-> None, group |-> FALSE, acl |-> FALSE]
FreshAccount == [user |-> FALSE, token |-> None, privsep |-> TRUE, grants |-> {}]

Steps == {"plan", "conf", "users", "create", "print", "restart", "realm", "password", "sync",
          "groupAcl", "user", "token", "add", "privsep", "aclDelete", "aclAdd", "files",
          "records", "verify", "network", "save"}
Ends == {"done", "failed"}

NoPlan == [realm |-> "none", token |-> "keep", userAdd |-> FALSE, privsepFix |-> FALSE,
           adds |-> {}, deletes |-> {}]

(* want: the settings it was started with; value: the token value handed   *)
(* to the job; bad: a command of this payload failed; changed: what the    *)
(* payload remembers; warned, untried: the warnings that AD, or the API,   *)
(* did not answer; history: torn, snmpd was found running an older file;   *)
(* misprinted, the v3 user had the right fingerprint and older Secrets     *)
NewRun == [at |-> "idle", want |-> [conf |-> "a", v3 |-> "a", options |-> "a", password |-> "a", privsep |-> TRUE],
           plan |-> NoPlan, value |-> None, bad |-> FALSE, changed |-> FALSE, warned |-> FALSE, untried |-> FALSE,
           torn |-> FALSE, misprinted |-> FALSE]

(* A node after firstboot, or one whose account was made by hand. *)
Init ==
  /\ \E privsep \in BOOLEAN :
       sot = [conf |-> "a", v3 |-> "a", options |-> "a", password |-> "a", privsep |-> privsep]
  /\ snmp = FreshSnmp
  /\ realm = FreshRealm
  /\ account \in {FreshAccount,
                  [user |-> TRUE, token |-> Old, privsep |-> FALSE, grants |-> {"user", "extra"}]}
  /\ store = [value |-> None, named |-> FALSE]
  /\ state = "bm_installed"
  /\ run = [r \in Runs |-> NewRun]
  /\ edits = 0
  /\ faults = 0

-----------------------------------------------------------------------------
At(r, step) == run[r].at = step
Goto(r, step) == run' = [run EXCEPT ![r].at = step]
Active(r) == run[r].at \in Steps
Fault == faults < MaxFaults /\ faults' = faults + 1
Want(r) == run[r].want
Planned(r) == run[r].plan

NautobotSame == UNCHANGED <<sot, store, state, edits>>
OnlyJob == UNCHANGED nodeVars /\ NautobotSame

(* Gates, and the connection. *)
Start(r) ==
  /\ At(r, "idle")
  /\ \A q \in Runs : q < r => run[q].at # "idle" /\ (Alone => ~Active(q))
  /\ run' = [run EXCEPT ![r].at = "plan", ![r].want = sot]
  /\ OnlyJob
  /\ UNCHANGED faults

-----------------------------------------------------------------------------
(* _plan, from the observation *)
Stored == store.named /\ store.value # None

(* stored_node_token and _verify_token: a token that could not be tried is *)
(* taken for good                                                          *)
Verdict(reachable) ==
  IF ~Stored THEN "missing"
  ELSE IF reachable /\ store.value # account.token THEN "invalid"
  ELSE "ok"

(* mutant: Secrets that are there need no try *)
TokenActionUntried(verdict) ==
  IF account.token = None THEN "create"
  ELSE IF verdict = "missing" THEN "rotate"
  ELSE "keep"

TokenAction(verdict) ==
  IF account.token = None THEN "create"
  ELSE IF verdict \in {"missing", "invalid"} THEN "rotate"
  ELSE "keep"

Desired(want) == {"user"} \union (IF want.privsep THEN {"token"} ELSE {})

(* mutant: a token that is made anew is thought to keep its ACL entries *)
KnownGrantsKept(action) == account.grants

(* a created or rotated token starts without ACL entries *)
KnownGrants(action) == IF action = "keep" THEN account.grants ELSE account.grants \ {"token"}

PlanFor(want, verdict) ==
  LET action == TokenAction(verdict)
      granted == KnownGrants(action)
  IN  [realm |-> IF realm.options = None THEN "add" ELSE IF realm.options # want.options THEN "modify" ELSE "none",
       token |-> action,
       userAdd |-> ~account.user,
       privsepFix |-> action = "keep" /\ account.privsep # want.privsep,
       adds |-> Desired(want) \ granted,
       deletes |-> granted \ Desired(want)]

Torn == snmp.up /\ snmp.loaded # snmp.conf

Misprinted(r) == snmp.print = Want(r).v3 /\ snmp.user \notin {None, Want(r).v3}

Plan(r) ==
  /\ At(r, "plan")
  /\ \E reachable \in BOOLEAN :
       /\ IF reachable THEN UNCHANGED faults ELSE Stored /\ Fault
       /\ run' = [run EXCEPT ![r].at = "conf", ![r].torn = Torn,
                             ![r].misprinted = Misprinted(r), ![r].untried = ~reachable,
                             ![r].plan = PlanFor(Want(r), Verdict(reachable))]
  /\ OnlyJob

-----------------------------------------------------------------------------
(* nfv_step_snmp.  A failing command ends the step, and the run. *)
Breaks(r) == Fault /\ Goto(r, "failed")

SetSnmp(new) == snmp' = new /\ UNCHANGED <<realm, account>> /\ NautobotSame

WriteConf(r) ==
  /\ At(r, "conf")
  /\ SetSnmp([snmp EXCEPT !.conf = Want(r).conf])
  /\ run' = [run EXCEPT ![r].at = "users", ![r].changed = snmp.conf # Want(r).conf]
  /\ UNCHANGED faults

UserCurrent(r) == snmp.user # None /\ snmp.print = Want(r).v3

(* a user that is missing, or whose Secrets changed: stop snmpd *)
CheckUsers(r) ==
  /\ At(r, "users")
  /\ \/ UserCurrent(r) /\ SetSnmp(snmp) /\ Goto(r, "restart") /\ UNCHANGED faults
     \/ ~UserCurrent(r) /\ SetSnmp([snmp EXCEPT !.up = FALSE]) /\ Goto(r, "create") /\ UNCHANGED faults
     \/ ~UserCurrent(r) /\ SetSnmp(snmp) /\ Breaks(r)

(* purge, createUser *)
CreateUser(r) ==
  /\ At(r, "create")
  /\ \/ SetSnmp([snmp EXCEPT !.user = Want(r).v3]) /\ Goto(r, "print") /\ UNCHANGED faults
     \/ SetSnmp([snmp EXCEPT !.user = None]) /\ Breaks(r)

(* whether the fingerprint could be written is not looked at *)
PrintUser(r) ==
  /\ At(r, "print")
  /\ \/ SetSnmp([snmp EXCEPT !.print = Want(r).v3]) /\ UNCHANGED faults
     \/ SetSnmp(snmp) /\ Fault
  /\ run' = [run EXCEPT ![r].at = "restart", ![r].changed = TRUE]

(* mutant: a running snmpd is left alone *)
NeedsRestartDown(r) == ~snmp.up

NeedsRestart(r) == run[r].changed \/ ~snmp.up

Restart(r) ==
  /\ At(r, "restart")
  /\ \/ /\ SetSnmp(IF NeedsRestart(r) THEN [snmp EXCEPT !.loaded = snmp.conf, !.up = TRUE] ELSE snmp)
        /\ run' = [run EXCEPT ![r].at = "realm", ![r].changed = FALSE]
        /\ UNCHANGED faults
     \/ NeedsRestart(r) /\ SetSnmp([snmp EXCEPT !.up = FALSE]) /\ Breaks(r)

-----------------------------------------------------------------------------
(* The calls of the other payloads go on after one that failed. *)
Goes(r, step) == Goto(r, step) /\ UNCHANGED faults
Stumbles(r, step) == run' = [run EXCEPT ![r].at = step, ![r].bad = TRUE] /\ Fault

SetRealmTo(new) == realm' = new /\ UNCHANGED <<snmp, account>> /\ NautobotSame

ChangeRealm(r) ==
  /\ At(r, "realm")
  /\ \/ Planned(r).realm = "none" /\ SetRealmTo(realm) /\ Goes(r, "password")
     \/ Planned(r).realm # "none" /\ SetRealmTo([realm EXCEPT !.options = Want(r).options]) /\ Goes(r, "password")
     \/ Planned(r).realm # "none" /\ SetRealmTo(realm) /\ Stumbles(r, "password")

RealmPassword(r) ==
  /\ At(r, "password")
  /\ \/ /\ SetRealmTo([realm EXCEPT !.password = Want(r).password])
        /\ run' = [run EXCEPT ![r].at = "sync", ![r].changed = realm.password # Want(r).password]
        /\ UNCHANGED faults
     \/ realm.password # Want(r).password /\ SetRealmTo(realm) /\ Stumbles(r, "sync")

(* the initial sync: AD may not answer, which is a warning *)
RealmSync(r) ==
  LET due == Planned(r).realm # "none" \/ run[r].changed \/ ~realm.group IN
    /\ At(r, "sync")
    /\ \/ /\ due => None \notin {realm.options, realm.password}
          /\ SetRealmTo([realm EXCEPT !.group = TRUE])
          /\ Goes(r, "groupAcl")
       \/ /\ due
          /\ SetRealmTo(realm)
          /\ run' = [run EXCEPT ![r].at = "groupAcl", ![r].warned = TRUE]
          /\ UNCHANGED faults

(* mutant: a command that failed before the last one is not looked at *)
GroupAclOnly(r) ==
  /\ At(r, "groupAcl")
  /\ \/ /\ SetRealmTo([realm EXCEPT !.acl = @ \/ realm.group])
        /\ run' = [run EXCEPT ![r].at = "user", ![r].changed = FALSE, ![r].bad = FALSE,
                              ![r].warned = @ \/ ~realm.group]
        /\ UNCHANGED faults
     \/ realm.group /\ ~realm.acl /\ SetRealmTo(realm) /\ Breaks(r)

(* the ACL of the admin group, once it exists; the end of the payload *)
GroupAcl(r) ==
  /\ At(r, "groupAcl")
  /\ \/ /\ SetRealmTo([realm EXCEPT !.acl = @ \/ realm.group])
        /\ run' = [run EXCEPT ![r].at = IF run[r].bad THEN "failed" ELSE "user",
                              ![r].changed = FALSE, ![r].warned = @ \/ ~realm.group]
        /\ UNCHANGED faults
     \/ realm.group /\ ~realm.acl /\ SetRealmTo(realm) /\ Breaks(r)

-----------------------------------------------------------------------------
SetAccount(new) == account' = new /\ UNCHANGED <<snmp, realm>> /\ NautobotSame

AddUser(r) ==
  /\ At(r, "user")
  /\ \/ ~Planned(r).userAdd /\ SetAccount(account) /\ Goes(r, "token")
     \/ Planned(r).userAdd /\ ~account.user /\ SetAccount([account EXCEPT !.user = TRUE]) /\ Goes(r, "token")
     \/ Planned(r).userAdd /\ SetAccount(account) /\ Stumbles(r, "token")

WithoutToken == [account EXCEPT !.token = None, !.grants = @ \ {"token"}]

(* nfv_token: a rotation removes the token first *)
RemoveToken(r) ==
  LET action == Planned(r).token IN
    /\ At(r, "token")
    /\ \/ action = "keep" /\ SetAccount(account) /\ Goes(r, "privsep")
       \/ action = "create" /\ SetAccount(account) /\ Goes(r, "add")
       \/ action = "rotate" /\ account.token # None /\ SetAccount(WithoutToken) /\ Goes(r, "add")
       \/ action = "rotate" /\ SetAccount(account) /\ Stumbles(r, "privsep")

(* the value is printed once: an answer that is lost leaves a token that   *)
(* nobody knows the value of                                               *)
AddToken(r) ==
  LET made == [account EXCEPT !.token = r, !.privsep = Want(r).privsep] IN
    /\ At(r, "add")
    /\ \/ /\ account.user /\ account.token = None
          /\ SetAccount(made)
          /\ run' = [run EXCEPT ![r].at = "privsep", ![r].value = r]
          /\ UNCHANGED faults
       \/ account.user /\ account.token = None /\ SetAccount(made) /\ Stumbles(r, "privsep")
       \/ SetAccount(account) /\ Stumbles(r, "privsep")
       \/ ~(account.user /\ account.token = None) /\ SetAccount(account)
            /\ run' = [run EXCEPT ![r].at = "privsep", ![r].bad = TRUE] /\ UNCHANGED faults

FixPrivsep(r) ==
  /\ At(r, "privsep")
  /\ \/ ~Planned(r).privsepFix /\ SetAccount(account) /\ Goes(r, "aclDelete")
     \/ Planned(r).privsepFix /\ SetAccount([account EXCEPT !.privsep = Want(r).privsep]) /\ Goes(r, "aclDelete")
     \/ Planned(r).privsepFix /\ SetAccount(account) /\ Stumbles(r, "aclDelete")

DeleteAcls(r) ==
  /\ At(r, "aclDelete")
  /\ \/ SetAccount([account EXCEPT !.grants = @ \ Planned(r).deletes]) /\ Goes(r, "aclAdd")
     \/ Planned(r).deletes # {} /\ SetAccount(account) /\ Stumbles(r, "aclAdd")

(* an entry for a token that is not there is refused *)
AddAcls(r) ==
  LET refused == IF account.token = None THEN {"token"} ELSE {}
      adds == Planned(r).adds
  IN  /\ At(r, "aclAdd")
      /\ \/ /\ SetAccount([account EXCEPT !.grants = @ \union (adds \ refused)])
            /\ run' = [run EXCEPT ![r].at = "files", ![r].bad = @ \/ adds \intersect refused # {}]
            /\ UNCHANGED faults
         \/ adds # {} /\ SetAccount(account) /\ Stumbles(r, "files")

-----------------------------------------------------------------------------
(* _store_tokens, before the payload's status is looked at *)
SetStore(new) == store' = new /\ UNCHANGED nodeVars /\ UNCHANGED <<sot, state, edits>>

StoreDone(r) == IF run[r].bad THEN "failed" ELSE "network"

(* mutant: the records are saved although the directory took no file *)
WriteFilesLost(r) ==
  /\ At(r, "files")
  /\ SetStore(store)
  /\ Goes(r, IF run[r].value = None THEN StoreDone(r) ELSE "records")

WriteFiles(r) ==
  /\ At(r, "files")
  /\ IF run[r].value = None
       THEN SetStore(store) /\ Goes(r, StoreDone(r))
       ELSE SetStore([store EXCEPT !.value = run[r].value]) /\ Goes(r, "records")

SaveRecords(r) ==
  /\ At(r, "records")
  /\ SetStore([store EXCEPT !.named = TRUE])
  /\ Goes(r, "verify")

VerifyStored(r) ==
  /\ At(r, "verify")
  /\ OnlyJob
  /\ \/ Goes(r, IF run[r].value = account.token THEN StoreDone(r) ELSE "failed")
     \/ run' = [run EXCEPT ![r].at = StoreDone(r), ![r].untried = TRUE] /\ Fault

(* The network step fails or goes through. *)
Network(r) ==
  /\ At(r, "network")
  /\ OnlyJob
  /\ Goes(r, "save") \/ Breaks(r)

Save(r) ==
  /\ At(r, "save")
  /\ state' = "baseline_done"
  /\ Goes(r, "done")
  /\ UNCHANGED nodeVars
  /\ UNCHANGED <<sot, store, edits>>

(* The session ends, and with it the applier; or the worker dies. *)
RunFails(r) ==
  /\ Active(r)
  /\ Breaks(r)
  /\ OnlyJob

Reboot ==
  /\ Fault
  /\ snmp' = [snmp EXCEPT !.loaded = snmp.conf, !.up = TRUE]
  /\ run' = [r \in Runs |-> [run[r] EXCEPT !.at = IF Active(r) THEN "failed" ELSE @]]
  /\ UNCHANGED <<realm, account>>
  /\ NautobotSame

-----------------------------------------------------------------------------
(* People, between runs. *)
Edit == edits < MaxEdits /\ edits' = edits + 1 /\ (\A r \in Runs : ~Active(r)) /\ UNCHANGED <<run, faults>>

EditSot ==
  /\ Edit
  /\ \E key \in {"conf", "v3", "options", "password"}, v \in Values, privsep \in BOOLEAN :
       sot' = [sot EXCEPT ![key] = v, !.privsep = privsep]
  /\ sot' # sot
  /\ UNCHANGED nodeVars
  /\ UNCHANGED <<store, state>>

Reinstall ==
  /\ Edit
  /\ snmp' = FreshSnmp /\ realm' = FreshRealm /\ account' = FreshAccount
  /\ state' = "bm_installed"
  /\ UNCHANGED <<sot, store>>

DeleteToken ==
  /\ Edit
  /\ account.token # None
  /\ account' = WithoutToken
  /\ UNCHANGED <<sot, snmp, realm, store, state>>

Next ==
  \/ \E r \in Runs :
       \/ Start(r) \/ Plan(r)
       \/ WriteConf(r) \/ CheckUsers(r) \/ CreateUser(r) \/ PrintUser(r) \/ Restart(r)
       \/ ChangeRealm(r) \/ RealmPassword(r) \/ RealmSync(r) \/ GroupAcl(r)
       \/ AddUser(r) \/ RemoveToken(r) \/ AddToken(r) \/ FixPrivsep(r) \/ DeleteAcls(r) \/ AddAcls(r)
       \/ WriteFiles(r) \/ SaveRecords(r) \/ VerifyStored(r)
       \/ Network(r) \/ Save(r) \/ RunFails(r)
  \/ Reboot
  \/ EditSot \/ Reinstall \/ DeleteToken

Spec == Init /\ [][Next]_vars

-----------------------------------------------------------------------------
Plans == [realm : {"none", "add", "modify"}, token : {"keep", "create", "rotate"}, userAdd : BOOLEAN,
          privsepFix : BOOLEAN, adds : SUBSET Grants, deletes : SUBSET Grants]

(* Secrets that are there lead to a file. *)
BaselineTypeOK ==
  /\ sot \in Settings
  /\ snmp \in [conf : Values \union {None}, loaded : Values \union {None}, up : BOOLEAN,
              user : Values \union {None}, print : Values \union {None}]
  /\ realm \in [options : Values \union {None}, password : Values \union {None}, group : BOOLEAN, acl : BOOLEAN]
  /\ account \in [user : BOOLEAN, token : Tokens \union {None}, privsep : BOOLEAN, grants : SUBSET Grants]
  /\ store \in [value : Runs \union {None}, named : BOOLEAN]
  /\ store.named => store.value # None
  /\ state \in {"bm_installed", "baseline_done"}
  /\ \A r \in Runs :
       /\ run[r].at \in Steps \union Ends \union {"idle"}
       /\ run[r].want \in Settings
       /\ run[r].plan \in Plans
       /\ run[r].value \in {r, None}
  /\ edits \in 0..MaxEdits
  /\ faults \in 0..MaxFaults

(* The run gets as far as the network, with all that precedes it done. *)
Reaches(r) == ~At(r, "network") /\ run'[r].at = "network"

(* "a token without its Secrets is rotated, never left half-stored"        *)
(* (baremetal-install.md): whatever earlier runs lost on the way, a run    *)
(* that comes through leaves Secrets with the value of the node's token,   *)
(* unless it had to warn that the API could not be asked.                  *)
TokenIsStored ==
  [][\A r \in Runs : Reaches(r) =>
       /\ account'.token # None
       /\ run'[r].untried \/ (Stored' /\ store'.value = account'.token)]_vars

(* "their entries not in desired are removed (least privilege converges)"  *)
(* (host_baseline.py): after a run that comes through, the account has the *)
(* ACL entries the SoT gives, no more and no less, however the token was   *)
(* kept, made or made anew, and by whatever runs before.                   *)
LeastPrivilege ==
  [][\A r \in Runs : Reaches(r) =>
       account'.grants = Desired(Want(r)) /\ account'.privsep = Want(r).privsep]_vars

SnmpRight(r) ==
  /\ snmp'.up
  /\ snmp'.conf = Want(r).conf
  /\ run[r].misprinted \/ snmp'.user = Want(r).v3
  /\ run[r].torn \/ snmp'.loaded = snmp'.conf

RealmRight(r) ==
  realm' = [options |-> Want(r).options, password |-> Want(r).password, group |-> TRUE, acl |-> TRUE]

(* Whatever earlier runs left half-done, after a run that comes through    *)
(* snmpd runs with the community and the v3 user of the SoT, except that   *)
(* the run does not notice an older file that was loaded when it came      *)
(* (torn), or a v3 user made from older Secrets below the right            *)
(* fingerprint (misprinted); and, unless the run had to warn, the realm is as the SoT has it, with   *)
(* the admin group synced and granted its role.                            *)
ServesSot ==
  [][\A r \in Runs : Reaches(r) => SnmpRight(r) /\ (run[r].warned \/ RealmRight(r))]_vars

(* "A rotated Secret changes it -> the user is re-created"                 *)
(* (host_baseline.py, of the fingerprint): a run that comes through leaves *)
(* the v3 user with the Secrets of the SoT.                                *)
UserRecreated ==
  [][\A r \in Runs : Reaches(r) => snmp'.user = Want(r).v3]_vars
=============================================================================
