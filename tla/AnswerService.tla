----------------------------- MODULE AnswerService -----------------------------
(***************************************************************************)
(* The four handlers of bmc/answer_service/app.py, run by concurrent       *)
(* threads of one process: /answer, /firstboot, /firstboot-credentials and *)
(* /webhook.  A handler is a sequence of steps, each at most one access to *)
(* the key store, to Nautobot or to the secrets volume; what it read in an *)
(* earlier step (the Device's custom fields above all) is what it uses in  *)
(* a later one.  Who sends the requests is in InstallLoop.                 *)
(*                                                                         *)
(* Data kept: of the Device's custom fields, provisioning_state and        *)
(* whether secrets_group is set; of a token, its number.  The checks of a  *)
(* record that refuse without changing anything (role, host name, profile, *)
(* gateway, MAC, context) are one refusal, SotRefuses.                     *)
(***************************************************************************)
EXTENDS KeyStore

CONSTANTS
  MaxTokens,   \* bound: API tokens created by the nodes in a behaviour
  MaxFaults    \* bound: faults (API errors, lost replies, restarts, ...)

ASSUME AnswerServiceAssumption == Serials # {} /\ MaxTokens \in Nat /\ MaxFaults \in Nat

VARIABLES
  req,      \* the request each thread serves
  device,   \* [Serials -> custom fields], in Nautobot
  vault,    \* [Serials -> the node's token files and its Secrets records]
  faults,   \* faults so far
  done      \* history: keys whose step has had its durable effect

svcVars == <<req, device, vault, faults, done>>

States == {"awaiting_install", "bm_installed", "baseline_done"}

CustomFields == [state : States, group : BOOLEAN]

KeyOrNone == 0..MaxKeys
TokenOrNone == 0..MaxTokens

Vault == [token : TokenOrNone, recorded : BOOLEAN]

(* Where a request is: "free", then the steps of its handler, then         *)
(* "replied" until the client has taken the reply or has gone.             *)
AnswerSteps == {"ans_read", "ans_fb", "ans_fb_save", "ans_wh", "ans_wh_save"}
ScriptSteps == {"fb_peek", "fb_read", "fb_cred", "fb_cred_save", "fb_spend", "fb_spend_save"}
CredSteps == {"cr_peek", "cr_read", "cr_files", "cr_records", "cr_patch", "cr_spend", "cr_spend_save"}
WebhookSteps == {"wh_peek", "wh_read", "wh_patch", "wh_spend", "wh_spend_save"}
Steps == AnswerSteps \union ScriptSteps \union CredSteps \union WebhookSteps

Outcomes == {"ok", "refused", "error"}

Request == [at : Steps \union {"free", "replied"}, serial : Serials, key : KeyOrNone,
            token : TokenOrNone, cf : CustomFields, new : KeyOrNone, out : Outcomes]

(* State and group are what a new Device has in Nautobot once the operator *)
(* has set the intent; the values of a free request are never read.        *)
NewDevice == [state |-> "awaiting_install", group |-> FALSE]

FreeRequest == [at |-> "free", serial |-> CHOOSE s \in Serials : TRUE, key |-> 0,
                token |-> 0, cf |-> NewDevice, new |-> 0, out |-> "ok"]

SvcInit ==
  /\ KeyInit
  /\ req = [t \in Threads |-> FreeRequest]
  /\ device = [s \in Serials |-> NewDevice]
  /\ vault = [s \in Serials |-> [token |-> 0, recorded |-> FALSE]]
  /\ faults = 0
  /\ done = {}

-----------------------------------------------------------------------------
(* Shapes that the steps share *)
At(t, step) == req[t].at = step

Goto(t, step) == req' = [req EXCEPT ![t].at = step]

Reply(t, outcome) == req' = [req EXCEPT ![t].at = "replied", ![t].out = outcome]

Fault == faults < MaxFaults /\ faults' = faults + 1


(* A request arrives: the thread starts its handler at step first. *)
Arrive(t, first, s, k, tok) ==
  /\ At(t, "free")
  /\ req' = [req EXCEPT ![t] = [FreeRequest EXCEPT !.at = first, !.serial = s,
                                                   !.key = k, !.token = tok]]
  /\ UNCHANGED <<device, vault, keyVars, done>>

(* peek_key before any fallible work: 403, also to a valid key when the    *)
(* file cannot be read (it then counts as empty), or on to the next step   *)
PeekKey(t, step, purpose, next) ==
  /\ At(t, step)
  /\ PeekEnabled
  /\ \/ Peek(req[t].key, req[t].serial, purpose) /\ Goto(t, next)
     \/ (Peek(req[t].key, req[t].serial, purpose) => ReadFaults) /\ Reply(t, "refused")
  /\ UNCHANGED <<device, vault, faults, keyVars, done>>

(* device_by_serial: the handler keeps the Device as it is now *)
ReadDevice(t, step, next) ==
  /\ At(t, step)
  /\ req' = [req EXCEPT ![t].at = next, ![t].cf = device[req[t].serial]]
  /\ UNCHANGED <<device, vault, faults, keyVars, done>>

(* one half of a critical section of the key store *)
EnterSection(t, step, next) ==
  /\ At(t, step)
  /\ LoadKeys(t)
  /\ Goto(t, next)
  /\ UNCHANGED <<device, vault, faults, done>>

(* consume_key at the end of a handler; what it returns is not looked at *)
SpendKey(t, step, purpose) ==
  /\ At(t, step)
  /\ \/ SaveConsumed(t, req[t].key, req[t].serial, purpose)
     \/ ~Valid(loaded[t], req[t].key, req[t].serial, purpose) /\ LeaveSection(t)
  /\ Reply(t, "ok")
  /\ UNCHANGED <<device, vault, faults, done>>

-----------------------------------------------------------------------------
(* POST /answer.  Only a Device that awaits an install is answered. *)
AnswerRead(t) ==
  /\ At(t, "ans_read")
  /\ IF device[req[t].serial].state = "awaiting_install"
       THEN Goto(t, "ans_fb") ELSE Reply(t, "refused")
  /\ UNCHANGED <<device, vault, faults, keyVars, done>>

(* the firstboot key, then the webhook key, each its own critical section; *)
(* the answer that leaves carries both.                                    *)
AnswerFirstbootKey(t) ==
  \/ EnterSection(t, "ans_fb", "ans_fb_save")
  \/ /\ At(t, "ans_fb_save")
     /\ SaveIssued(t, req[t].serial, "firstboot")
     /\ req' = [req EXCEPT ![t].at = "ans_wh", ![t].key = issued + 1]
     /\ UNCHANGED <<device, vault, faults, done>>

AnswerWebhookKey(t) ==
  \/ EnterSection(t, "ans_wh", "ans_wh_save")
  \/ /\ At(t, "ans_wh_save")
     /\ SaveIssued(t, req[t].serial, "webhook")
     /\ req' = [req EXCEPT ![t].at = "replied", ![t].out = "ok", ![t].new = issued + 1]
     /\ UNCHANGED <<device, vault, faults, done>>

Answer(t) == AnswerRead(t) \/ AnswerFirstbootKey(t) \/ AnswerWebhookKey(t)

(* mutant: fetching the script counts as the proof of the install *)
FirstbootConfirms(t) ==
  \/ EnterSection(t, "fb_cred", "fb_cred_save")
  \/ /\ At(t, "fb_cred_save")
     /\ SaveIssued(t, req[t].serial, "credentials")
     /\ req' = [req EXCEPT ![t].at = "fb_spend", ![t].new = issued + 1]
     /\ device' = [device EXCEPT ![req[t].serial].state = "bm_installed"]
     /\ done' = done \union {req[t].key}
     /\ UNCHANGED <<vault, faults>>

(* GET /firstboot: peek, read, mint the credentials key, render, and only  *)
(* then spend the firstboot key.                                           *)
FirstbootCredentialsKey(t) ==
  \/ EnterSection(t, "fb_cred", "fb_cred_save")
  \/ /\ At(t, "fb_cred_save")
     /\ SaveIssued(t, req[t].serial, "credentials")
     /\ req' = [req EXCEPT ![t].at = "fb_spend", ![t].new = issued + 1]
     /\ done' = done \union {req[t].key}
     /\ UNCHANGED <<device, vault, faults>>

FirstbootSpend(t) ==
  \/ EnterSection(t, "fb_spend", "fb_spend_save")
  \/ SpendKey(t, "fb_spend_save", "firstboot")

Firstboot(t) ==
  \/ PeekKey(t, "fb_peek", "firstboot", "fb_read")
  \/ ReadDevice(t, "fb_read", "fb_cred")
  \/ FirstbootCredentialsKey(t)
  \/ FirstbootSpend(t)

(* mutant: token files that exist are not replaced *)
WriteTokenFilesOnce(t) ==
  /\ At(t, "cr_files")
  /\ vault' = [vault EXCEPT ![req[t].serial].token = IF @ = 0 THEN req[t].token ELSE @]
  /\ Goto(t, "cr_records")
  /\ UNCHANGED <<device, faults, keyVars, done>>

(* mutant: the Device is patched before the records that it will name *)
WriteTokenFilesOnly(t) ==
  /\ At(t, "cr_files")
  /\ vault' = [vault EXCEPT ![req[t].serial].token = req[t].token]
  /\ Goto(t, "cr_patch")
  /\ UNCHANGED <<device, faults, keyVars, done>>

(* POST /firstboot-credentials: the token files are written before the     *)
(* Secrets and the group that name them, and those before the Device.      *)
WriteTokenFiles(t) ==
  /\ At(t, "cr_files")
  /\ vault' = [vault EXCEPT ![req[t].serial].token = req[t].token]
  /\ Goto(t, "cr_records")
  /\ UNCHANGED <<device, faults, keyVars, done>>

WriteSecretRecords(t) ==
  /\ At(t, "cr_records")
  /\ vault' = [vault EXCEPT ![req[t].serial].recorded = TRUE]
  /\ Goto(t, "cr_patch")
  /\ UNCHANGED <<device, faults, keyVars, done>>

(* mutant: the state goes back to what was read *)
CredentialsFieldsStale(cf) == [cf EXCEPT !.group = TRUE]

(* the PATCH sends every custom field as read at the start of the handler, *)
(* with the group set and an awaited install confirmed                     *)
CredentialsFields(cf) ==
  [cf EXCEPT !.group = TRUE,
             !.state = IF @ = "awaiting_install" THEN "bm_installed" ELSE @]

PatchCredentials(t) ==
  /\ At(t, "cr_patch")
  /\ device' = [device EXCEPT ![req[t].serial] = CredentialsFields(req[t].cf)]
  /\ done' = done \union {req[t].key}
  /\ \/ Goto(t, "cr_spend") /\ UNCHANGED faults
     \/ Reply(t, "error") /\ Fault        \* applied, but the reply was lost
  /\ UNCHANGED <<vault, keyVars>>

CredentialsSpend(t) ==
  \/ EnterSection(t, "cr_spend", "cr_spend_save")
  \/ SpendKey(t, "cr_spend_save", "credentials")

Credentials(t) ==
  \/ PeekKey(t, "cr_peek", "credentials", "cr_read")
  \/ ReadDevice(t, "cr_read", "cr_files")
  \/ WriteTokenFiles(t)
  \/ WriteSecretRecords(t)
  \/ PatchCredentials(t)
  \/ CredentialsSpend(t)

(* POST /webhook: PATCH only if the Device was awaiting when it was read *)
WebhookFields(cf) == [cf EXCEPT !.state = "bm_installed"]

PatchWebhook(t) ==
  /\ At(t, "wh_patch")
  /\ req[t].cf.state = "awaiting_install"
  /\ device' = [device EXCEPT ![req[t].serial] = WebhookFields(req[t].cf)]
  /\ done' = done \union {req[t].key}
  /\ \/ Goto(t, "wh_spend") /\ UNCHANGED faults
     \/ Reply(t, "error") /\ Fault
  /\ UNCHANGED <<vault, keyVars>>

WebhookAlreadyKnown(t) ==
  /\ At(t, "wh_patch")
  /\ req[t].cf.state # "awaiting_install"
  /\ done' = done \union {req[t].key}
  /\ Goto(t, "wh_spend")
  /\ UNCHANGED <<device, vault, faults, keyVars>>

WebhookSpend(t) ==
  \/ EnterSection(t, "wh_spend", "wh_spend_save")
  \/ SpendKey(t, "wh_spend_save", "webhook")

Webhook(t) ==
  \/ PeekKey(t, "wh_peek", "webhook", "wh_read")
  \/ ReadDevice(t, "wh_read", "wh_patch")
  \/ PatchWebhook(t)
  \/ WebhookAlreadyKnown(t)
  \/ WebhookSpend(t)

-----------------------------------------------------------------------------
(* Failures.  A call to Nautobot that fails, a record that does not satisfy *)
(* the contract, or a key file that cannot be written ends the handler with *)
(* an HTTP error; what earlier steps did stays.                             *)
CallsNautobot ==
  {"ans_read", "fb_read", "cr_read", "cr_records", "cr_patch", "wh_read", "wh_patch"}

(* mutant: the PATCH's failure is logged and the key is spent all the same *)
NautobotFailsUnnoticed(t) ==
  /\ req[t].at \in CallsNautobot
  /\ IF At(t, "cr_patch") THEN Goto(t, "cr_spend") ELSE Reply(t, "error")
  /\ Fault
  /\ UNCHANGED <<device, vault, keyVars, done>>

NautobotFails(t) ==
  /\ req[t].at \in CallsNautobot
  /\ Reply(t, "error")
  /\ Fault
  /\ UNCHANGED <<device, vault, keyVars, done>>

SotRefuses(t) ==
  /\ req[t].at \in {"ans_fb", "fb_cred", "cr_files", "wh_patch"}
  /\ Reply(t, "refused")
  /\ Fault
  /\ UNCHANGED <<device, vault, keyVars, done>>

KeyWriteFails(t) ==
  /\ LeaveSection(t)
  /\ Reply(t, "error")
  /\ Fault
  /\ UNCHANGED <<device, vault, done>>

(* The container restarts: requests in progress end without a reply. *)
Restart ==
  /\ Fault
  /\ KeyRestart
  /\ req' = [t \in Threads |-> FreeRequest]
  /\ UNCHANGED <<device, vault, done>>

Serve(t) == Answer(t) \/ Firstboot(t) \/ Credentials(t) \/ Webhook(t)

Breaks(t) == NautobotFails(t) \/ SotRefuses(t) \/ KeyWriteFails(t)

(* a key's time runs out; counted with the faults, which bounds it *)
TtlElapses ==
  /\ \E k \in Keys : Elapse(k)
  /\ Fault
  /\ UNCHANGED <<req, device, vault, done>>

-----------------------------------------------------------------------------
SvcTypeOK ==
  /\ KeyTypeOK
  /\ req \in [Threads -> Request]
  /\ device \in [Serials -> CustomFields]
  /\ vault \in [Serials -> Vault]
  /\ faults \in 0..MaxFaults
  /\ done \in SUBSET KeyOrNone

(* A key is spent only after its step's effect is durable: no failure at   *)
(* any point of a handler burns a key whose work was not done.             *)
SpentAfterEffect == spent \subseteq done

(* A Device whose secrets_group is set names a group that exists, over     *)
(* token files that were written: a deploy that follows the custom field   *)
(* never finds a dangling name, wherever a phone-home stopped.             *)
NamedGroupExists ==
  \A s \in Serials : device[s].group => vault[s].recorded /\ vault[s].token # 0
=============================================================================
