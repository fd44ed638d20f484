------------------------------ MODULE InstallLoop ------------------------------
(***************************************************************************)
(* The bare-metal install loop: machines that boot the automated installer *)
(* and then their firstboot script (templates/firstboot.sh.j2), the answer *)
(* service that serves them (AnswerService), and the other writers of the  *)
(* Device's custom fields: the operator, and two jobs that save the copy   *)
(* of the Device they were started with, Host Baseline                     *)
(* (jobs/baremetal/host_baseline.py) and, for a nested VM, Install Node    *)
(* (jobs/baremetal/install_node.py; InstallJob has the rest of that job).  *)
(*                                                                         *)
(* The installer itself is not in the repository: what is modelled of it   *)
(* is the order of its requests, as the answer file asks for them.         *)
(***************************************************************************)
EXTENDS AnswerService

CONSTANTS
  Attempts,       \* phone-home attempts of one run of the script (10 in the code)
  MaxArms,        \* bound: times the operator asks for an install of a Device
  MaxBoots,       \* bound: times a machine boots the installer
  BaselineRuns,   \* whether the Host Baseline job takes part
  Nested          \* the machines that are nested VMs, made by the Install Node job

ASSUME InstallLoopAssumption ==
  /\ Attempts \in Nat \ {0}
  /\ MaxArms \in Nat \ {0}
  /\ MaxBoots \in Nat
  /\ BaselineRuns \in BOOLEAN
  /\ Nested \subseteq Serials

VARIABLES
  node,       \* what each machine is doing
  disk,       \* what is installed on it
  tokens,     \* API tokens created so far, by all nodes
  arms,       \* [Serials -> how often an install has been asked for]
  installed,  \* history: [Serials -> the last request whose install got to the disk]
  job,        \* [Serials -> the Device as a running Host Baseline job loaded it]
  nested      \* [Serials -> the Install Node job of a nested VM, with its Device]

loopVars == <<node, disk, tokens, arms, installed, job, nested>>

vars == <<keyVars, svcVars, loopVars>>

(* "off" waits for somebody to boot it: also a machine whose installer or  *)
(* script has ended in an error, which stands as it is.                    *)
Phases ==
  {"off", "installer", "answered", "fetched", "written", "rebooting", "booted", "phoning"}

Node == [phase : Phases, on : Threads \union {NoThread}, fbKey : KeyOrNone,
         whKey : KeyOrNone, credKey : KeyOrNone, tries : 0..Attempts, boots : 0..MaxBoots]

(* script: the firstboot script's state, which outlives a reboot.  The     *)
(* proxmox-first-boot package runs a script that has not completed again   *)
(* at the next boot, and is purged by the script's last line.              *)
Disk == [credKey : KeyOrNone, token : TokenOrNone, script : {"none", "pending", "complete"}]

NoJob == [state |-> "no_job", group |-> FALSE]

(* The Install Node job before it makes the VM, and before it saves. *)
Install == [at : {"none", "deliver", "save"}, cf : CustomFields]

NoInstall == [at |-> "none", cf |-> NewDevice]

NewNode(phase, boots) ==
  [phase |-> phase, on |-> NoThread, fbKey |-> 0, whKey |-> 0, credKey |-> 0, tries |-> 0,
   boots |-> boots]

NewDisk == [credKey |-> 0, token |-> 0, script |-> "none"]

LoopInit ==
  /\ SvcInit
  /\ node = [s \in Serials |-> NewNode("off", 0)]
  /\ disk = [s \in Serials |-> NewDisk]
  /\ tokens = 0
  /\ arms = [s \in Serials |-> 1]
  /\ installed = [s \in Serials |-> 0]
  /\ job = [s \in Serials |-> NoJob]
  /\ nested = [s \in Serials |-> NoInstall]

-----------------------------------------------------------------------------
(* One client waits for at most one request; a thread whose client has not *)
(* taken the reply is not reused.                                          *)
Waiting(s) == node[s].on # NoThread

Unattended(t) == \A s \in Serials : node[s].on # t

Post(s, t, first, k, tok) ==
  /\ ~Waiting(s)
  /\ Unattended(t)
  /\ Arrive(t, first, s, k, tok)

TakesReply(s, t) == node[s].on = t /\ At(t, "replied")

(* What the client of thread t does with the reply; nobody waiting, it is  *)
(* dropped.  A free thread that is waited for was lost in a restart.       *)
Free(t) ==
  /\ req' = [req EXCEPT ![t] = FreeRequest]
  /\ UNCHANGED <<keyVars, device, vault, faults, done>>

DropReply(t) ==
  /\ At(t, "replied")
  /\ Unattended(t)
  /\ Free(t)
  /\ UNCHANGED loopVars

(* The client stops waiting: on its own timeout, while the handler goes on *)
(* unknowing, or because a restart of the service reset the connection.    *)
ConnectionReset(s) ==
  /\ Waiting(s)
  /\ At(node[s].on, "free")
  /\ UNCHANGED <<keyVars, svcVars>>

TimesOut(s) ==
  /\ Waiting(s)
  /\ ~At(node[s].on, "free")
  /\ Fault
  /\ UNCHANGED <<keyVars, req, device, vault, done>>

-----------------------------------------------------------------------------
(* The machine boots the installer, whatever its Device's state. *)
BootInstaller(s) ==
  /\ node[s].phase \in {"off", "rebooting"}
  /\ node[s].boots < MaxBoots
  /\ node' = [node EXCEPT ![s].phase = "installer", ![s].boots = @ + 1]
  /\ UNCHANGED <<keyVars, svcVars, disk, tokens, arms, installed, job, nested>>

AskAnswer(s, t) ==
  /\ node[s].phase = "installer"
  /\ Post(s, t, "ans_read", 0, 0)
  /\ node' = [node EXCEPT ![s].on = t]
  /\ UNCHANGED <<faults, disk, tokens, arms, installed, job, nested>>

GetAnswer(s, t) ==
  /\ node[s].phase = "installer"
  /\ TakesReply(s, t)
  /\ Free(t)
  /\ node' = [node EXCEPT ![s].on = NoThread,
                ![s].phase = IF req[t].out = "ok" THEN "answered" ELSE "off",
                ![s].fbKey = req[t].key, ![s].whKey = req[t].new]
  /\ UNCHANGED <<disk, tokens, arms, installed, job, nested>>

FetchScript(s, t) ==
  /\ node[s].phase = "answered"
  /\ Post(s, t, "fb_peek", node[s].fbKey, 0)
  /\ node' = [node EXCEPT ![s].on = t]
  /\ UNCHANGED <<faults, disk, tokens, arms, installed, job, nested>>

GetScript(s, t) ==
  /\ node[s].phase = "answered"
  /\ TakesReply(s, t)
  /\ Free(t)
  /\ node' = [node EXCEPT ![s].on = NoThread,
                ![s].phase = IF req[t].out = "ok" THEN "fetched" ELSE "off",
                ![s].credKey = req[t].new]
  /\ UNCHANGED <<disk, tokens, arms, installed, job, nested>>

(* reboot-mode, once the disk is written: a nested VM is switched off, and *)
(* it is its job that starts it again.                                     *)
AfterInstall(s) == IF s \in Nested THEN "off" ELSE "rebooting"

(* An installer that gets no reply aborts (reboot-on-error is false),      *)
(* except that nothing depends on the webhook's; a phone-home without a    *)
(* reply is a failed attempt.                                              *)
WithoutReply(s) ==
  /\ node' = [node EXCEPT ![s].on = NoThread,
                ![s].phase = CASE @ = "phoning" -> "phoning"
                               [] @ = "written" -> AfterInstall(s)
                               [] OTHER -> "off"]
  /\ UNCHANGED <<disk, tokens, arms, installed, job, nested>>

(* The old system, its token and its script are gone.  That takes minutes, *)
(* after which the job that started a nested VM has long saved its vmid.   *)
WriteDisk(s) ==
  /\ node[s].phase = "fetched"
  /\ nested[s].at # "save"
  /\ disk' = [disk EXCEPT ![s] = [credKey |-> node[s].credKey, token |-> 0,
                                  script |-> "pending"]]
  /\ installed' = [installed EXCEPT ![s] = arms[s]]
  /\ node' = [node EXCEPT ![s].phase = "written"]
  /\ UNCHANGED <<keyVars, svcVars, tokens, arms, job, nested>>

PostWebhook(s, t) ==
  /\ node[s].phase = "written"
  /\ Post(s, t, "wh_peek", node[s].whKey, 0)
  /\ node' = [node EXCEPT ![s].on = t]
  /\ UNCHANGED <<faults, disk, tokens, arms, installed, job, nested>>

(* whatever the webhook's fate, the installer then leaves *)
LeaveInstaller(s, t) ==
  /\ node[s].phase = "written"
  /\ TakesReply(s, t)
  /\ Free(t)
  /\ WithoutReply(s)

-----------------------------------------------------------------------------
(* The installed system boots.  A phone-home request of an earlier boot    *)
(* that has not yet written the token files is over by then: that part of  *)
(* the handler is one Nautobot read of at most 30 seconds.                 *)
Settled(s) ==
  \A t \in Threads : req[t].serial = s => req[t].at \notin {"cr_peek", "cr_read", "cr_files"}

BootSystem(s) ==
  /\ node[s].phase = "rebooting"
  /\ disk[s].script = "pending"
  /\ Settled(s)
  /\ node' = [node EXCEPT ![s].phase = "booted"]
  /\ UNCHANGED <<keyVars, svcVars, disk, tokens, arms, installed, job, nested>>

(* Somebody starts a machine that is off or stands after an error, which   *)
(* runs a script that has not completed again: the operator, or the job of *)
(* a nested VM (finalize_boot_from_disk).  Bound: while it can get a token. *)
PowerOn(s) ==
  /\ node[s].phase = "off"
  /\ disk[s].script = "pending"
  /\ tokens < MaxTokens
  /\ node' = [node EXCEPT ![s].phase = "rebooting"]
  /\ UNCHANGED <<keyVars, svcVars, disk, tokens, arms, installed, job, nested>>

(* pveum: a token of that name is removed, then a new one is added *)
RotateToken(s) ==
  /\ node[s].phase = "booted"
  /\ tokens < MaxTokens
  /\ tokens' = tokens + 1
  /\ disk' = [disk EXCEPT ![s].token = tokens + 1]
  /\ node' = [node EXCEPT ![s].phase = "phoning", ![s].tries = 0]
  /\ UNCHANGED <<keyVars, svcVars, arms, installed, job, nested>>

(* mutant: one attempt too many *)
PhoneHomeOnceMore(s, t) ==
  /\ node[s].phase = "phoning"
  /\ node[s].tries <= Attempts
  /\ Post(s, t, "cr_peek", disk[s].credKey, disk[s].token)
  /\ node' = [node EXCEPT ![s].on = t, ![s].tries = @ + 1]
  /\ UNCHANGED <<faults, disk, tokens, arms, installed, job, nested>>

PhoneHome(s, t) ==
  /\ node[s].phase = "phoning"
  /\ node[s].tries < Attempts
  /\ Post(s, t, "cr_peek", disk[s].credKey, disk[s].token)
  /\ node' = [node EXCEPT ![s].on = t, ![s].tries = @ + 1]
  /\ UNCHANGED <<faults, disk, tokens, arms, installed, job, nested>>

(* HTTP 200 ends the loop; the rest of the script cannot fail, and its     *)
(* last line removes it.  Any other status is retried like a timeout.      *)
PhoneHomeReply(s, t) ==
  /\ node[s].phase = "phoning"
  /\ TakesReply(s, t)
  /\ Free(t)
  /\ IF req[t].out = "ok"
       THEN /\ disk' = [disk EXCEPT ![s].script = "complete"]
            /\ node' = [node EXCEPT ![s].on = NoThread, ![s].phase = "off"]
       ELSE /\ node' = [node EXCEPT ![s].on = NoThread]
            /\ UNCHANGED disk
  /\ UNCHANGED <<tokens, arms, installed, job, nested>>

(* "phone-home failed after 10 attempts": the script exits, still pending, *)
(* and runs again at the next boot, which nobody makes happen              *)
ScriptFails(s) ==
  /\ node[s].phase = "phoning"
  /\ node[s].tries = Attempts
  /\ ~Waiting(s)
  /\ node' = [node EXCEPT ![s].phase = "off"]
  /\ UNCHANGED <<keyVars, svcVars, disk, tokens, arms, installed, job, nested>>

(* the script dies with the node before it has phoned home *)
PowerLoss(s) ==
  /\ node[s].phase \in {"booted", "phoning"}
  /\ ~Waiting(s)
  /\ Fault
  /\ node' = [node EXCEPT ![s].phase = "off"]
  /\ UNCHANGED <<keyVars, req, device, vault, done>>
  /\ UNCHANGED <<disk, tokens, arms, installed, job, nested>>

-----------------------------------------------------------------------------
(* The operator sets the intent of a reinstall. *)
Arm(s) ==
  /\ device[s].state # "awaiting_install"
  /\ arms[s] < MaxArms
  /\ arms' = [arms EXCEPT ![s] = @ + 1]
  /\ device' = [device EXCEPT ![s].state = "awaiting_install"]
  /\ UNCHANGED <<keyVars, req, vault, faults, done>>
  /\ UNCHANGED <<node, disk, tokens, installed, job, nested>>

(* The Host Baseline job holds the Device it was started with until its    *)
(* last step, which saves all of its custom fields.  (A job on a Device    *)
(* that is baseline_done already saves nothing, and is left out.)          *)
StartBaseline(s) ==
  /\ BaselineRuns
  /\ job[s] = NoJob
  /\ device[s].state = "bm_installed"
  /\ job' = [job EXCEPT ![s] = device[s]]
  /\ UNCHANGED <<keyVars, svcVars, node, disk, tokens, arms, installed, nested>>

EndBaseline(s) ==
  /\ job[s] # NoJob
  /\ job' = [job EXCEPT ![s] = NoJob]
  /\ \/ /\ job[s].state = "bm_installed"
        /\ device' = [device EXCEPT ![s] = [job[s] EXCEPT !.state = "baseline_done"]]
     \/ UNCHANGED device            \* an earlier step failed: nothing is saved
  /\ UNCHANGED <<keyVars, req, vault, faults, done>>
  /\ UNCHANGED <<node, disk, tokens, arms, installed, nested>>

(* The Install Node job loads a Device that awaits an install and, for a   *)
(* nested VM, makes the VM before it saves the vmid, and with it all the   *)
(* custom fields as it loaded them.                                        *)
StartNested(s) ==
  /\ s \in Nested
  /\ nested[s].at = "none"
  /\ device[s].state = "awaiting_install"
  /\ nested' = [nested EXCEPT ![s] = [at |-> "deliver", cf |-> device[s]]]
  /\ UNCHANGED <<keyVars, svcVars, node, disk, tokens, arms, installed, job>>

(* The VM of an earlier run is destroyed and a new one made and started,   *)
(* with an empty disk; or that fails half-way, with no VM left.            *)
RecreateVm(s) ==
  /\ nested[s].at = "deliver"
  /\ disk' = [disk EXCEPT ![s] = NewDisk]
  /\ \/ /\ node[s].boots < MaxBoots
        /\ node' = [node EXCEPT ![s] = NewNode("installer", node[s].boots + 1)]
        /\ nested' = [nested EXCEPT ![s].at = "save"]
     \/ /\ node' = [node EXCEPT ![s] = NewNode("off", node[s].boots)]
        /\ nested' = [nested EXCEPT ![s] = NoInstall]
  /\ UNCHANGED <<keyVars, svcVars, tokens, arms, installed, job>>

(* device.validated_save() with the vmid; the rest of the job only reads *)
SaveVmid(s) ==
  /\ nested[s].at = "save"
  /\ device' = [device EXCEPT ![s] = nested[s].cf]
  /\ nested' = [nested EXCEPT ![s] = NoInstall]
  /\ UNCHANGED <<keyVars, req, vault, faults, done>>
  /\ UNCHANGED <<node, disk, tokens, arms, installed, job>>

(* the job fails or dies before it has saved *)
NestedDies(s) ==
  /\ nested[s].at # "none"
  /\ nested' = [nested EXCEPT ![s] = NoInstall]
  /\ UNCHANGED <<keyVars, svcVars, node, disk, tokens, arms, installed, job>>

-----------------------------------------------------------------------------
Machine(s) ==
  \/ \E t \in Threads :
       \/ AskAnswer(s, t) \/ GetAnswer(s, t)
       \/ FetchScript(s, t) \/ GetScript(s, t)
       \/ PostWebhook(s, t) \/ LeaveInstaller(s, t)
       \/ PhoneHome(s, t) \/ PhoneHomeReply(s, t)
  \/ WriteDisk(s)
  \/ BootSystem(s)
  \/ RotateToken(s)
  \/ ScriptFails(s)
  \/ ConnectionReset(s) /\ WithoutReply(s)

ClientTimeout(s) == TimesOut(s) /\ WithoutReply(s)

Service(t) == Serve(t) /\ UNCHANGED loopVars

ServiceFault == ((\E t \in Threads : Breaks(t)) \/ Restart \/ TtlElapses) /\ UNCHANGED loopVars

Next ==
  \/ \E t \in Threads : Service(t) \/ DropReply(t)
  \/ \E s \in Serials :
       \/ Machine(s) \/ ClientTimeout(s) \/ PowerLoss(s)
       \/ BootInstaller(s) \/ PowerOn(s) \/ Arm(s)
       \/ StartBaseline(s) \/ EndBaseline(s)
       \/ StartNested(s) \/ RecreateVm(s) \/ SaveVmid(s) \/ NestedDies(s)
  \/ ServiceFault

Spec == LoopInit /\ [][Next]_vars

(* The service's threads run and a machine that boots goes on, up to where *)
(* it switches itself off or its script gives up.  Nothing makes an        *)
(* operator arm a Device, boot a machine or start a job, and nothing makes *)
(* a fault happen.                                                         *)
Fairness ==
  /\ \A t \in Threads : SF_vars(Service(t)) /\ WF_vars(DropReply(t))
  /\ \A s \in Serials : WF_vars(Machine(s))

FairSpec == Spec /\ Fairness

-----------------------------------------------------------------------------
LoopTypeOK ==
  /\ SvcTypeOK
  /\ node \in [Serials -> Node]
  /\ disk \in [Serials -> Disk]
  /\ tokens \in TokenOrNone
  /\ arms \in [Serials -> 1..MaxArms]
  /\ installed \in [Serials -> 0..MaxArms]
  /\ job \in [Serials -> CustomFields \union {NoJob}]
  /\ nested \in [Serials -> Install]

(* The gate of a machine that has been installed is opened by the operator *)
(* alone: no handler that finishes late and no save of the Host Baseline   *)
(* job writes awaiting_install back over a confirmed install (a machine    *)
(* that boots installer media by accident would be wiped).  The Install    *)
(* Node job does write it back when it saves the vmid of a nested VM, but  *)
(* over a VM that it has just made, with nothing on its disk.              *)
InstalledStaysClosed ==
  [][\A s \in Serials :
       device[s].state # "awaiting_install" /\ device'[s].state = "awaiting_install"
         => Arm(s) \/ (SaveVmid(s) /\ disk[s].script = "none")]_vars

(* A Device of a first install that is past awaiting_install has been      *)
(* installed: no retry, late handler or restart confirms an install before *)
(* one got to the disk.  (Once the operator has armed again, or a job has  *)
(* made a nested VM anew, a request of the old system can.)                *)
InstalledIsProven ==
  \A s \in Serials :
    arms[s] = 1 /\ device[s].state # "awaiting_install" => installed[s] = 1

(* A node whose script has completed left Nautobot able to reach it: the   *)
(* stored token is the one on the node, its records exist, and the install *)
(* gate is closed, however many attempts overlapped.                       *)
CompleteMeansStored ==
  \A s \in Serials : disk[s].script = "complete" /\ installed[s] = arms[s] =>
    /\ vault[s].token = disk[s].token
    /\ vault[s].recorded
    /\ device[s].state # "awaiting_install"

(* "Everything durable - only now is the one-time key spent" (app.py): the *)
(* group that a phone-home stored stays named by the Device, since nothing *)
(* in the loop clears it.                                                  *)
StoredGroupStays ==
  [][\A s \in Serials : device[s].group => device'[s].group]_vars

(* The loop closes without the webhook: an installed system ends with its  *)
(* Device out of awaiting_install, whether the webhook arrived, failed or  *)
(* was never answered, unless the script's attempts failed too (or the     *)
(* power did) and nobody starts the machine again.                         *)
GateCloses ==
  \A s \in Serials :
    disk[s].script = "pending" ~>
      \/ device[s].state # "awaiting_install"
      \/ [](disk[s].script = "pending" /\ node[s].phase = "off")
=============================================================================
