------------------------------ MODULE MediaForge ------------------------------
(***************************************************************************)
(* The media forge of the answer service (bmc/answer_service/app.py,       *)
(* _prepare_task): each request gets a thread that fetches the stock ISO   *)
(* into a shared cache, prepares installer media from it, publishes the    *)
(* medium under its version's name and registers that version in Nautobot. *)
(* The threads share the cache directory, the publish directory and the    *)
(* records, and no lock.                                                   *)
(*                                                                         *)
(* Data kept: one stock ISO, whose bytes are complete or not; a prepared   *)
(* medium is the task that made it.  Files are inodes behind names, since  *)
(* a thread goes on writing to what another has renamed.                   *)
(***************************************************************************)
EXTENDS Naturals

CONSTANTS
  Tasks,      \* bound: prepare tasks
  Versions,   \* SoftwareVersion names
  None,
  Torn,       \* no file; and the bytes of several media in one
  OneDownload,    \* a download begins only when no other one is under way
  OnePerVersion,  \* a task starts only when no other one of its version runs
  MaxFaults   \* bound: failing downloads, tools and API calls, and restarts

ASSUME ForgeAssumption ==
  /\ None \notin Tasks
  /\ Torn \notin Tasks
  /\ OneDownload \in BOOLEAN
  /\ OnePerVersion \in BOOLEAN
  /\ MaxFaults \in Nat

VARIABLES
  part,       \* the name proxmox-ve_<release>.part
  cache,      \* the name proxmox-ve_<release>.iso
  inode,      \* [Inodes -> who truncated the file last, whether that one has written all of it]
  published,  \* [Versions -> the bytes of proxmox-ve_<version>.iso in the publish directory]
  record,     \* [Versions -> the SoftwareVersion and the medium its ImageFile's checksum is of]
  task,       \* [Tasks -> the thread]
  faults

vars == <<part, cache, inode, published, record, task, faults>>

(* the file a task creates when it finds no .part; None: the one cached at *)
(* the start                                                               *)
Inodes == Tasks \union {None}
Names == Inodes \union {Torn}   \* Torn: there is no file of that name

Inode == [by : Tasks \union {None}, full : BOOLEAN]

Bytes == Tasks \union {None, Torn}   \* None: no medium, or not yet all of one

Record == [exists : BOOLEAN, image : Tasks \union {None}]

Steps == {"new", "check", "cache", "open", "fetch", "verify", "replace", "prepare",
          "copy", "copying", "known", "version", "image"}
Ends == {"success", "error"}

(* fd: the inode it downloads into; pure: whether the medium was made from *)
(* a complete stock ISO                                                    *)
Task == [at : Steps \union Ends, version : Versions, fd : Inodes, pure : BOOLEAN]

Init ==
  /\ part = Torn
  /\ cache \in {None, Torn}
  /\ inode = [i \in Inodes |-> [by |-> None, full |-> TRUE]]
  /\ published = [v \in Versions |-> None]
  /\ record = [v \in Versions |-> [exists |-> FALSE, image |-> None]]
  /\ task \in [Tasks -> {[at |-> "new", version |-> v, fd |-> None, pure |-> FALSE] : v \in Versions}]
  /\ faults = 0

-----------------------------------------------------------------------------
At(t, step) == task[t].at = step
Goto(t, step) == task' = [task EXCEPT ![t].at = step]
Fails(t) == Goto(t, "error")
Fault == faults < MaxFaults /\ faults' = faults + 1

Running(t) == task[t].at \in Steps \ {"new"}

SameFiles == UNCHANGED <<part, cache, inode>>

CacheHolds == cache # Torn /\ inode[cache].full

(* POST /admin/prepare *)
Start(t) ==
  /\ At(t, "new")
  /\ OnePerVersion => \A u \in Tasks : Running(u) => task[u].version # task[t].version
  /\ Goto(t, "check")
  /\ SameFiles
  /\ UNCHANGED <<published, record, faults>>

(* mutant: an existing version is prepared again *)
CheckVersionSkipped(t) ==
  /\ At(t, "check")
  /\ Goto(t, "cache")
  /\ SameFiles
  /\ UNCHANGED <<published, record, faults>>

(* the collision check before the heavy work *)
CheckVersion(t) ==
  /\ At(t, "check")
  /\ IF record[task[t].version].exists THEN Fails(t) ELSE Goto(t, "cache")
  /\ SameFiles
  /\ UNCHANGED <<published, record, faults>>

-----------------------------------------------------------------------------
(* _download_iso *)
(* mutant: a cached file is never reused *)
LookInCacheAnew(t) ==
  /\ At(t, "cache")
  /\ Goto(t, "open")
  /\ SameFiles
  /\ UNCHANGED <<published, record, faults>>

LookInCache(t) ==
  /\ At(t, "cache")
  /\ Goto(t, IF CacheHolds THEN "prepare" ELSE "open")
  /\ SameFiles
  /\ UNCHANGED <<published, record, faults>>

Downloads(t) == task[t].at \in {"fetch", "verify", "replace"}

(* open(tmp, "wb"): the name's file is truncated, or a new one is made *)
OpenPart(t) ==
  /\ At(t, "open")
  /\ OneDownload => \A u \in Tasks : ~Downloads(u)
  /\ LET i == IF part = Torn THEN t ELSE part IN
       /\ part' = i
       /\ inode' = [inode EXCEPT ![i] = [by |-> t, full |-> FALSE]]
       /\ task' = [task EXCEPT ![t].at = "fetch", ![t].fd = i]
  /\ UNCHANGED <<cache, published, record, faults>>

(* the last byte is written.  All tasks write the same bytes, so that the  *)
(* file is complete when the last to truncate it has written all of them.  *)
(* A mirror may also serve something else, or less.                        *)
Fetch(t) ==
  /\ At(t, "fetch")
  /\ \/ /\ inode' = [inode EXCEPT ![task[t].fd].full = @ \/ inode[task[t].fd].by = t]
        /\ UNCHANGED faults
     \/ UNCHANGED inode /\ Fault
  /\ Goto(t, "verify")
  /\ UNCHANGED <<part, cache, published, record>>

(* mutant: what was downloaded is not checked *)
VerifySkipped(t) ==
  /\ At(t, "verify")
  /\ Goto(t, "replace")
  /\ SameFiles
  /\ UNCHANGED <<published, record, faults>>

(* the checksum of what the name .part stands for now; a mismatch removes it *)
Verify(t) ==
  /\ At(t, "verify")
  /\ IF part # Torn /\ inode[part].full
       THEN Goto(t, "replace") /\ UNCHANGED part
       ELSE Fails(t) /\ part' = Torn
  /\ UNCHANGED <<cache, inode, published, record, faults>>

(* os.replace(tmp, dest) *)
Replace(t) ==
  /\ At(t, "replace")
  /\ IF part # Torn
       THEN cache' = part /\ part' = Torn /\ Goto(t, "prepare")
       ELSE Fails(t) /\ UNCHANGED <<part, cache>>
  /\ UNCHANGED <<inode, published, record, faults>>

-----------------------------------------------------------------------------
(* the tool reads the cached ISO; each run makes different bytes *)
Prepare(t) ==
  /\ At(t, "prepare")
  /\ task' = [task EXCEPT ![t].at = "copy", ![t].pure = inode[cache].full]
  /\ SameFiles
  /\ UNCHANGED <<published, record, faults>>

CopiedBy(v) == {u \in Tasks : At(u, "copying") /\ task[u].version = v}

(* shutil.copy2 onto the version's name, in place *)
BeginCopy(t) ==
  /\ At(t, "copy")
  /\ LET v == task[t].version IN
       published' = [published EXCEPT ![v] = IF CopiedBy(v) = {} THEN None ELSE Torn]
  /\ Goto(t, "copying")
  /\ SameFiles
  /\ UNCHANGED <<record, faults>>

(* of copies that overlapped, the last to end may have written every byte *)
EndCopy(t) ==
  /\ At(t, "copying")
  /\ LET v == task[t].version IN
       \/ /\ published[v] = None \/ CopiedBy(v) = {t}
          /\ published' = [published EXCEPT ![v] = t]
       \/ /\ published[v] # None
          /\ published' = [published EXCEPT ![v] = Torn]
  /\ Goto(t, "known")
  /\ SameFiles
  /\ UNCHANGED <<record, faults>>

(* _register_prepared: the collision check again; a refusal or a failure   *)
(* does not lose the prepare                                               *)
CheckKnown(t) ==
  /\ At(t, "known")
  /\ Goto(t, IF record[task[t].version].exists THEN "success" ELSE "version")
  /\ SameFiles
  /\ UNCHANGED <<published, record, faults>>

(* Nautobot refuses a second version of that name on the platform *)
PostVersion(t) ==
  /\ At(t, "version")
  /\ IF record[task[t].version].exists
       THEN Goto(t, "success") /\ UNCHANGED record
       ELSE Goto(t, "image") /\ record' = [record EXCEPT ![task[t].version].exists = TRUE]
  /\ SameFiles
  /\ UNCHANGED <<published, faults>>

PostImage(t) ==
  /\ At(t, "image")
  /\ record' = [record EXCEPT ![task[t].version].image = t]
  /\ Goto(t, "success")
  /\ SameFiles
  /\ UNCHANGED <<published, faults>>

-----------------------------------------------------------------------------
(* mutant: a lost registration is a status of its own *)
BreaksUnregistered(t) ==
  /\ Running(t)
  /\ Fault
  /\ Goto(t, IF task[t].at \in {"known", "version", "image"} THEN "unregistered" ELSE "error")
  /\ SameFiles
  /\ UNCHANGED <<published, record>>

(* a call, the download or the tool fails; from the publication on, only   *)
(* the registration is lost                                                *)
Breaks(t) ==
  /\ Running(t)
  /\ Fault
  /\ IF task[t].at \in {"known", "version", "image"} THEN Goto(t, "success") ELSE Fails(t)
  /\ SameFiles
  /\ UNCHANGED <<published, record>>

(* "tasks do not survive restarts"; the files and the records do *)
Restart ==
  /\ Fault
  /\ task' = [t \in Tasks |-> IF Running(t) THEN [task[t] EXCEPT !.at = "error"] ELSE task[t]]
  /\ SameFiles
  /\ UNCHANGED <<published, record>>

Next ==
  \/ \E t \in Tasks :
       \/ Start(t) \/ CheckVersion(t)
       \/ LookInCache(t) \/ OpenPart(t) \/ Fetch(t) \/ Verify(t) \/ Replace(t)
       \/ Prepare(t) \/ BeginCopy(t) \/ EndCopy(t)
       \/ CheckKnown(t) \/ PostVersion(t) \/ PostImage(t)
       \/ Breaks(t)
  \/ Restart

Spec == Init /\ [][Next]_vars

-----------------------------------------------------------------------------
ForgeTypeOK ==
  /\ part \in Names
  /\ cache \in Names
  /\ inode \in [Inodes -> Inode]
  /\ published \in [Versions -> Bytes]
  /\ record \in [Versions -> Record]
  /\ task \in [Tasks -> Task]
  /\ faults \in 0..MaxFaults

(* Every medium that is published was made from a stock ISO whose checksum *)
(* was right ("SHA256SUMS-verified", prepare_media.py), whatever crashed   *)
(* or wrong downloads left behind and however the rest of the prepares     *)
(* overlaps.                                                               *)
MediaFromVerified ==
  \A v \in Versions : published[v] \in Tasks => task[published[v]].pure

(* "a new prepare can never overwrite the artifact an existing (possibly   *)
(* Active) version's checksum points at" (app.py, _prepare_task).          *)
RecordMatchesFile ==
  \A v \in Versions : record[v].image \in Tasks => published[v] = record[v].image
=============================================================================
