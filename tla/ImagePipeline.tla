---------------------------- MODULE ImagePipeline ----------------------------
(***************************************************************************)
(* How an image gets from the firmware server to a VM's disk: Register     *)
(* Image (jobs/design/register_image.py, jobs/lib/published_set.py) reads  *)
(* a published set and creates the records, an operator promotes the       *)
(* version, and Ingest Image (jobs/proxmox/ingest_image.py) or Deploy      *)
(* (jobs/proxmox/deploy_device.py) has a node pull the file, which it      *)
(* keeps by file name and never hashes again (proxmox_client.ensure_image).*)
(* Runs interleave with each other and with a publisher who replaces a set *)
(* file by file.                                                           *)
(*                                                                         *)
(* A checksum is the content it belongs to; a URL is its file name.        *)
(***************************************************************************)
EXTENDS Naturals, FiniteSets

CONSTANTS
  Files,       \* file names
  Images,      \* contents of artifacts
  Size,        \* [Images -> Nat]
  Versions,    \* SoftwareVersions of one platform
  Nothing,
  Jobs,        \* bound: job runs at a time
  MaxUploads,  \* bound: files that the publisher writes
  Alone        \* one registration at a time

ASSUME ImageAssumption ==
  /\ Nothing \notin Images \union Versions \union Files
  /\ Size \in [Images -> Nat]
  /\ MaxUploads \in Nat
  /\ Alone \in BOOLEAN

VARIABLES
  served,   \* [Files -> the published set]
  status,   \* [Versions -> the SoftwareVersion]
  images,   \* SoftwareImageFiles
  cached,   \* [Files -> content of the volume on the node's import storage]
  work,     \* [Jobs -> the run]
  uploads,
  blessed   \* history: images that a version had when it was promoted

ivars == <<served, status, images, cached, work, uploads, blessed>>

(* template-track manifests claim neither content nor version *)
Claim == [sum : Images, version : Versions]
Silent == [sum |-> Nothing, version |-> Nothing]

PublishedSet == [artifact : Images \union {Nothing}, sidecar : Images \union {Nothing},
                 manifest : Claim \union {Silent, Nothing}]

Image == [version : Versions, file : Files, sum : Images, default : BOOLEAN]

RegisterSteps == {"sidecar", "manifest", "size", "version", "clash", "existing", "insert"}
PullSteps == {"find", "pull", "import"}

Work == [at : RegisterSteps \union PullSteps \union {"idle"}, file : Files \union {Nothing},
         version : Versions \union {Nothing}, sum : Images \union {Nothing},
         manifest : Claim \union {Silent, Nothing}, default : BOOLEAN, deploy : BOOLEAN]

NoWork == [at |-> "idle", file |-> Nothing, version |-> Nothing, sum |-> Nothing,
           manifest |-> Nothing, default |-> FALSE, deploy |-> FALSE]

(* Before the first registration a set is there or not. *)
SetsToStart ==
  {[artifact |-> Nothing, sidecar |-> Nothing, manifest |-> Nothing]}
    \union {[artifact |-> c, sidecar |-> c, manifest |-> Silent] : c \in Images}

ImagesInit ==
  /\ served \in [Files -> SetsToStart]
  /\ status = [v \in Versions |-> "none"]
  /\ images = {}
  /\ cached = [f \in Files |-> Nothing]
  /\ work = [j \in Jobs |-> NoWork]
  /\ uploads = 0
  /\ blessed = {}

-----------------------------------------------------------------------------
WorkAt(j, step) == work[j].at = step
Step(j, next) == work' = [work EXCEPT ![j] = next]
Drop(j) == Step(j, NoWork)

RecordsSame == UNCHANGED <<status, images, blessed>>
OutsideSame == UNCHANGED <<served, cached, uploads>>

ImagesOf(v) == {i \in images : i.version = v}

(* external: the publisher writes one of the three files, again if need be *)
Upload(f) ==
  /\ uploads < MaxUploads
  /\ uploads' = uploads + 1
  /\ \/ \E c \in Images : served' = [served EXCEPT ![f].artifact = c]
     \/ \E c \in Images : served' = [served EXCEPT ![f].sidecar = c]
     \/ \E m \in Claim \union {Silent} : served' = [served EXCEPT ![f].manifest = m]
  /\ RecordsSame
  /\ UNCHANGED <<cached, work>>

-----------------------------------------------------------------------------
(* Register Image. *)
StartRegister(j, f) ==
  /\ WorkAt(j, "idle")
  /\ Alone => \A k \in Jobs : work[k].at \notin RegisterSteps
  /\ Step(j, [NoWork EXCEPT !.at = "sidecar", !.file = f])
  /\ RecordsSame
  /\ OutsideSame

ReadSidecar(j) ==
  /\ WorkAt(j, "sidecar")
  /\ LET sum == served[work[j].file].sidecar IN
       IF sum = Nothing THEN Drop(j) ELSE Step(j, [work[j] EXCEPT !.at = "manifest", !.sum = sum])
  /\ RecordsSame
  /\ OutsideSame

(* resolve_field: the manifest and the job's input, of which one must name *)
(* a version, and both the same                                            *)
ReadManifest(j) ==
  /\ WorkAt(j, "manifest")
  /\ LET manifest == served[work[j].file].manifest IN
       \E input \in Versions \union {Nothing} :
         LET named == {manifest.version, input} \ {Nothing} IN
           IF manifest = Nothing \/ Cardinality(named) # 1
             THEN Drop(j)
             ELSE Step(j, [work[j] EXCEPT !.at = "size", !.manifest = manifest,
                                          !.version = CHOOSE v \in named : TRUE])
  /\ RecordsSame
  /\ OutsideSame

(* check_coherence after the HEAD request *)
Coherent(w, artifact) ==
  /\ artifact # Nothing
  /\ w.manifest.sum # Nothing => w.manifest.sum = w.sum /\ Size[artifact] = Size[w.manifest.sum]

(* verify: the artifact is hashed, if the operator asks for it *)
CheckArtifact(j) ==
  /\ WorkAt(j, "size")
  /\ LET artifact == served[work[j].file].artifact IN
       \E verify \in BOOLEAN :
         IF Coherent(work[j], artifact) /\ (verify => artifact = work[j].sum)
           THEN Step(j, [work[j] EXCEPT !.at = "version", !.manifest = Nothing])
           ELSE Drop(j)
  /\ RecordsSame
  /\ OutsideSame

(* the version is created before the file name is looked at *)
EnsureVersion(j) ==
  /\ WorkAt(j, "version")
  /\ status' = [status EXCEPT ![work[j].version] = IF @ = "none" THEN "Staged" ELSE @]
  /\ Step(j, [work[j] EXCEPT !.at = "clash"])
  /\ UNCHANGED <<images, blessed>>
  /\ OutsideSame

(* mutant: a file name may mean one content per version *)
ClashUnseen(j) ==
  /\ WorkAt(j, "clash")
  /\ Step(j, [work[j] EXCEPT !.at = "existing"])
  /\ RecordsSame
  /\ OutsideSame

(* of the records of other versions under that name, the query's first;    *)
(* records of one name have one sum                                        *)
CheckClash(j) ==
  /\ WorkAt(j, "clash")
  /\ LET others == {i \in images : i.file = work[j].file /\ i.version # work[j].version} IN
       \/ others = {} /\ Step(j, [work[j] EXCEPT !.at = "existing"])
       \/ \E first \in others :
            IF first.sum = work[j].sum THEN Step(j, [work[j] EXCEPT !.at = "existing"]) ELSE Drop(j)
  /\ RecordsSame
  /\ OutsideSame

(* registered already: the same is no-op, another sum is refused *)
CheckExisting(j) ==
  /\ WorkAt(j, "existing")
  /\ LET mine == ImagesOf(work[j].version) IN
       IF \E i \in mine : i.file = work[j].file
         THEN Drop(j)
         ELSE Step(j, [work[j] EXCEPT !.at = "insert", !.default = ~\E i \in mine : i.default])
  /\ RecordsSame
  /\ OutsideSame

(* the database holds a name once per version *)
InsertImage(j) ==
  /\ WorkAt(j, "insert")
  /\ images' = IF \E i \in ImagesOf(work[j].version) : i.file = work[j].file
                 THEN images
                 ELSE images \union {[version |-> work[j].version, file |-> work[j].file,
                                      sum |-> work[j].sum, default |-> work[j].default]}
  /\ Drop(j)
  /\ UNCHANGED <<status, blessed>>
  /\ OutsideSame

-----------------------------------------------------------------------------
(* The operator promotes a version that has an image. *)
Promote(v) ==
  /\ status[v] = "Staged"
  /\ ImagesOf(v) # {}
  /\ status' = [status EXCEPT ![v] = "Active"]
  /\ blessed' = blessed \union ImagesOf(v)
  /\ UNCHANGED <<images, work>>
  /\ OutsideSame

(* Ingest takes any image; Deploy that of an Active version, the default.  *)
StartIngest(j) ==
  /\ WorkAt(j, "idle")
  /\ \E i \in images : Step(j, [NoWork EXCEPT !.at = "find", !.file = i.file, !.sum = i.sum])
  /\ RecordsSame
  /\ OutsideSame

DeployImages(v) ==
  LET defaults == {i \in ImagesOf(v) : i.default} IN IF defaults # {} THEN defaults ELSE ImagesOf(v)

StartPull(j, v) ==
  /\ WorkAt(j, "idle")
  /\ status[v] = "Active"
  /\ \E i \in DeployImages(v) :
       Step(j, [NoWork EXCEPT !.at = "find", !.file = i.file, !.sum = i.sum, !.version = v, !.deploy = TRUE])
  /\ RecordsSame
  /\ OutsideSame

AfterPull(j) == IF work[j].deploy THEN [work[j] EXCEPT !.at = "import"] ELSE NoWork

FindVolume(j) ==
  /\ WorkAt(j, "find")
  /\ Step(j, IF cached[work[j].file] # Nothing THEN AfterPull(j) ELSE [work[j] EXCEPT !.at = "pull"])
  /\ RecordsSame
  /\ OutsideSame

(* external: the node downloads, and discards what does not have the sum   *)
PullImage(j) ==
  /\ WorkAt(j, "pull")
  /\ IF served[work[j].file].artifact = work[j].sum
       THEN cached' = [cached EXCEPT ![work[j].file] = work[j].sum] /\ Step(j, AfterPull(j))
       ELSE UNCHANGED cached /\ Drop(j)
  /\ RecordsSame
  /\ UNCHANGED <<served, uploads>>

(* scsi0, import-from: the create call reads the volume by its name *)
Import(j) ==
  /\ WorkAt(j, "import")
  /\ Drop(j)
  /\ RecordsSame
  /\ OutsideSame

ImagesNext ==
  \/ \E j \in Jobs :
       \/ \E f \in Files : StartRegister(j, f)
       \/ ReadSidecar(j) \/ ReadManifest(j) \/ CheckArtifact(j) \/ EnsureVersion(j)
       \/ CheckClash(j) \/ CheckExisting(j) \/ InsertImage(j)
       \/ StartIngest(j)
       \/ \E v \in Versions : StartPull(j, v)
       \/ FindVolume(j) \/ PullImage(j) \/ Import(j)
  \/ \E f \in Files : Upload(f)
  \/ \E v \in Versions : Promote(v)

ImagesSpec == ImagesInit /\ [][ImagesNext]_ivars

-----------------------------------------------------------------------------
ImagesTypeOK ==
  /\ served \in [Files -> PublishedSet]
  /\ status \in [Versions -> {"none", "Staged", "Active"}]
  /\ images \subseteq Image
  /\ cached \in [Files -> Images \union {Nothing}]
  /\ work \in [Jobs -> Work]
  /\ uploads \in 0..MaxUploads
  /\ blessed \subseteq images

(* "filenames must be unique per content (nodes cache by filename)"        *)
(* (register_image.py), and "only Active versions deploy (promotion gate)" *)
(* (deploy_device.py): whatever was republished, registered again, pulled  *)
(* or kept on the node in the meantime, the bytes that a VM of a version   *)
(* starts from are those of an image that the version had when it was      *)
(* promoted.                                                               *)
DeploysAsPromoted ==
  [][\A j \in Jobs : Import(j) =>
       \E i \in blessed : i.version = work[j].version /\ i.file = work[j].file
                            /\ cached[work[j].file] = i.sum]_ivars
=============================================================================
