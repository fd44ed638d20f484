-------------------------- MODULE ImagePipeline_proofs --------------------------
(***************************************************************************)
(* For any files, images, versions, runs and republications: what a VM     *)
(* boots is what its version had when it was promoted, as long as one      *)
(* registration runs at a time.                                            *)
(***************************************************************************)
EXTENDS ImagePipeline, FiniteSetTheorems, TLAPS

(* What a step of a run changes. *)
LEMMA WorkMoves ==
  ASSUME work \in [Jobs -> Work], NEW j \in Jobs, NEW w \in Work, Step(j, w)
  PROVE  /\ work' \in [Jobs -> Work]
         /\ work'[j] = w
         /\ \A k \in Jobs \ {j} : work'[k] = work[k]
BY DEF Step

LEMMA NoWorkTyped == NoWork \in Work /\ NoWork.at = "idle" /\ ~NoWork.deploy
BY DEF NoWork, Work, RegisterSteps, PullSteps

LEMMA Dropped ==
  ASSUME work \in [Jobs -> Work], NEW j \in Jobs, Drop(j)
  PROVE  /\ work' \in [Jobs -> Work]
         /\ work'[j] = NoWork
         /\ \A k \in Jobs \ {j} : work'[k] = work[k]
BY WorkMoves, NoWorkTyped DEF Drop

(* A version with an image has a default; a name means one content; what a *)
(* node keeps has a record; and a promoted version's default was promoted. *)
Records ==
  /\ \A i, k \in images : i.file = k.file => i.sum = k.sum
  /\ \A i \in images : \E k \in images : k.version = i.version /\ k.default
  /\ \A f \in Files : cached[f] # Nothing => \E i \in images : i.file = f /\ i.sum = cached[f]
  /\ \A v \in Versions : status[v] = "Active" =>
       /\ ImagesOf(v) # {}
       /\ \A i \in ImagesOf(v) : i.default => i \in blessed

(* What a run has made sure of: a registration of the name's content, a    *)
(* pull of a record, a deploy of a promoted one.                           *)
Sure(j) ==
  /\ WorkAt(j, "existing") \/ WorkAt(j, "insert") =>
       \A i \in images : i.file = work[j].file /\ i.version # work[j].version => i.sum = work[j].sum
  /\ WorkAt(j, "insert") /\ work[j].default => \A i \in ImagesOf(work[j].version) : ~i.default
  /\ WorkAt(j, "insert") /\ ~work[j].default => \E i \in ImagesOf(work[j].version) : i.default
  /\ work[j].at \in PullSteps => \E i \in images : i.file = work[j].file /\ i.sum = work[j].sum
  /\ work[j].at \in PullSteps /\ work[j].deploy =>
       \E i \in blessed : i.version = work[j].version /\ i.file = work[j].file /\ i.sum = work[j].sum
  /\ WorkAt(j, "import") => work[j].deploy /\ cached[work[j].file] # Nothing

(* A run knows its file from the start, then the sum, then the version. *)
Named(j) ==
  /\ ~WorkAt(j, "idle") => work[j].file \in Files
  /\ work[j].at \notin {"idle", "sidecar"} => work[j].sum \in Images
  /\ work[j].at \in {"size", "version", "clash", "existing", "insert"} => work[j].version \in Versions
  /\ WorkAt(j, "size") => work[j].manifest \in Claim \union {Silent}

(* One registration at a time. *)
OneRegisters ==
  \A j, k \in Jobs : work[j].at \in RegisterSteps /\ work[k].at \in RegisterSteps => j = k

RunsInv == \A j \in Jobs : Named(j) /\ Sure(j)

ImagesIInv == ImagesTypeOK /\ Records /\ RunsInv /\ OneRegisters

LEMMA ImagesIInvInit == ImagesInit => ImagesIInv
<1> SUFFICES ASSUME ImagesInit PROVE ImagesIInv
  OBVIOUS
<1> USE DEF ImagesInit
<1>1. ImagesTypeOK
  <2>1. served \in [Files -> PublishedSet]
    BY DEF SetsToStart, PublishedSet
  <2>2. work \in [Jobs -> Work]
    BY NoWorkTyped
  <2> QED
    BY <2>1, <2>2, ImageAssumption DEF ImagesTypeOK
<1>2. Records
  BY DEF Records
<1>3. \A j \in Jobs : work[j].at = "idle"
  BY NoWorkTyped
<1>4. RunsInv /\ OneRegisters
  BY <1>3 DEF RunsInv, Named, Sure, WorkAt, OneRegisters, RegisterSteps, PullSteps
<1> QED
  BY <1>1, <1>2, <1>4 DEF ImagesIInv

(* A step that only moves one run. *)
LEMMA RecordsKept ==
  ASSUME Records, RecordsSame, UNCHANGED cached
  PROVE  Records'
BY DEF Records, RecordsSame, ImagesOf

LEMMA RunMoves ==
  ASSUME ImagesIInv, Alone, NEW j \in Jobs, NEW w \in Work, Step(j, w), RecordsSame, OutsideSame,
         Named(j)' /\ Sure(j)',
         w.at \in RegisterSteps => work[j].at \in RegisterSteps \/ \A k \in Jobs : work[k].at \notin RegisterSteps
  PROVE  ImagesIInv'
<1> USE DEF ImagesIInv
<1>1. /\ work' \in [Jobs -> Work] /\ work'[j] = w
      /\ \A k \in Jobs \ {j} : work'[k] = work[k]
  BY WorkMoves DEF ImagesTypeOK
<1>2. ImagesTypeOK'
  BY <1>1 DEF ImagesTypeOK, RecordsSame, OutsideSame
<1>3. Records'
  BY RecordsKept DEF OutsideSame
<1>4. RunsInv'
  BY <1>1 DEF RunsInv, Named, Sure, WorkAt, ImagesOf, RecordsSame, OutsideSame
<1>5. OneRegisters'
  BY <1>1 DEF OneRegisters
<1> QED
  BY <1>2, <1>3, <1>4, <1>5

LEMMA RunDrops ==
  ASSUME ImagesIInv, Alone, NEW j \in Jobs, Drop(j), RecordsSame, OutsideSame
  PROVE  ImagesIInv'
<1>1. work'[j] = NoWork
  BY Dropped DEF ImagesIInv, ImagesTypeOK
<1>2. Named(j)' /\ Sure(j)'
  BY <1>1, NoWorkTyped DEF Named, Sure, WorkAt, RegisterSteps, PullSteps
<1> QED
  BY <1>2, NoWorkTyped, RunMoves DEF Drop, RegisterSteps

LEMMA ImagesIInvStep == Alone /\ ImagesIInv /\ [ImagesNext]_ivars => ImagesIInv'
<1> SUFFICES ASSUME Alone, ImagesIInv, [ImagesNext]_ivars PROVE ImagesIInv'
  OBVIOUS
<1> USE DEF ImagesIInv
<1>1. CASE UNCHANGED ivars
  <2>1. ImagesTypeOK' /\ Records'
    BY <1>1, RecordsKept DEF ivars, ImagesTypeOK, RecordsSame
  <2> QED
    BY <1>1, <2>1 DEF ivars, RunsInv, Named, Sure, WorkAt, ImagesOf, OneRegisters
<1>2. ASSUME NEW j \in Jobs, NEW f \in Files, StartRegister(j, f) PROVE ImagesIInv'
  <2> DEFINE w == [NoWork EXCEPT !.at = "sidecar", !.file = f]
  <2>1. w \in Work /\ w.at = "sidecar" /\ w.file = f
    BY DEF NoWork, Work, RegisterSteps, PullSteps
  <2>2. work'[j] = w
    BY <1>2, <2>1, WorkMoves DEF StartRegister, ImagesTypeOK
  <2> HIDE DEF w
  <2>3. Named(j)' /\ Sure(j)'
    BY <2>1, <2>2 DEF Named, Sure, WorkAt, PullSteps
  <2>4. Step(j, w) /\ RecordsSame /\ OutsideSame /\ \A k \in Jobs : work[k].at \notin RegisterSteps
    BY <1>2 DEF StartRegister, w
  <2> QED
    BY <2>1, <2>3, <2>4, RunMoves
<1>3. ASSUME NEW j \in Jobs, ReadSidecar(j) PROVE ImagesIInv'
  <2> DEFINE sum == served[work[j].file].sidecar
             w == [work[j] EXCEPT !.at = "manifest", !.sum = sum]
  <2>1. CASE Drop(j)
    BY <1>3, <2>1, RunDrops DEF ReadSidecar
  <2>2. CASE sum # Nothing /\ Step(j, w)
    <3>1. work[j].file \in Files /\ sum \in Images
      BY <1>3, <2>2 DEF ReadSidecar, RunsInv, Named, WorkAt, ImagesTypeOK, PublishedSet
    <3>2. w \in Work /\ w.at = "manifest" /\ w.file = work[j].file /\ w.sum = sum
      BY <3>1 DEF Work, RegisterSteps, ImagesTypeOK
    <3>3. work'[j] = w
      BY <2>2, <3>2, WorkMoves DEF ImagesTypeOK
    <3> HIDE DEF w, sum
    <3>4. Named(j)' /\ Sure(j)'
      BY <3>1, <3>2, <3>3 DEF Named, Sure, WorkAt, PullSteps
    <3> QED
      BY <1>3, <2>2, <3>2, <3>4, RunMoves DEF ReadSidecar, WorkAt, RegisterSteps
  <2> QED
    BY <1>3, <2>1, <2>2 DEF ReadSidecar
<1>4. ASSUME NEW j \in Jobs, ReadManifest(j) PROVE ImagesIInv'
  <2> DEFINE manifest == served[work[j].file].manifest
             named(input) == {manifest.version, input} \ {Nothing}
             w(v) == [work[j] EXCEPT !.at = "size", !.manifest = manifest, !.version = v]
  <2>1. CASE Drop(j)
    BY <1>4, <2>1, RunDrops DEF ReadManifest
  <2>2. ASSUME NEW input \in Versions \union {Nothing}, manifest # Nothing, Cardinality(named(input)) = 1,
               Step(j, w(CHOOSE v \in named(input) : TRUE))
        PROVE  ImagesIInv'
    <3> DEFINE v == CHOOSE x \in named(input) : TRUE
    <3>1. work[j].file \in Files /\ work[j].sum \in Images /\ manifest \in Claim \union {Silent}
      BY <1>4, <2>2 DEF ReadManifest, RunsInv, Named, WorkAt, ImagesTypeOK, PublishedSet
    <3>2. named(input) \subseteq Versions
      BY <3>1 DEF Claim, Silent
    <3>3. v \in Versions
      <4>1. named(input) # {}
        <5>1. Cardinality({}) = 0
          BY FS_EmptySet
        <5>2. Cardinality(named(input)) = 1
          BY <2>2
        <5> HIDE DEF named
        <5>3. named(input) = {} => Cardinality(named(input)) = Cardinality({})
          OBVIOUS
        <5> QED
          BY ONLY <5>1, <5>2, <5>3
      <4> QED
        BY <3>2, <4>1
    <3> HIDE DEF v
    <3>4. /\ w(v) \in Work /\ w(v).at = "size" /\ w(v).file = work[j].file /\ w(v).sum = work[j].sum
          /\ w(v).version = v /\ w(v).manifest = manifest
      <4>1. work[j] \in Work
        BY DEF ImagesTypeOK
      <4> HIDE DEF manifest
      <4> QED
        BY ONLY <3>1, <3>3, <4>1 DEF Work, RegisterSteps
    <3>5. Step(j, w(v))
      BY <2>2 DEF v
    <3> HIDE DEF w, manifest
    <3>6. work'[j] = w(v)
      BY <3>4, <3>5, WorkMoves DEF ImagesTypeOK
    <3>7. Named(j)' /\ Sure(j)'
      BY <3>1, <3>3, <3>4, <3>6 DEF Named, Sure, WorkAt, PullSteps
    <3> QED
      BY <1>4, <3>4, <3>5, <3>7, RunMoves DEF ReadManifest, WorkAt, RegisterSteps
  <2> QED
    BY <1>4, <2>1, <2>2 DEF ReadManifest
<1>5. ASSUME NEW j \in Jobs, CheckArtifact(j) PROVE ImagesIInv'
  <2> DEFINE w == [work[j] EXCEPT !.at = "version", !.manifest = Nothing]
  <2>1. CASE Drop(j)
    BY <1>5, <2>1, RunDrops DEF CheckArtifact
  <2>2. CASE Step(j, w)
    <3>1. /\ w \in Work /\ w.at = "version" /\ w.file = work[j].file /\ w.sum = work[j].sum
          /\ w.version = work[j].version
      BY DEF Work, RegisterSteps, ImagesTypeOK
    <3> HIDE DEF w
    <3>2. work'[j] = w
      BY <2>2, <3>1, WorkMoves DEF ImagesTypeOK
    <3>3. Named(j)' /\ Sure(j)'
      BY <1>5, <3>1, <3>2 DEF CheckArtifact, RunsInv, Named, Sure, WorkAt, PullSteps
    <3> QED
      BY <1>5, <2>2, <3>1, <3>3, RunMoves DEF CheckArtifact, WorkAt, RegisterSteps
  <2> QED
    BY <1>5, <2>1, <2>2 DEF CheckArtifact
<1>6. ASSUME NEW j \in Jobs, EnsureVersion(j) PROVE ImagesIInv'
  <2> DEFINE w == [work[j] EXCEPT !.at = "clash"]
  <2>1. /\ w \in Work /\ w.at = "clash" /\ w.file = work[j].file /\ w.sum = work[j].sum
        /\ w.version = work[j].version
    BY DEF Work, RegisterSteps, ImagesTypeOK
  <2>2. Step(j, w)
    BY <1>6 DEF EnsureVersion
  <2> HIDE DEF w
  <2>3. work' \in [Jobs -> Work] /\ work'[j] = w /\ \A k \in Jobs \ {j} : work'[k] = work[k]
    BY <2>1, <2>2, WorkMoves DEF ImagesTypeOK
  <2>4. work[j].version \in Versions
    BY <1>6 DEF EnsureVersion, WorkAt, RunsInv, Named, Sure
  <2>5. /\ status' \in [Versions -> {"none", "Staged", "Active"}]
        /\ \A v \in Versions : status'[v] = "Active" => status[v] = "Active"
    BY <1>6, <2>4 DEF EnsureVersion, ImagesTypeOK
  <2>6. ImagesTypeOK'
    BY <1>6, <2>3, <2>5 DEF EnsureVersion, OutsideSame, ImagesTypeOK
  <2>7. Records'
    BY <1>6, <2>5 DEF EnsureVersion, OutsideSame, Records, ImagesOf
  <2>8. Named(j)' /\ Sure(j)'
    BY <1>6, <2>1, <2>3, <2>4 DEF EnsureVersion, RunsInv, Named, Sure, WorkAt, PullSteps
  <2>9. RunsInv'
    BY <1>6, <2>3, <2>8 DEF EnsureVersion, OutsideSame, RunsInv, Named, Sure, WorkAt, ImagesOf
  <2>10. OneRegisters'
    BY <1>6, <2>1, <2>3 DEF EnsureVersion, WorkAt, OneRegisters, RegisterSteps
  <2> QED
    BY <2>6, <2>7, <2>9, <2>10
<1>7. ASSUME NEW j \in Jobs, CheckClash(j) PROVE ImagesIInv'
  <2> DEFINE others == {i \in images : i.file = work[j].file /\ i.version # work[j].version}
             w == [work[j] EXCEPT !.at = "existing"]
  <2>1. CASE Drop(j)
    BY <1>7, <2>1, RunDrops DEF CheckClash
  <2>2. CASE Step(j, w) /\ \A i \in others : i.sum = work[j].sum
    <3>1. /\ w \in Work /\ w.at = "existing" /\ w.file = work[j].file /\ w.sum = work[j].sum
          /\ w.version = work[j].version
      BY DEF Work, RegisterSteps, ImagesTypeOK
    <3>2. images' = images
      BY <1>7 DEF CheckClash, RecordsSame
    <3> HIDE DEF w
    <3>3. work'[j] = w
      BY <2>2, <3>1, WorkMoves DEF ImagesTypeOK
    <3>4. Named(j)'
      BY <1>7, <3>1, <3>3 DEF CheckClash, RunsInv, Named, WorkAt
    <3>5. Sure(j)'
      BY <2>2, <3>1, <3>2, <3>3 DEF Sure, WorkAt, PullSteps
    <3> QED
      BY <1>7, <2>2, <3>1, <3>4, <3>5, RunMoves DEF CheckClash, WorkAt, RegisterSteps
  <2>3. ASSUME NEW first \in others, first.sum = work[j].sum
        PROVE  \A i \in others : i.sum = work[j].sum
    BY <2>3 DEF Records
  <2> QED
    BY <1>7, <2>1, <2>2, <2>3 DEF CheckClash
<1>8. ASSUME NEW j \in Jobs, CheckExisting(j) PROVE ImagesIInv'
  <2> DEFINE mine == ImagesOf(work[j].version)
             w == [work[j] EXCEPT !.at = "insert", !.default = ~\E i \in mine : i.default]
  <2>1. CASE Drop(j)
    BY <1>8, <2>1, RunDrops DEF CheckExisting
  <2>2. CASE Step(j, w)
    <3>1. /\ w \in Work /\ w.at = "insert" /\ w.file = work[j].file /\ w.sum = work[j].sum
          /\ w.version = work[j].version
      BY DEF Work, RegisterSteps, ImagesTypeOK
    <3>2. w.default <=> ~\E i \in mine : i.default
      BY ZenonT(30) DEF ImagesTypeOK, Work
    <3>3. images' = images
      BY <1>8 DEF CheckExisting, RecordsSame
    <3> HIDE DEF w
    <3>4. work'[j] = w
      BY <2>2, <3>1, WorkMoves DEF ImagesTypeOK
    <3>5. Named(j)'
      BY <1>8, <3>1, <3>4 DEF CheckExisting, RunsInv, Named, WorkAt
    <3>6. Sure(j)'
      BY <1>8, <3>1, <3>2, <3>3, <3>4 DEF CheckExisting, RunsInv, Sure, WorkAt, ImagesOf, PullSteps
    <3> QED
      BY <1>8, <2>2, <3>1, <3>5, <3>6, RunMoves DEF CheckExisting, WorkAt, RegisterSteps
  <2> QED
    BY <1>8, <2>1, <2>2 DEF CheckExisting
<1>9. ASSUME NEW j \in Jobs, InsertImage(j) PROVE ImagesIInv'
  <2> DEFINE new == [version |-> work[j].version, file |-> work[j].file,
                     sum |-> work[j].sum, default |-> work[j].default]
  <2>1. /\ WorkAt(j, "insert") /\ Named(j) /\ Sure(j)
        /\ work[j].version \in Versions /\ work[j].file \in Files /\ work[j].sum \in Images
    BY <1>9 DEF InsertImage, RunsInv, Named, WorkAt
  <2>2. new \in Image
    <3>1. work[j].default \in BOOLEAN
      BY DEF ImagesTypeOK, Work
    <3> QED
      BY <2>1, <3>1 DEF Image
  <2>3. Drop(j)
    BY <1>9 DEF InsertImage
  <2>4. work' \in [Jobs -> Work] /\ work'[j] = NoWork /\ \A k \in Jobs \ {j} : work'[k] = work[k]
    BY <2>3, Dropped DEF ImagesTypeOK
  <2>5. CASE \E i \in ImagesOf(work[j].version) : i.file = work[j].file
    <3>1. RecordsSame /\ OutsideSame
      BY <1>9, <2>5 DEF InsertImage, RecordsSame
    <3> QED
      BY <2>3, <3>1, RunDrops
  <2>6. CASE ~\E i \in ImagesOf(work[j].version) : i.file = work[j].file
    <3>0. images' = images \union {new}
      BY <1>9, <2>6 DEF InsertImage
    <3> HIDE DEF new
    <3>1. /\ new.version = work[j].version /\ new.file = work[j].file
          /\ new.sum = work[j].sum /\ new.default = work[j].default
      BY DEF new
    <3>2. UNCHANGED <<served, status, cached, uploads, blessed>>
      BY <1>9 DEF InsertImage, OutsideSame
    <3>3. ImagesTypeOK'
      BY <2>2, <2>4, <3>0, <3>2 DEF ImagesTypeOK
    <3>4. \A i \in images : i.file = new.file /\ i.version # new.version => i.sum = new.sum
      BY <2>1, <3>1 DEF Sure
    <3>5. Records'
      <4>1. \A i, k \in images' : i.file = k.file => i.sum = k.sum
        <5>1. \A i \in images : i.file = new.file => i.sum = new.sum
          BY <2>6, <3>1, <3>4 DEF ImagesOf
        <5> QED
          BY <3>0, <5>1 DEF Records
      <4>2. \A i \in images' : \E k \in images' : k.version = i.version /\ k.default
        <5>1. \E k \in images' : k.version = new.version /\ k.default
          <6>1. CASE new.default
            BY <3>0, <6>1
          <6>2. CASE ~new.default
            BY <2>1, <3>0, <3>1, <6>2 DEF Sure, ImagesOf
          <6> QED
            BY <6>1, <6>2
        <5> QED
          BY <3>0, <5>1 DEF Records
      <4>3. \A f \in Files : cached'[f] # Nothing => \E i \in images' : i.file = f /\ i.sum = cached'[f]
        BY <3>0, <3>2 DEF Records
      <4>4. ASSUME NEW v \in Versions, status'[v] = "Active"
            PROVE  /\ ImagesOf(v)' # {}
                   /\ \A i \in ImagesOf(v)' : i.default => i \in blessed'
        <5>1. /\ ImagesOf(v) # {}
              /\ \A i \in ImagesOf(v) : i.default => i \in blessed
          BY <1>9, <4>4 DEF InsertImage, Records
        <5>2. \E k \in ImagesOf(v) : k.default
          BY <5>1 DEF Records, ImagesOf
        <5>3. new.version = v => ~new.default
          BY <2>1, <3>1, <5>2 DEF Sure
        <5> QED
          BY <3>0, <3>2, <5>1, <5>3 DEF ImagesOf
      <4> QED
        BY <4>1, <4>2, <4>3, <4>4 DEF Records
    <3>6. RunsInv'
      <4>1. ASSUME NEW k \in Jobs, k # j PROVE Named(k)' /\ Sure(k)'
        <5>1. work'[k] = work[k] /\ work[k].at \notin RegisterSteps
          BY <2>1, <2>4, <4>1 DEF OneRegisters, WorkAt, RegisterSteps
        <5> QED
          BY <3>0, <3>2, <5>1 DEF RunsInv, Named, Sure, WorkAt, RegisterSteps
      <4>2. Named(j)' /\ Sure(j)'
        BY <2>4, NoWorkTyped DEF Named, Sure, WorkAt, PullSteps
      <4> QED
        BY <4>1, <4>2 DEF RunsInv
    <3>7. OneRegisters'
      BY <2>4, NoWorkTyped DEF OneRegisters, RegisterSteps
    <3> QED
      BY <3>3, <3>5, <3>6, <3>7
  <2> QED
    BY <1>9, <2>5, <2>6 DEF InsertImage
<1>10. ASSUME NEW j \in Jobs, StartIngest(j) PROVE ImagesIInv'
  <2>1. PICK i \in images : Step(j, [NoWork EXCEPT !.at = "find", !.file = i.file, !.sum = i.sum])
    BY <1>10 DEF StartIngest
  <2> DEFINE w == [NoWork EXCEPT !.at = "find", !.file = i.file, !.sum = i.sum]
  <2>2. /\ w \in Work /\ w.at = "find" /\ w.file = i.file /\ w.sum = i.sum /\ ~w.deploy
        /\ i.file \in Files /\ i.sum \in Images
    BY DEF ImagesTypeOK, Image, NoWork, Work, PullSteps
  <2> HIDE DEF w
  <2>3. work'[j] = w /\ images' = images
    BY <1>10, <2>1, <2>2, WorkMoves DEF StartIngest, RecordsSame, ImagesTypeOK, w
  <2>4. Named(j)' /\ Sure(j)'
    BY <2>2, <2>3 DEF Named, Sure, WorkAt, PullSteps
  <2> QED
    BY <1>10, <2>1, <2>2, <2>4, RunMoves DEF StartIngest, RegisterSteps, w
<1>11. ASSUME NEW j \in Jobs, NEW v \in Versions, StartPull(j, v) PROVE ImagesIInv'
  <2> DEFINE w(i) == [NoWork EXCEPT !.at = "find", !.file = i.file, !.sum = i.sum, !.version = v, !.deploy = TRUE]
  <2>1. PICK i \in DeployImages(v) : Step(j, w(i))
    BY <1>11 DEF StartPull
  <2>2. i \in images /\ i \in blessed /\ i.version = v
    <3>1. /\ ImagesOf(v) # {}
          /\ \A k \in ImagesOf(v) : k.default => k \in blessed
      BY <1>11 DEF StartPull, Records
    <3>2. \E k \in ImagesOf(v) : k.default
      BY <3>1 DEF Records, ImagesOf
    <3>3. i \in ImagesOf(v) /\ i.default
      BY <2>1, <3>2 DEF DeployImages
    <3> QED
      BY <3>1, <3>3 DEF ImagesOf
  <2>3. /\ w(i) \in Work /\ w(i).at = "find" /\ w(i).file = i.file /\ w(i).sum = i.sum
        /\ w(i).version = v /\ i.file \in Files /\ i.sum \in Images
    BY <2>2 DEF ImagesTypeOK, Image, NoWork, Work, PullSteps
  <2> HIDE DEF w
  <2>4. work'[j] = w(i) /\ images' = images /\ blessed' = blessed
    BY <1>11, <2>1, <2>3, WorkMoves DEF StartPull, RecordsSame, ImagesTypeOK
  <2>5. Named(j)' /\ Sure(j)'
    BY <2>2, <2>3, <2>4 DEF Named, Sure, WorkAt, PullSteps
  <2> QED
    BY <1>11, <2>1, <2>3, <2>5, RunMoves DEF StartPull, RegisterSteps
<1>12. ASSUME NEW j \in Jobs, FindVolume(j) PROVE ImagesIInv'
  <2>1. Named(j) /\ Sure(j) /\ WorkAt(j, "find") /\ work[j] \in Work
    BY <1>12 DEF FindVolume, RunsInv, ImagesTypeOK
  <2>2. RecordsSame /\ OutsideSame
    BY <1>12 DEF FindVolume
  <2>3. CASE Drop(j)
    BY <2>2, <2>3, RunDrops
  <2>4. ASSUME NEW step \in {"pull", "import"}, Step(j, [work[j] EXCEPT !.at = step]),
               step = "import" => work[j].deploy /\ cached[work[j].file] # Nothing
        PROVE  ImagesIInv'
    <3> DEFINE w == [work[j] EXCEPT !.at = step]
    <3>1. /\ w \in Work /\ w.at = step /\ w.file = work[j].file /\ w.sum = work[j].sum
          /\ w.version = work[j].version /\ w.deploy = work[j].deploy
      BY ONLY <2>1, <2>4 DEF Work, PullSteps
    <3> HIDE DEF w
    <3>2. work'[j] = w
      BY <2>4, <3>1, WorkMoves DEF ImagesTypeOK, w
    <3>3. Named(j)' /\ Sure(j)'
      BY <2>1, <2>2, <2>4, <3>1, <3>2
      DEF RecordsSame, OutsideSame, Named, Sure, WorkAt, PullSteps
    <3> QED
      BY <2>2, <2>4, <3>1, <3>3, RunMoves DEF RegisterSteps, w
  <2> QED
    BY <1>12, <2>3, <2>4 DEF FindVolume, AfterPull, Drop
<1>13. ASSUME NEW j \in Jobs, PullImage(j) PROVE ImagesIInv'
  <2>1. Named(j) /\ Sure(j) /\ WorkAt(j, "pull") /\ work[j] \in Work
    BY <1>13 DEF PullImage, RunsInv, ImagesTypeOK
  <2>2. CASE UNCHANGED cached /\ Drop(j)
    BY <1>13, <2>2, RunDrops DEF PullImage, OutsideSame
  <2>3. CASE cached' = [cached EXCEPT ![work[j].file] = work[j].sum] /\ Step(j, AfterPull(j))
    <3> DEFINE w == AfterPull(j)
    <3>1. /\ w \in Work
          /\ \/ w = NoWork
             \/ /\ w.at = "import" /\ w.file = work[j].file /\ w.sum = work[j].sum
                /\ w.version = work[j].version /\ w.deploy = work[j].deploy /\ w.deploy
      <4>1. CASE ~work[j].deploy
        BY ONLY <4>1, NoWorkTyped DEF AfterPull
      <4>2. CASE work[j].deploy
        BY ONLY <2>1, <4>2 DEF AfterPull, Work, PullSteps
      <4> QED
        BY <4>1, <4>2
    <3> HIDE DEF w
    <3>2. work' \in [Jobs -> Work] /\ work'[j] = w /\ \A k \in Jobs \ {j} : work'[k] = work[k]
      BY <2>3, <3>1, WorkMoves DEF ImagesTypeOK, w
    <3>3. work[j].file \in Files /\ work[j].sum \in Images /\ work[j].sum # Nothing
      BY <2>1, ImageAssumption DEF Named, WorkAt
    <3>4. /\ cached' \in [Files -> Images \union {Nothing}]
          /\ cached'[work[j].file] = work[j].sum
          /\ \A f \in Files \ {work[j].file} : cached'[f] = cached[f]
      BY <2>3, <3>3 DEF ImagesTypeOK
    <3>5. UNCHANGED <<served, status, images, uploads, blessed>>
      BY <1>13 DEF PullImage, RecordsSame
    <3>6. ImagesTypeOK'
      BY <3>2, <3>4, <3>5 DEF ImagesTypeOK
    <3>7. Records'
      <4>1. \A f \in Files : cached'[f] # Nothing => \E i \in images : i.file = f /\ i.sum = cached'[f]
        BY <2>1, <3>4 DEF Records, Sure, WorkAt, PullSteps
      <4> QED
        BY <3>5, <4>1 DEF Records, ImagesOf
    <3>8. Named(j)' /\ Sure(j)'
      BY <2>1, <3>1, <3>2, <3>3, <3>4, <3>5, NoWorkTyped DEF Named, Sure, WorkAt, PullSteps
    <3>9. ASSUME NEW k \in Jobs, k # j PROVE Named(k)' /\ Sure(k)'
      <4>1. work[k].file \in Files /\ cached[work[k].file] # Nothing => cached'[work[k].file] # Nothing
        BY <3>3, <3>4
      <4> QED
        BY <3>2, <3>5, <3>9, <4>1 DEF RunsInv, Named, Sure, WorkAt, ImagesOf
    <3>10. OneRegisters'
      BY <3>1, <3>2, NoWorkTyped DEF OneRegisters, RegisterSteps
    <3> QED
      BY <3>6, <3>7, <3>8, <3>9, <3>10 DEF RunsInv
  <2> QED
    BY <1>13, <2>2, <2>3 DEF PullImage
<1>14. ASSUME NEW j \in Jobs, Import(j) PROVE ImagesIInv'
  BY <1>14, RunDrops DEF Import
<1>15. ASSUME NEW f \in Files, Upload(f) PROVE ImagesIInv'
  <2>1. UNCHANGED <<status, images, blessed, cached, work>>
    BY <1>15 DEF Upload, RecordsSame
  <2>2. served' \in [Files -> PublishedSet]
    BY <1>15 DEF Upload, ImagesTypeOK, PublishedSet
  <2>3. uploads' \in 0..MaxUploads
    BY <1>15, ImageAssumption DEF Upload, ImagesTypeOK
  <2>4. ImagesTypeOK' /\ Records'
    BY <2>1, <2>2, <2>3, RecordsKept DEF ImagesTypeOK, RecordsSame
  <2> QED
    BY <2>1, <2>4 DEF RunsInv, Named, Sure, WorkAt, ImagesOf, OneRegisters
<1>16. ASSUME NEW v \in Versions, Promote(v) PROVE ImagesIInv'
  <2>1. UNCHANGED <<images, work, served, cached, uploads>>
    BY <1>16 DEF Promote, OutsideSame
  <2>2. /\ status' \in [Versions -> {"none", "Staged", "Active"}]
        /\ \A u \in Versions \ {v} : status'[u] = status[u]
    BY <1>16 DEF Promote, ImagesTypeOK
  <2>3. blessed' = blessed \union ImagesOf(v) /\ ImagesOf(v) # {}
    BY <1>16 DEF Promote
  <2>4. ImagesTypeOK'
    BY <2>1, <2>2, <2>3 DEF ImagesTypeOK, ImagesOf
  <2>5. Records'
    <3>1. ASSUME NEW u \in Versions, status'[u] = "Active"
          PROVE  ImagesOf(u) # {} /\ \A i \in ImagesOf(u) : i.default => i \in blessed'
      <4>1. CASE u = v
        BY <2>3, <4>1
      <4>2. CASE u # v
        BY <2>2, <2>3, <3>1, <4>2 DEF Records
      <4> QED
        BY <4>1, <4>2
    <3>2. \A u \in Versions : ImagesOf(u)' = ImagesOf(u)
      BY <2>1 DEF ImagesOf
    <3> QED
      BY <2>1, <3>1, <3>2 DEF Records
  <2>6. RunsInv' /\ OneRegisters'
    BY <2>1, <2>3 DEF RunsInv, Named, Sure, WorkAt, ImagesOf, OneRegisters
  <2> QED
    BY <2>4, <2>5, <2>6
<1> QED
  BY <1>1, <1>2, <1>3, <1>4, <1>5, <1>6, <1>7, <1>8, <1>9, <1>10, <1>11, <1>12, <1>13,
     <1>14, <1>15, <1>16 DEF ImagesNext

(* The types of what the pipeline holds, with one registration at a time.  *)
THEOREM ImagesTypeOKHolds == ASSUME Alone PROVE ImagesSpec => []ImagesTypeOK
<1>1. ImagesIInv => ImagesTypeOK
  BY DEF ImagesIInv
<1> QED
  BY <1>1, ImagesIInvInit, ImagesIInvStep, PTL DEF ImagesSpec

(* "filenames must be unique per content (nodes cache by filename)" and    *)
(* "only Active versions deploy (promotion gate)": with one registration   *)
(* at a time, and however files are republished, a VM starts from what its *)
(* version had when it was promoted.                                       *)
THEOREM DeploysAsPromotedHolds == ASSUME Alone PROVE ImagesSpec => DeploysAsPromoted
<1>1. ASSUME ImagesIInv, NEW j \in Jobs, Import(j)
      PROVE  \E i \in blessed : i.version = work[j].version /\ i.file = work[j].file
                                 /\ cached[work[j].file] = i.sum
  <2>1. Named(j) /\ Sure(j) /\ WorkAt(j, "import") /\ work[j].file \in Files
    BY <1>1 DEF Import, ImagesIInv, RunsInv, Named, WorkAt
  <2>2. PICK i \in images : i.file = work[j].file /\ i.sum = cached[work[j].file]
    BY <1>1, <2>1 DEF ImagesIInv, Records, Sure
  <2>3. PICK k \in blessed : k.version = work[j].version /\ k.file = work[j].file /\ k.sum = work[j].sum
    BY <2>1 DEF Sure, WorkAt, PullSteps
  <2>4. k \in images /\ k.sum = i.sum
    BY <1>1, <2>2, <2>3 DEF ImagesIInv, ImagesTypeOK, Records
  <2> QED
    BY <2>2, <2>3, <2>4
<1>2. ImagesIInv /\ [ImagesNext]_ivars =>
        [\A j \in Jobs : Import(j) =>
           \E i \in blessed : i.version = work[j].version /\ i.file = work[j].file
                                /\ cached[work[j].file] = i.sum]_ivars
  BY <1>1
<1> QED
  BY <1>2, ImagesIInvInit, ImagesIInvStep, PTL DEF ImagesSpec, DeploysAsPromoted
=============================================================================
