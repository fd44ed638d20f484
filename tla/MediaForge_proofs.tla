--------------------------- MODULE MediaForge_proofs ---------------------------
(***************************************************************************)
(* The media forge for any tasks, versions and faults.  Its threads share  *)
(* files by name and no lock: what a version's file holds needs that its   *)
(* tasks do not overlap, what a medium was made from that downloads do     *)
(* not.                                                                    *)
(***************************************************************************)
EXTENDS MediaForge, TLAPS

(* has not opened its .part yet, and so no file that it made *)
Fresh(t) == task[t].at \in {"new", "check", "cache", "open"}

(* A medium is made from a file that is there. *)
TypeInv ==
  /\ ForgeTypeOK
  /\ \A t \in Tasks : At(t, "prepare") => cache # Torn

(* What is cached is complete and not what .part stands for; one task at a *)
(* time downloads, and what it has verified is still there.                *)
CacheInv ==
  /\ cache # Torn => inode[cache].full
  /\ part # Torn => part # cache
  /\ \A t \in Tasks : Fresh(t) => t \notin {part, cache}
  /\ \A t, u \in Tasks : Downloads(t) /\ Downloads(u) => t = u
  /\ \A t \in Tasks : At(t, "replace") => part # Torn /\ inode[part].full
  /\ \A t \in Tasks : task[t].at \in {"copy", "copying", "known", "version", "image"} => task[t].pure
  /\ MediaFromVerified

(* A version has one task at a time, from its free name to its record. *)
RecordInv ==
  /\ \A t, u \in Tasks : Running(t) /\ Running(u) /\ task[t].version = task[u].version => t = u
  /\ \A v \in Versions : record[v].image # None => record[v].exists
  /\ \A t \in Tasks : Running(t) /\ task[t].at \notin {"check", "known", "image"} => ~record[task[t].version].exists
  /\ \A t \in Tasks : At(t, "image") => record[task[t].version].exists
  /\ \A t \in Tasks : At(t, "copying") => published[task[t].version] = None
  /\ \A t \in Tasks : task[t].at \in {"known", "version", "image"} => published[task[t].version] = t
  /\ RecordMatchesFile

-----------------------------------------------------------------------------
(* Types.  How a step changes a task. *)
Only(t) == task' \in [Tasks -> Task] /\ \A u \in Tasks \ {t} : task'[u] = task[u]

LEMMA Setting ==
  ASSUME task \in [Tasks -> Task], NEW t \in Tasks, NEW q \in Task, task' = [task EXCEPT ![t] = q]
  PROVE  Only(t) /\ task'[t] = q
BY DEF Only

LEMMA Going ==
  ASSUME task \in [Tasks -> Task], NEW t \in Tasks, NEW step \in Steps \union Ends, Goto(t, step)
  PROVE  /\ Only(t) /\ task'[t].at = step
         /\ task'[t].version = task[t].version /\ task'[t].pure = task[t].pure
<1> DEFINE q == [task[t] EXCEPT !.at = step]
<1>1. q \in Task /\ q.at = step /\ q.version = task[t].version /\ q.pure = task[t].pure
  BY DEF Task
<1>2. task' = [task EXCEPT ![t] = q]
  BY DEF Goto
<1> HIDE DEF q
<1> QED
  BY <1>1, <1>2, Setting

LEMMA Faulty == faults \in 0..MaxFaults /\ Fault => faults' \in 0..MaxFaults
BY ForgeAssumption DEF Fault

(* The file that a task downloads into. *)
LEMMA Opening ==
  ASSUME ForgeTypeOK, NEW t \in Tasks, OpenPart(t)
  PROVE  /\ Only(t) /\ task'[t].at = "fetch"
         /\ task'[t].version = task[t].version /\ task'[t].pure = task[t].pure
         /\ part' \in Inodes /\ inode' \in [Inodes -> Inode]
<1> DEFINE i == IF part = Torn THEN t ELSE part
           q == [task[t] EXCEPT !.at = "fetch", !.fd = i]
<1>1. i \in Inodes
  BY DEF ForgeTypeOK, Names, Inodes
<1>2. part' = i /\ inode' = [inode EXCEPT ![i] = [by |-> t, full |-> FALSE]]
  BY DEF OpenPart
<1>3. task' = [task EXCEPT ![t].at = "fetch", ![t].fd = i]
  BY DEF OpenPart
<1>4. inode' \in [Inodes -> Inode]
  BY <1>1, <1>2 DEF ForgeTypeOK, Inode
<1> HIDE DEF i
<1>5. q \in Task /\ q.at = "fetch" /\ q.version = task[t].version /\ q.pure = task[t].pure
  BY <1>1 DEF ForgeTypeOK, Task, Steps
<1>6. task' = [task EXCEPT ![t] = q]
  BY <1>3
<1> HIDE DEF q
<1> QED
  BY <1>1, <1>2, <1>4, <1>5, <1>6, Setting DEF ForgeTypeOK

LEMMA Preparing ==
  ASSUME ForgeTypeOK, NEW t \in Tasks, Prepare(t), cache # Torn
  PROVE  /\ Only(t) /\ task'[t].at = "copy"
         /\ task'[t].version = task[t].version /\ task'[t].pure = inode[cache].full
<1> DEFINE q == [task[t] EXCEPT !.at = "copy", !.pure = inode[cache].full]
<1>1. inode[cache].full \in BOOLEAN
  BY DEF ForgeTypeOK, Names, Inode
<1>2. q \in Task /\ q.at = "copy" /\ q.version = task[t].version /\ q.pure = inode[cache].full
  BY <1>1 DEF ForgeTypeOK, Task, Steps
<1>3. task' = [task EXCEPT ![t] = q]
  BY DEF Prepare
<1> HIDE DEF q
<1> QED
  BY <1>2, <1>3, Setting DEF ForgeTypeOK

(* What the registration of a task writes. *)
LEMMA Recording ==
  ASSUME ForgeTypeOK, NEW t \in Tasks, NEW e \in BOOLEAN, NEW m \in Tasks \union {None},
         \/ e = TRUE /\ m = record[task[t].version].image
              /\ record' = [record EXCEPT ![task[t].version].exists = TRUE]
         \/ e = record[task[t].version].exists /\ m = t
              /\ record' = [record EXCEPT ![task[t].version].image = t]
  PROVE  /\ record' \in [Versions -> Record]
         /\ record'[task[t].version].exists = e /\ record'[task[t].version].image = m
         /\ \A v \in Versions : v # task[t].version => record'[v] = record[v]
<1>1. task[t].version \in Versions /\ record[task[t].version] \in Record
  BY DEF ForgeTypeOK, Task
<1>2. [exists |-> e, image |-> m] \in Record
  BY DEF Record
<1>3. record' = [record EXCEPT ![task[t].version] = [exists |-> e, image |-> m]]
  BY <1>1 DEF Record, ForgeTypeOK
<1> QED
  BY <1>1, <1>2, <1>3 DEF ForgeTypeOK

LEMMA Dying ==
  ASSUME task \in [Tasks -> Task], Restart
  PROVE  /\ task' \in [Tasks -> Task]
         /\ \A t \in Tasks : /\ task'[t].version = task[t].version /\ task'[t].pure = task[t].pure
                             /\ task'[t] = task[t] \/ task'[t].at = "error"
                             /\ task'[t].at \in {"new", "success", "error"}
<1> SUFFICES ASSUME NEW t \in Tasks
    PROVE /\ task'[t] \in Task
          /\ task'[t].version = task[t].version /\ task'[t].pure = task[t].pure
          /\ task'[t] = task[t] \/ task'[t].at = "error"
          /\ task'[t].at \in {"new", "success", "error"}
  BY DEF Restart
<1> DEFINE q == [task[t] EXCEPT !.at = "error"]
<1>1. q \in Task /\ q.at = "error" /\ q.version = task[t].version /\ q.pure = task[t].pure
  BY DEF Task, Ends
<1>2. task'[t] = IF Running(t) THEN q ELSE task[t]
  BY DEF Restart
<1>3. ~Running(t) => task[t].at \in {"new", "success", "error"}
  BY DEF Running, Task, Ends
<1> HIDE DEF q
<1> QED
  BY <1>1, <1>2, <1>3

LEMMA TypeInvInit == Init => TypeInv
<1> SUFFICES ASSUME Init PROVE TypeInv
  OBVIOUS
<1>1. \A v \in Versions : [at |-> "new", version |-> v, fd |-> None, pure |-> FALSE] \in Task
  BY DEF Task, Steps, Inodes
<1>2. task \in [Tasks -> Task] /\ \A t \in Tasks : task[t].at = "new"
  BY <1>1 DEF Init
<1>3. inode \in [Inodes -> Inode] /\ published \in [Versions -> Bytes] /\ record \in [Versions -> Record]
  BY DEF Init, Inode, Bytes, Record
<1>4. part \in Names /\ cache \in Names /\ faults \in 0..MaxFaults
  BY ForgeAssumption DEF Init, Names, Inodes
<1> QED
  BY <1>2, <1>3, <1>4 DEF TypeInv, ForgeTypeOK, At

LEMMA TypeInvStep == TypeInv /\ [Next]_vars => TypeInv'
<1> SUFFICES ASSUME TypeInv, [Next]_vars PROVE TypeInv'
  OBVIOUS
<1>t. /\ part \in Names /\ cache \in Names /\ inode \in [Inodes -> Inode]
      /\ published \in [Versions -> Bytes] /\ record \in [Versions -> Record]
      /\ task \in [Tasks -> Task] /\ faults \in 0..MaxFaults
  BY DEF TypeInv, ForgeTypeOK
<1>v. ASSUME NEW t \in Tasks PROVE task[t].version \in Versions /\ t \in Bytes /\ t \in Inodes
  BY <1>t DEF Task, Bytes, Inodes
<1>g. ASSUME NEW t \in Tasks, NEW step \in Steps \union Ends, Goto(t, step),
             step = "prepare" => cache' # Torn, cache # Torn => cache' # Torn,
             part' \in Names, cache' \in Names, inode' \in [Inodes -> Inode],
             published' \in [Versions -> Bytes], record' \in [Versions -> Record], faults' \in 0..MaxFaults
      PROVE  TypeInv'
  BY <1>t, <1>g, Going DEF TypeInv, ForgeTypeOK, Only, At
<1> USE DEF Steps, Ends
<1>1. CASE UNCHANGED vars
  BY <1>1 DEF vars, TypeInv, ForgeTypeOK, At
<1>2. ASSUME NEW t \in Tasks,
             Start(t) \/ CheckVersion(t) \/ Verify(t) \/ Replace(t) \/ CheckKnown(t) \/ Breaks(t) \/ LookInCache(t)
      PROVE  TypeInv'
  <2>1. \E step \in Steps \union Ends :
           Goto(t, step) /\ (step = "prepare" => cache' # Torn)
    BY <1>2 DEF Start, CheckVersion, Verify, Replace, CheckKnown, Breaks, Fails, LookInCache, CacheHolds, SameFiles
  <2>2. part' \in Names /\ cache' \in Names /\ (cache # Torn => cache' # Torn)
    BY <1>2, <1>t DEF Start, CheckVersion, Verify, Replace, CheckKnown, Breaks, Names, LookInCache, SameFiles
  <2>3. inode' = inode /\ published' = published /\ record' = record /\ faults' \in 0..MaxFaults
    BY <1>2, <1>t, Faulty DEF Start, CheckVersion, Verify, Replace, CheckKnown, Breaks, LookInCache, SameFiles
  <2> QED
    BY <1>t, <1>g, <2>1, <2>2, <2>3
<1>3. ASSUME NEW t \in Tasks, OpenPart(t) PROVE TypeInv'
  BY <1>3, <1>t, Opening DEF TypeInv, ForgeTypeOK, OpenPart, Only, At, Names
<1>4. ASSUME NEW t \in Tasks, Fetch(t) PROVE TypeInv'
  <2>1. task[t].fd \in Inodes
    BY <1>t DEF Task
  <2>2. inode' \in [Inodes -> Inode]
    <3>1. CASE UNCHANGED inode
      BY <1>t, <3>1
    <3>2. CASE inode' = [inode EXCEPT ![task[t].fd].full = @ \/ inode[task[t].fd].by = t]
      <4> DEFINE f == [inode[task[t].fd] EXCEPT !.full = @ \/ inode[task[t].fd].by = t]
      <4>1. f \in Inode
        BY <1>t, <2>1 DEF Inode
      <4>2. inode' = [inode EXCEPT ![task[t].fd] = f]
        BY <3>2
      <4> HIDE DEF f
      <4> QED
        BY <1>t, <4>1, <4>2
    <3> QED
      BY <1>4, <3>1, <3>2 DEF Fetch
  <2> QED
    BY <1>4, <1>t, <1>g, <2>2, Faulty DEF Fetch
<1>5. ASSUME NEW t \in Tasks, Prepare(t) PROVE TypeInv'
  BY <1>5, <1>t, Preparing DEF TypeInv, ForgeTypeOK, Prepare, SameFiles, Only, At
<1>6. ASSUME NEW t \in Tasks, BeginCopy(t) \/ EndCopy(t) PROVE TypeInv'
  <2>1. published' \in [Versions -> Bytes]
    BY <1>6, <1>t, <1>v DEF BeginCopy, EndCopy, Bytes
  <2> QED
    BY <1>6, <1>t, <1>g, <2>1 DEF BeginCopy, EndCopy, SameFiles
<1>7. ASSUME NEW t \in Tasks, PostVersion(t) \/ PostImage(t) PROVE TypeInv'
  <2>1. record' \in [Versions -> Record]
    <3>1. record[task[t].version] \in Record
      BY <1>t, <1>v
    <3>2. record[task[t].version].exists \in BOOLEAN /\ record[task[t].version].image \in Tasks \union {None}
      BY <3>1 DEF Record
    <3>3. CASE UNCHANGED record
      BY <1>t, <3>3
    <3>4. CASE record' = [record EXCEPT ![task[t].version].exists = TRUE]
      BY <3>2, <3>4, Recording DEF TypeInv
    <3>5. CASE record' = [record EXCEPT ![task[t].version].image = t]
      BY <3>2, <3>5, Recording DEF TypeInv
    <3> QED
      BY <1>7, <3>3, <3>4, <3>5 DEF PostVersion, PostImage
  <2> QED
    BY <1>7, <1>t, <1>g, <2>1 DEF PostVersion, PostImage, SameFiles
<1>8. CASE Restart
  BY <1>8, <1>t, Dying, Faulty DEF TypeInv, ForgeTypeOK, Restart, SameFiles, At
<1> QED
  BY <1>1, <1>2, <1>3, <1>4, <1>5, <1>6, <1>7, <1>8 DEF Next

(* Types, of the files, the records and the tasks; a task never makes a    *)
(* medium from a cache that is empty (app.py, _prepare_task).              *)
THEOREM ForgeTypeOKHolds == Spec => []ForgeTypeOK
<1>1. TypeInv => ForgeTypeOK
  BY DEF TypeInv
<1> QED
  BY <1>1, TypeInvInit, TypeInvStep, PTL DEF Spec

-----------------------------------------------------------------------------
(* A step of a task leaves the other tasks. *)
Acts(t) ==
  \/ Start(t) \/ CheckVersion(t)
  \/ LookInCache(t) \/ OpenPart(t) \/ Fetch(t) \/ Verify(t) \/ Replace(t)
  \/ Prepare(t) \/ BeginCopy(t) \/ EndCopy(t)
  \/ CheckKnown(t) \/ PostVersion(t) \/ PostImage(t)
  \/ Breaks(t)

LEMMA Moving ==
  ASSUME TypeInv, NEW t \in Tasks, Acts(t)
  PROVE  /\ \A u \in Tasks \ {t} : task'[u] = task[u]
         /\ task'[t].version = task[t].version
         /\ ~Prepare(t) => task'[t].pure = task[t].pure
         /\ ~Running(t) => Start(t)
<1>t. task \in [Tasks -> Task]
  BY DEF TypeInv, ForgeTypeOK
<1>1. ASSUME NEW step \in Steps \union Ends, Goto(t, step)
      PROVE  /\ \A u \in Tasks \ {t} : task'[u] = task[u]
             /\ task'[t].version = task[t].version /\ task'[t].pure = task[t].pure
  BY <1>t, <1>1, Going DEF Only
<1>2. CASE OpenPart(t)
  BY <1>2, Opening DEF TypeInv, Only, Running, OpenPart, At, Steps
<1>3. CASE Prepare(t)
  BY <1>3, Preparing DEF TypeInv, Only, Running, Prepare, At, Steps
<1>4. CASE ~OpenPart(t) /\ ~Prepare(t)
  <2>1. \E step \in Steps \union Ends : Goto(t, step)
    BY <1>4 DEF Acts, Start, CheckVersion, LookInCache, Fetch, Verify, Replace, BeginCopy, EndCopy, CheckKnown,
       PostVersion, PostImage, Breaks, Fails, Steps, Ends
  <2>2. ~Running(t) => Start(t)
    BY <1>4 DEF Acts, CheckVersion, LookInCache, Fetch, Verify, Replace, BeginCopy, EndCopy, CheckKnown,
       PostVersion, PostImage, Breaks, Running, At, Steps
  <2> QED
    BY <1>1, <2>1, <2>2
<1> QED
  BY <1>2, <1>3, <1>4

LEMMA InvInit == Init => CacheInv /\ RecordInv
<1> SUFFICES ASSUME Init PROVE CacheInv /\ RecordInv
  OBVIOUS
<1>1. \A t \in Tasks : task[t].at = "new"
  BY DEF Init
<1>2. None \notin Tasks /\ Torn \notin Tasks /\ (cache # Torn => inode[cache].full)
  BY ForgeAssumption DEF Init, Inodes
<1>3. CacheInv
  BY <1>1, <1>2, ForgeAssumption DEF Init, CacheInv, Downloads, Fresh, At, MediaFromVerified
<1>4. RecordInv
  BY <1>1, <1>2 DEF Init, RecordInv, Running, RecordMatchesFile, At
<1> QED
  BY <1>3, <1>4

(* What is in the cache.  The steps of other tasks leave a download alone  *)
(* but for its .part; no task but t writes the file that t makes.          *)
LEMMA CacheActs ==
  ASSUME OneDownload, TypeInv, CacheInv, NEW t \in Tasks, Acts(t)
  PROVE  CacheInv'
<1>t. /\ task \in [Tasks -> Task] /\ cache \in Names /\ part \in Names
      /\ published \in [Versions -> Bytes] /\ inode \in [Inodes -> Inode]
      /\ At(t, "prepare") => cache # Torn
      /\ task[t].version \in Versions /\ task[t].fd \in Inodes
  BY DEF TypeInv, ForgeTypeOK, Task
<1>m. /\ \A u \in Tasks \ {t} : task'[u] = task[u]
      /\ task'[t].version = task[t].version
  BY Moving
<1>g. ASSUME NEW step \in Steps \union Ends, Goto(t, step) PROVE task'[t].at = step /\ task'[t].pure = task[t].pure
  BY <1>t, <1>g, Going
<1>o. /\ OpenPart(t) => task'[t].at = "fetch"
      /\ Prepare(t) => task'[t].at = "copy"
  BY <1>t, Opening, Preparing DEF TypeInv, Prepare
<1> USE DEF Steps, Ends
(* what the names stand for, and which files lose bytes *)
<1>p. \/ part' = part \/ part' = Torn
      \/ OpenPart(t) /\ part' = t /\ part = Torn
  BY DEF Acts, Start, CheckVersion, LookInCache, OpenPart, Fetch, Verify, Replace, Prepare, BeginCopy, EndCopy,
     CheckKnown, PostVersion, PostImage, Breaks, SameFiles
<1>c. \/ cache' = cache
      \/ Replace(t) /\ part # Torn /\ cache' = part /\ part' = Torn /\ inode' = inode
  BY DEF Acts, Start, CheckVersion, LookInCache, OpenPart, Fetch, Verify, Replace, Prepare, BeginCopy, EndCopy,
     CheckKnown, PostVersion, PostImage, Breaks, SameFiles
<1>i. ASSUME NEW i \in Inodes, inode[i].full PROVE inode'[i].full \/ (OpenPart(t) /\ i \in {part, t})
  <2>1. CASE OpenPart(t)
    <3> DEFINE j == IF part = Torn THEN t ELSE part
    <3>1. inode' = [inode EXCEPT ![j] = [by |-> t, full |-> FALSE]]
      BY <2>1 DEF OpenPart
    <3>2. j \in {part, t}
      OBVIOUS
    <3> HIDE DEF j
    <3> QED
      BY <1>i, <1>t, <2>1, <3>1, <3>2
  <2>2. CASE Fetch(t)
    <3>1. CASE UNCHANGED inode
      BY <1>i, <3>1
    <3>2. CASE inode' = [inode EXCEPT ![task[t].fd].full = @ \/ inode[task[t].fd].by = t]
      <4> DEFINE f == [inode[task[t].fd] EXCEPT !.full = @ \/ inode[task[t].fd].by = t]
      <4>1. inode[task[t].fd].full => f.full
        BY <1>t DEF Inode
      <4>2. inode' = [inode EXCEPT ![task[t].fd] = f]
        BY <3>2
      <4> HIDE DEF f
      <4> QED
        BY <1>i, <1>t, <4>1, <4>2
    <3> QED
      BY <2>2, <3>1, <3>2 DEF Fetch
  <2>3. CASE ~OpenPart(t) /\ ~Fetch(t)
    BY <1>i, <2>3 DEF Acts, Start, CheckVersion, LookInCache, Verify, Replace, Prepare, BeginCopy, EndCopy,
       CheckKnown, PostVersion, PostImage, Breaks, SameFiles
  <2> QED
    BY <2>1, <2>2, <2>3
(* where the task goes *)
<1>d. /\ Downloads(t)' => Downloads(t) \/ OpenPart(t)
      /\ Fresh(t)' => Fresh(t) /\ ~OpenPart(t)
      /\ At(t, "replace")' => Verify(t) /\ part # Torn /\ inode[part].full /\ UNCHANGED <<part, inode>>
  <2>1. CASE OpenPart(t) \/ Prepare(t)
    BY <1>o, <2>1 DEF Downloads, Fresh, At, OpenPart
  <2>2. CASE Start(t) \/ CheckVersion(t) \/ LookInCache(t)
    BY <1>g, <2>2 DEF Start, CheckVersion, LookInCache, Fails, Downloads, Fresh, At, OpenPart
  <2>3. CASE Fetch(t) \/ Verify(t) \/ Replace(t)
    BY <1>g, <2>3 DEF Fetch, Verify, Replace, Fails, Downloads, Fresh, At, OpenPart
  <2>4. CASE BeginCopy(t) \/ EndCopy(t) \/ CheckKnown(t) \/ PostVersion(t) \/ PostImage(t) \/ Breaks(t)
    BY <1>g, <2>4 DEF BeginCopy, EndCopy, CheckKnown, PostVersion, PostImage, Breaks, Fails, Downloads, Fresh, At
  <2> QED
    BY <2>1, <2>2, <2>3, <2>4 DEF Acts
<1>e. OpenPart(t) => Fresh(t) /\ \A u \in Tasks : ~Downloads(u)
  BY DEF OpenPart, Fresh, At
<1>1. cache' # Torn => inode'[cache'].full
  <2> SUFFICES ASSUME cache' # Torn PROVE inode'[cache'].full
    OBVIOUS
  <2>1. CASE cache' = cache
    <3>1. cache \in Inodes /\ inode[cache].full
      BY <1>t, <2>1 DEF CacheInv, Names
    <3>2. ~(OpenPart(t) /\ cache \in {part, t})
      BY <1>e, <2>1 DEF CacheInv
    <3> QED
      BY <1>i, <2>1, <3>1, <3>2
  <2>2. CASE Replace(t) /\ cache' = part /\ inode' = inode
    BY <2>2 DEF Replace, CacheInv
  <2> QED
    BY <1>c, <2>1, <2>2
<1>2. part' # Torn => part' # cache'
  BY <1>p, <1>c, <1>e, <1>t, ForgeAssumption DEF CacheInv, OpenPart
<1>3. ASSUME NEW u \in Tasks, Fresh(u)' PROVE u \notin {part', cache'}
  <2>1. Fresh(u) /\ ~(OpenPart(t) /\ u = t)
    BY <1>3, <1>d, <1>m DEF Fresh
  <2> QED
    BY <1>p, <1>c, <2>1, ForgeAssumption DEF CacheInv
<1>4. ASSUME NEW u \in Tasks, NEW w \in Tasks, Downloads(u)', Downloads(w)' PROVE u = w
  BY <1>4, <1>d, <1>e, <1>m DEF CacheInv, Downloads
<1>5. ASSUME NEW u \in Tasks, At(u, "replace")' PROVE (part # Torn /\ inode[part].full)'
  <2>1. CASE u # t
    <3>1. At(u, "replace") /\ Downloads(u)
      BY <1>5, <1>m, <2>1 DEF At, Downloads
    <3>2. part # Torn /\ inode[part].full /\ part \in Inodes
      BY <1>t, <3>1 DEF CacheInv, Names
    <3>3. ~Downloads(t) /\ ~OpenPart(t)
      BY <1>e, <2>1, <3>1 DEF CacheInv
    <3>4. part' = part
      BY <3>3 DEF Acts, Start, CheckVersion, LookInCache, Fetch, Verify, Replace, Prepare, BeginCopy, EndCopy,
         CheckKnown, PostVersion, PostImage, Breaks, SameFiles, Downloads, At
    <3> QED
      BY <1>i, <3>2, <3>3, <3>4
  <2>2. CASE u = t
    BY <1>5, <1>d, <2>2
  <2> QED
    BY <2>1, <2>2
<1>6. \A u \in Tasks : task[u].pure => task'[u].pure
  BY <1>m, <1>t, Moving, Preparing DEF TypeInv, CacheInv, Prepare
<1>7. ASSUME NEW u \in Tasks, task'[u].at \in {"copy", "copying", "known", "version", "image"} PROVE task'[u].pure
  <2>1. CASE u # t
    BY <1>7, <1>m, <2>1 DEF CacheInv
  <2>2. CASE Prepare(t)
    BY <1>7, <1>m, <1>t, <2>2, Preparing DEF TypeInv, CacheInv, Prepare
  <2>3. CASE u = t /\ ~Prepare(t)
    <3>1. task[t].at \in {"copy", "copying", "known", "version", "image"}
      <4>1. CASE OpenPart(t)
        BY <1>7, <1>o, <2>3, <4>1
      <4> QED
        BY <1>7, <1>g, <2>3, <4>1 DEF Acts, Start, CheckVersion, LookInCache, Fetch, Verify, Replace,
           BeginCopy, EndCopy, CheckKnown, PostVersion, PostImage, Breaks, Fails, At
    <3> QED
      BY <1>6, <2>3, <3>1 DEF CacheInv
  <2> QED
    BY <2>1, <2>2, <2>3
<1>8. MediaFromVerified'
  <2> SUFFICES ASSUME NEW v \in Versions, published'[v] \in Tasks PROVE task'[published'[v]].pure
    BY DEF MediaFromVerified
  <2>1. CASE published'[v] = published[v]
    BY <1>6, <2>1 DEF CacheInv, MediaFromVerified
  <2>2. CASE published'[v] # published[v]
    <3>1. published'[v] = t /\ At(t, "copying")
      <4>1. BeginCopy(t) \/ EndCopy(t)
        BY <2>2 DEF Acts, Start, CheckVersion, LookInCache, OpenPart, Fetch, Verify, Replace, Prepare,
           CheckKnown, PostVersion, PostImage, Breaks
      <4> QED
        BY <1>t, <2>2, <4>1, ForgeAssumption DEF BeginCopy, EndCopy
    <3> QED
      BY <1>6, <3>1 DEF CacheInv, At
  <2> QED
    BY <2>1, <2>2
<1> QED
  BY <1>1, <1>2, <1>3, <1>4, <1>5, <1>7, <1>8 DEF CacheInv

LEMMA CacheInvStep ==
  ASSUME OneDownload
  PROVE  TypeInv /\ CacheInv /\ [Next]_vars => CacheInv'
<1> SUFFICES ASSUME TypeInv, CacheInv, [Next]_vars PROVE CacheInv'
  OBVIOUS
<1>1. CASE UNCHANGED vars
  BY <1>1 DEF vars, CacheInv, Downloads, Fresh, At, MediaFromVerified
<1>2. CASE Restart
  <2>1. \A t \in Tasks : /\ task'[t].pure = task[t].pure /\ task'[t].at \in {"new", "success", "error"}
                         /\ task'[t] = task[t] \/ task'[t].at = "error"
    BY <1>2, Dying DEF TypeInv, ForgeTypeOK
  <2>2. UNCHANGED <<part, cache, inode, published>>
    BY <1>2 DEF Restart, SameFiles
  <2> QED
    BY <2>1, <2>2 DEF CacheInv, Downloads, Fresh, At, MediaFromVerified
<1> QED
  BY <1>1, <1>2, CacheActs DEF Next, Acts

(* Every medium that is published was made from a stock ISO whose checksum *)
(* was right ("SHA256SUMS-verified", prepare_media.py), for all crashed,   *)
(* cut off or wrong downloads that left a .part, and all overlaps of       *)
(* prepares of one or several versions, as long as no download begins      *)
(* while another one is between its open and its rename (OneDownload,      *)
(* which nothing in app.py enforces).                                      *)
THEOREM MediaFromVerifiedHolds ==
  ASSUME OneDownload
  PROVE  Spec => []MediaFromVerified
<1>1. CacheInv => MediaFromVerified
  BY DEF CacheInv
<1> QED
  BY <1>1, TypeInvInit, TypeInvStep, InvInit, CacheInvStep, PTL DEF Spec

-----------------------------------------------------------------------------
(* A version's medium and its record.  A step writes those of its task's   *)
(* version, and no other task is at work on that version.                  *)
LEMMA OwnVersion ==
  ASSUME TypeInv, NEW t \in Tasks, Acts(t)
  PROVE  /\ \A v \in Versions : v # task[t].version => record'[v] = record[v] /\ published'[v] = published[v]
         /\ UNCHANGED record \/ PostVersion(t) \/ PostImage(t)
         /\ UNCHANGED published \/ BeginCopy(t) \/ EndCopy(t)
<1>1. UNCHANGED record \/ PostVersion(t) \/ PostImage(t)
  BY DEF Acts, Start, CheckVersion, LookInCache, OpenPart, Fetch, Verify, Replace, Prepare, BeginCopy, EndCopy,
     CheckKnown, Breaks
<1>2. UNCHANGED published \/ BeginCopy(t) \/ EndCopy(t)
  BY DEF Acts, Start, CheckVersion, LookInCache, OpenPart, Fetch, Verify, Replace, Prepare,
     CheckKnown, PostVersion, PostImage, Breaks
<1> QED
  BY <1>1, <1>2 DEF PostVersion, PostImage, BeginCopy, EndCopy, TypeInv, ForgeTypeOK

LEMMA RecordActs ==
  ASSUME OnePerVersion, TypeInv, RecordInv, NEW t \in Tasks, Acts(t)
  PROVE  RecordInv'
<1> DEFINE mine == task[t].version
<1>t. /\ task \in [Tasks -> Task] /\ record \in [Versions -> Record] /\ published \in [Versions -> Bytes]
      /\ mine \in Versions /\ record[mine] \in Record
  BY DEF TypeInv, ForgeTypeOK, Task
<1>m. /\ \A u \in Tasks \ {t} : task'[u] = task[u]
      /\ task'[t].version = mine
      /\ ~Running(t) => Start(t)
  BY Moving
<1>g. ASSUME NEW step \in Steps \union Ends, Goto(t, step) PROVE task'[t].at = step
  BY <1>t, <1>g, Going
<1>o. /\ OpenPart(t) => task'[t].at = "fetch"
      /\ Prepare(t) => task'[t].at = "copy"
  <2>1. Prepare(t) => cache # Torn
    BY DEF Prepare, TypeInv
  <2> QED
    BY <2>1, Opening, Preparing DEF TypeInv
<1>r. \A v \in Versions : record[v].image \in Tasks \union {None}
  BY <1>t DEF Record
<1>v. ASSUME NEW v \in Versions
      PROVE  v # mine => record'[v] = record[v] /\ published'[v] = published[v]
  BY OwnVersion
<1> HIDE DEF mine
<1> USE DEF Steps, Ends
<1>1. \A u, w \in Tasks : Running(u)' /\ Running(w)' /\ task'[u].version = task'[w].version => u = w
  <2>1. \A u \in Tasks : task'[u].version = task[u].version
    BY <1>m DEF mine
  <2>2. CASE Start(t)
    <3>1. \A u \in Tasks : Running(u) => task[u].version # task[t].version
      BY <2>2 DEF Start
    <3>2. \A u \in Tasks \ {t} : Running(u)' => Running(u)
      BY <1>m DEF Running
    <3> QED
      BY <2>1, <3>1, <3>2 DEF RecordInv
  <2>3. CASE Running(t)
    <3>1. \A u \in Tasks : Running(u)' => Running(u)
      BY <1>m, <2>3 DEF Running
    <3> QED
      BY <2>1, <3>1 DEF RecordInv
  <2> QED
    BY <1>m, <2>2, <2>3
(* the others' versions are not this one's *)
<1>2. ASSUME NEW u \in Tasks \ {t}, Running(u) PROVE /\ record'[task[u].version] = record[task[u].version]
                                                    /\ published'[task[u].version] = published[task[u].version]
  <2>1. task[u].version \in Versions
    BY <1>t DEF Task
  <2>2. CASE Running(t)
    <3>1. task[u].version # mine
      BY <1>2, <2>2 DEF RecordInv, mine
    <3> QED
      BY <1>v, <2>1, <3>1
  <2>3. CASE Start(t)
    BY <2>3 DEF Start
  <2> QED
    BY <1>m, <2>2, <2>3
<1>3. ASSUME NEW v \in Versions, record'[v].image # None PROVE record'[v].exists
  <2>1. CASE record'[v] = record[v]
    BY <1>3, <2>1 DEF RecordInv
  <2>2. CASE record'[v] # record[v]
    <3>1. v = mine /\ (PostVersion(t) \/ PostImage(t))
      BY <1>v, <2>2, OwnVersion
    <3>2. CASE PostVersion(t)
      BY <1>t, <2>2, <3>1, <3>2 DEF PostVersion, Record, mine
    <3>3. CASE PostImage(t)
      BY <1>t, <2>2, <3>1, <3>3 DEF PostImage, RecordInv, Record, mine, At
    <3> QED
      BY <3>1, <3>2, <3>3
  <2> QED
    BY <2>1, <2>2
<1>4. ASSUME NEW u \in Tasks, Running(u)', task'[u].at \notin {"check", "known", "image"}
      PROVE  ~record'[task'[u].version].exists
  <2>1. CASE u # t
    <3>1. task'[u] = task[u] /\ Running(u)
      BY <1>4, <1>m, <2>1 DEF Running
    <3> QED
      BY <1>2, <1>4, <2>1, <3>1 DEF RecordInv
  <2>2. CASE u = t
    <3>1. /\ UNCHANGED record
          /\ ~record[mine].exists
      <4>1. CASE CheckVersion(t) \/ CheckKnown(t)
        BY <1>4, <1>g, <2>2, <4>1 DEF CheckVersion, CheckKnown, Fails, Running, mine
      <4>2. CASE PostVersion(t) \/ PostImage(t) \/ Breaks(t) \/ Start(t)
        BY <1>4, <1>g, <2>2, <4>2 DEF PostVersion, PostImage, Breaks, Start, Fails, Running
      <4>3. CASE ~(CheckVersion(t) \/ CheckKnown(t) \/ PostVersion(t) \/ PostImage(t) \/ Breaks(t) \/ Start(t))
        <5>1. UNCHANGED record /\ task[t].at \notin {"check", "known", "image"}
          BY <4>3, OwnVersion DEF Acts, LookInCache, OpenPart, Fetch, Verify, Replace, Prepare, BeginCopy, EndCopy, At
        <5> QED
          BY <1>m, <4>3, <5>1 DEF RecordInv, mine
      <4> QED
        BY <4>1, <4>2, <4>3
    <3> QED
      BY <1>m, <2>2, <3>1
  <2> QED
    BY <2>1, <2>2
<1>5. ASSUME NEW u \in Tasks, task'[u].at \in {"known", "version", "image"}
      PROVE  published'[task'[u].version] = u /\ (At(u, "image")' => record'[task'[u].version].exists)
  <2>1. CASE u # t
    <3>1. task'[u] = task[u] /\ Running(u)
      BY <1>5, <1>m, <2>1 DEF Running
    <3> QED
      BY <1>2, <1>5, <2>1, <3>1 DEF RecordInv, At
  <2>2. CASE u = t
    <3>1. CASE EndCopy(t)
      <4>1. At(t, "copying") /\ task'[t].at = "known"
        BY <1>g, <3>1 DEF EndCopy
      <4>2. published[mine] = None
        BY <4>1 DEF RecordInv, mine
      <4>3. published'[mine] = t
        BY <1>t, <3>1, <4>2 DEF EndCopy, mine
      <4> QED
        BY <1>m, <2>2, <4>1, <4>3 DEF At
    <3>2. CASE CheckKnown(t) \/ PostVersion(t)
      <4>1. task[t].at \in {"known", "version"} /\ UNCHANGED published
        BY <3>2 DEF CheckKnown, PostVersion, At
      <4>2. At(t, "image")' => record'[mine].exists
        <5>1. CASE CheckKnown(t)
          BY <1>g, <5>1 DEF CheckKnown, At
        <5>2. CASE PostVersion(t)
          BY <1>g, <1>t, <5>2 DEF PostVersion, At, Record, mine
        <5> QED
          BY <3>2, <5>1, <5>2
      <4> QED
        BY <1>m, <2>2, <4>1, <4>2 DEF RecordInv, mine
    <3>3. CASE ~(EndCopy(t) \/ CheckKnown(t) \/ PostVersion(t))
      BY <1>5, <1>g, <1>o, <2>2, <3>3 DEF Acts, Start, CheckVersion, LookInCache, Fetch, Verify, Replace, BeginCopy,
         PostImage, Breaks, Fails
    <3> QED
      BY <3>1, <3>2, <3>3
  <2> QED
    BY <2>1, <2>2
<1>6. ASSUME NEW v \in Versions, record'[v].image \in Tasks PROVE published'[v] = record'[v].image
  <2>1. CASE v # mine \/ UNCHANGED <<record, published>>
    BY <1>v, <1>6, <2>1 DEF RecordInv, RecordMatchesFile
  <2>2. CASE v = mine /\ (BeginCopy(t) \/ EndCopy(t))
    <3>1. UNCHANGED record /\ task[t].at \in {"copy", "copying"}
      BY <2>2 DEF BeginCopy, EndCopy, At
    <3>2. ~record[mine].exists
      BY <3>1 DEF RecordInv, Running, mine
    <3> QED
      BY <1>6, <2>2, <3>1, <3>2, ForgeAssumption DEF RecordInv
  <2>3. CASE v = mine /\ PostVersion(t)
    <3>1. record'[mine].image = record[mine].image /\ UNCHANGED published
      BY <1>t, <2>3 DEF PostVersion, Record, mine
    <3> QED
      BY <1>6, <2>3, <3>1 DEF RecordInv, RecordMatchesFile
  <2>4. CASE v = mine /\ PostImage(t)
    <3>1. record'[mine].image = t /\ UNCHANGED published /\ At(t, "image")
      BY <1>t, <2>4 DEF PostImage, Record, mine
    <3> QED
      BY <2>4, <3>1 DEF RecordInv, At, mine
  <2> QED
    BY <2>1, <2>2, <2>3, <2>4, OwnVersion
<1>7. ASSUME NEW u \in Tasks, At(u, "copying")' PROVE published'[task'[u].version] = None
  <2>1. CASE u # t
    <3>1. task'[u] = task[u] /\ Running(u) /\ At(u, "copying")
      BY <1>7, <1>m, <2>1 DEF Running, At
    <3> QED
      BY <1>2, <2>1, <3>1 DEF RecordInv
  <2>2. CASE u = t
    <3>1. BeginCopy(t)
      <4>1. CASE OpenPart(t) \/ Prepare(t)
        BY <1>7, <1>o, <2>2, <4>1 DEF At
      <4> QED
        BY <1>7, <1>g, <2>2, <4>1 DEF Acts, Start, CheckVersion, LookInCache, Fetch, Verify, Replace, EndCopy,
           CheckKnown, PostVersion, PostImage, Breaks, Fails, At
    <3>2. CopiedBy(mine) = {}
      <4>1. At(t, "copy") /\ Running(t)
        BY <3>1 DEF BeginCopy, Running, At
      <4>2. \A w \in CopiedBy(mine) : w \in Tasks /\ Running(w) /\ task[w].version = task[t].version /\ w # t
        BY <4>1 DEF CopiedBy, At, Running, mine
      <4> QED
        BY <4>1, <4>2 DEF RecordInv
    <3> QED
      BY <1>m, <1>t, <2>2, <3>1, <3>2 DEF BeginCopy, mine
  <2> QED
    BY <2>1, <2>2
<1> QED
  BY <1>1, <1>3, <1>4, <1>5, <1>6, <1>7 DEF RecordInv, RecordMatchesFile, At

LEMMA RecordInvStep ==
  ASSUME OnePerVersion
  PROVE  TypeInv /\ RecordInv /\ [Next]_vars => RecordInv'
<1> SUFFICES ASSUME TypeInv, RecordInv, [Next]_vars PROVE RecordInv'
  OBVIOUS
<1>1. CASE UNCHANGED vars
  BY <1>1 DEF vars, RecordInv, Running, At, RecordMatchesFile
<1>2. CASE Restart
  <2>1. \A t \in Tasks : task'[t].at \in {"new", "success", "error"}
    BY <1>2, Dying DEF TypeInv, ForgeTypeOK
  <2>2. UNCHANGED <<record, published>>
    BY <1>2 DEF Restart
  <2> QED
    BY <2>1, <2>2 DEF RecordInv, Running, At, RecordMatchesFile, Steps
<1> QED
  BY <1>1, <1>2, RecordActs DEF Next, Acts

(* "A new prepare can never overwrite the artifact an existing version's   *)
(* checksum points at" (app.py, _prepare_task): a recorded medium is the   *)
(* one in its file, for all restarts, failing calls and overlapping        *)
(* downloads, as long as no task of a version starts while another one of  *)
(* that version runs (OnePerVersion, which nothing in app.py enforces).    *)
THEOREM RecordMatchesFileHolds ==
  ASSUME OnePerVersion
  PROVE  Spec => []RecordMatchesFile
<1>1. RecordInv => RecordMatchesFile
  BY DEF RecordInv
<1> QED
  BY <1>1, TypeInvInit, TypeInvStep, InvInit, RecordInvStep, PTL DEF Spec
=============================================================================
