----------------------------- MODULE StorageLayout -----------------------------
(***************************************************************************)
(* Planning of a RAID layout (jobs/lib/storage_layout.py, plan_volumes):   *)
(* for each volume the profile asks for, keep a virtual drive (VD) that    *)
(* has its name, adopt a hand-made one that has its role, or create one    *)
(* from free drives; and refuse the whole layout where anything is         *)
(* ambiguous.  Pure: what the adapter reports is the argument.             *)
(*                                                                         *)
(* Data kept: drives are numbers (the order of their ids), a capacity is a *)
(* number and 0 when the adapter does not report it.                       *)
(***************************************************************************)
EXTENDS Naturals, Sequences, FiniteSets

CONSTANTS
  Drives,     \* drives behind the adapter, numbered in the order of their ids
  Layout      \* the profile's storage.volumes: records of name, raid, select, count

ASSUME LayoutAssumption ==
  /\ Drives \subseteq Nat
  /\ IsFiniteSet(Drives)
  /\ Layout \in Seq([name : STRING, raid : {"RAID0", "RAID1", "RAID10"},
                     select : {"smallest", "largest"}, count : Nat \ {0}])
  /\ Layout # <<>>
  /\ \A i, j \in DOMAIN Layout : i # j => Layout[i].name # Layout[j].name

SpecNames == {Layout[i].name : i \in DOMAIN Layout}

(* What a run has read: capacity (0: not reported) of the drives that are  *)
(* listed, those of them that are free, and the VDs (id, name, raid,       *)
(* drives).                                                                *)
Listed(view) == DOMAIN view.capacity
Capacity(view, d) == view.capacity[d]
Unsized(view, pool) == \E d \in pool : Capacity(view, d) = 0

(* the capacity-sorted list; ties go by id *)
Before(view, d, e) ==
  \/ Capacity(view, d) < Capacity(view, e)
  \/ Capacity(view, d) = Capacity(view, e) /\ d < e

Pick(view, pool, select, n) ==
  IF select = "smallest"
    THEN {d \in pool : Cardinality({e \in pool : Before(view, e, d)}) < n}
    ELSE {d \in pool : Cardinality({e \in pool : Before(view, d, e)}) < n}

SameSize(view, pick) == Cardinality({Capacity(view, d) : d \in pick}) = 1

(* another drive of the pool has the size of the picked ones *)
Ambiguous(view, pool, pick) ==
  /\ SameSize(view, pick)
  /\ \E d \in pool \ pick, e \in pick : Capacity(view, d) = Capacity(view, e)

(* the listing's order is the ids'; by_name keeps the last of a name *)
FirstVd(vds) == CHOOSE v \in vds : \A w \in vds : v.id <= w.id
LastVd(vds) == CHOOSE v \in vds : \A w \in vds : w.id <= v.id

-----------------------------------------------------------------------------
(* _adopt: hand-made VDs of the entry's shape, weighed all together *)
Candidates(vol, view, claimed) ==
  {v \in view.vds :
     /\ v.id \notin claimed
     /\ v.name \notin SpecNames
     /\ v.raid = vol.raid
     /\ v.drives \subseteq Listed(view)
     /\ Cardinality(v.drives) = vol.count}

AdoptionPool(cands, free) == free \union UNION {v.drives : v \in cands}

(* mutant: each candidate is weighed against the free drives and its own *)
AdoptedOwnPool(vol, view, claimed, free) ==
  LET cands == Candidates(vol, view, claimed)
      Picked(v) == Pick(view, AdoptionPool({v}, free), vol.select, vol.count)
  IN  [refused |-> Unsized(view, AdoptionPool(cands, free)) /\ cands # {},
       vds |-> {v \in cands : v.drives = Picked(v)}]

Adopted(vol, view, claimed, free) ==
  LET cands == Candidates(vol, view, claimed)
      pool == AdoptionPool(cands, free)
      picked == Pick(view, pool, vol.select, vol.count)
      hits == {v \in cands : v.drives = picked}
  IN  [refused |-> /\ cands # {}
                   /\ Unsized(view, pool) \/ (hits # {} /\ Ambiguous(view, pool, picked)),
       vds |-> hits]

(* a run's decision for one entry, after those for the entries before it *)
KeepStep(vol, vd) == [action |-> "keep", name |-> vol.name, raid |-> vol.raid, drives |-> vd.drives, id |-> vd.id]
CreateStep(vol, pick) == [action |-> "create", name |-> vol.name, raid |-> vol.raid, drives |-> pick, id |-> 0]

Refuse(acc) == [acc EXCEPT !.refused = TRUE]

Keep(acc, vol, vd) ==
  IF vd.raid # vol.raid THEN Refuse(acc)
  ELSE [acc EXCEPT !.claimed = @ \union {vd.id}, !.steps = Append(@, KeepStep(vol, vd))]

(* mutant: a capacity that is not reported counts as 0 *)
CreateUnsized(acc, vol, view) ==
  LET pick == Pick(view, acc.free, vol.select, vol.count)
  IN  IF \/ Cardinality(acc.free) < vol.count
         \/ ~SameSize(view, pick)
         \/ Ambiguous(view, acc.free, pick)
        THEN Refuse(acc)
        ELSE [acc EXCEPT !.free = @ \ pick, !.steps = Append(@, CreateStep(vol, pick))]

Create(acc, vol, view) ==
  LET pick == Pick(view, acc.free, vol.select, vol.count)
  IN  IF \/ Cardinality(acc.free) < vol.count
         \/ Unsized(view, acc.free)
         \/ ~SameSize(view, pick)
         \/ Ambiguous(view, acc.free, pick)
        THEN Refuse(acc)
        ELSE [acc EXCEPT !.free = @ \ pick, !.steps = Append(@, CreateStep(vol, pick))]

PlanOne(acc, vol, view) ==
  LET named == {v \in view.vds : v.name = vol.name}
      adopted == Adopted(vol, view, acc.claimed, acc.free)
  IN  IF acc.refused THEN acc
      ELSE IF named # {} THEN Keep(acc, vol, LastVd(named))
      ELSE IF adopted.refused THEN Refuse(acc)
      ELSE IF adopted.vds # {} THEN Keep(acc, vol, FirstVd(adopted.vds))
      ELSE Create(acc, vol, view)

(* plan_volumes: what is decided after the first n entries *)
NothingPlanned(view) == [refused |-> FALSE, free |-> view.free, claimed |-> {}, steps |-> <<>>]

Planned(view) ==
  LET planned[n \in 0..Len(Layout)] ==
        IF n = 0 THEN NothingPlanned(view) ELSE PlanOne(planned[n - 1], Layout[n], view)
  IN  planned

Plan(view) == Planned(view)[Len(Layout)]

(* the positions of a plan's creations *)
Creates(steps) == {i \in DOMAIN steps : steps[i].action = "create"}

(* _boot_position: the first VD of a listing; an empty one has none *)
BootIsFirst(bootId, vds) == vds # {} /\ FirstVd(vds).id = bootId
=============================================================================
