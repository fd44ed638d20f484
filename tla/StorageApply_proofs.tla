-------------------------- MODULE StorageApply_proofs --------------------------
(***************************************************************************)
(* The RAID layout step for any adapter, layout, number of runs and faults.*)
(***************************************************************************)
EXTENDS StorageApply, FiniteSetTheorems, WellFoundedInduction, TLAPS

(* Induction over the natural numbers, as a fact about sets: a set of      *)
(* numbers has a least element, since the sets below its elements are well *)
(* ordered by inclusion.                                                   *)
LEMMA Least ==
  ASSUME NEW T \in SUBSET Nat, T # {}
  PROVE \E x \in T : \A y \in T : x <= y
<1> DEFINE Upto(n) == {m \in Nat : m < n}
           U == {Upto(n) : n \in T}
           R == StrictSubsetOrdering(Nat)
<1>1. U \subseteq FiniteSubsetsOf(Nat) /\ U # {}
  <2>1. ASSUME NEW n \in T PROVE IsFiniteSet(Upto(n))
    <3>1. IsFiniteSet(0..n) /\ Upto(n) \subseteq 0..n
      BY FS_Interval
    <3> QED
      BY <3>1, FS_Subset
  <2> QED
    BY <2>1 DEF FiniteSubsetsOf
<1>2. \E x \in U : \A y \in U : ~(<<y, x>> \in R)
  <2> HIDE DEF U, R
  <2>1. IsWellFoundedOn(R, FiniteSubsetsOf(Nat))
    BY FS_StrictSubsetOrderingWellFounded DEF R
  <2> QED
    BY <1>1, <2>1, WFMin
<1>3. PICK n \in T : \A y \in U : ~(<<y, Upto(n)>> \in R)
  BY <1>2
<1>4. ASSUME NEW m \in T, m < n PROVE FALSE
  <2>1. Upto(m) \subseteq Upto(n) /\ m \in Upto(n) /\ m \notin Upto(m)
    BY <1>4
  <2>2. <<Upto(m), Upto(n)>> \in R
    <3> DEFINE a == Upto(m)
               b == Upto(n)
    <3>1. a \in SUBSET Nat /\ b \in SUBSET Nat /\ a \subseteq b /\ a # b
      BY <2>1
    <3> HIDE DEF a, b
    <3>2. <<a, b>> \in R
      BY <3>1 DEF StrictSubsetOrdering
    <3> QED
      BY <3>2 DEF a, b
  <2> QED
    BY <1>3, <2>2
<1> QED
  BY <1>3, <1>4

LEMMA Induction ==
  ASSUME NEW S \in SUBSET Nat, 0 \in S, \A n \in S : n + 1 \in S
  PROVE S = Nat
<1> SUFFICES ASSUME Nat \ S # {} PROVE FALSE
  OBVIOUS
<1>1. PICK x \in Nat \ S : \A y \in Nat \ S : x <= y
  BY Least
<1>2. x # 0 /\ x - 1 \in Nat /\ ~(x <= x - 1)
  BY <1>1
<1>3. x - 1 \in S
  BY <1>1, <1>2
<1> QED
  BY <1>1, <1>2, <1>3

LEMMA UpTo ==
  ASSUME NEW N \in Nat, NEW S \in SUBSET (0..N), 0 \in S, \A n \in S : n < N => n + 1 \in S
  PROVE S = 0..N
<1> DEFINE T == {n \in Nat : n <= N => n \in S}
<1>1. T \in SUBSET Nat /\ 0 \in T /\ \A n \in T : n + 1 \in T
  OBVIOUS
<1>2. T = Nat
  <2> HIDE DEF T
  <2> QED
    BY <1>1, Induction
<1>3. ASSUME NEW n \in 0..N PROVE n \in S
  <2>1. n \in T /\ n <= N
    BY <1>2
  <2> QED
    BY <2>1
<1> QED
  BY <1>3

LEMMA DownFrom ==
  ASSUME NEW N \in Nat, NEW S \in SUBSET (0..N), N \in S, \A n \in S : 0 < n => n - 1 \in S
  PROVE S = 0..N
<1> DEFINE T == {j \in 0..N : N - j \in S}
<1>1. T \in SUBSET (0..N) /\ 0 \in T
  OBVIOUS
<1>2. ASSUME NEW j \in T, j < N PROVE j + 1 \in T
  <2>1. N - j \in S /\ 0 < N - j /\ (N - j) - 1 = N - (j + 1) /\ j + 1 \in 0..N
    BY <1>2
  <2> QED
    BY <2>1
<1>3. T = 0..N
  <2> HIDE DEF T
  <2> QED
    BY <1>1, <1>2, UpTo
<1>4. ASSUME NEW n \in 0..N PROVE n \in S
  <2>1. N - n \in 0..N /\ N - (N - n) = n
    OBVIOUS
  <2>2. N - n \in T
    <3> HIDE DEF T
    <3> QED
      BY <1>3, <2>1
  <2> QED
    BY <2>1, <2>2
<1> QED
  BY <1>4

(* The planner's recursion over the entries. *)
LEMMA Planning ==
  ASSUME NEW view
  PROVE /\ Planned(view)[0] = NothingPlanned(view)
        /\ \A n \in 1..Len(Layout) : Planned(view)[n] = PlanOne(Planned(view)[n - 1], Layout[n], view)
<1> DEFINE Fits(g, n) ==
             g = [i \in 0..n |-> IF i = 0 THEN NothingPlanned(view) ELSE PlanOne(g[i - 1], Layout[i], view)]
           S == {n \in Nat : \E g : Fits(g, n)}
<1>1. Len(Layout) \in Nat
  BY LayoutAssumption
<1>2. S = Nat
  <2>1. 0 \in S
    <3> DEFINE g == [i \in 0..0 |-> NothingPlanned(view)]
    <3>1. Fits(g, 0)
      OBVIOUS
    <3> QED
      BY <3>1
  <2>2. ASSUME NEW n \in S PROVE n + 1 \in S
    <3>1. PICK g : Fits(g, n)
      OBVIOUS
    <3> DEFINE h == [i \in 0..(n + 1) |-> IF i <= n THEN g[i] ELSE PlanOne(g[n], Layout[n + 1], view)]
               k == [i \in 0..(n + 1) |-> IF i = 0 THEN NothingPlanned(view) ELSE PlanOne(h[i - 1], Layout[i], view)]
    <3>2. n \in Nat /\ g = [i \in 0..n |-> IF i = 0 THEN NothingPlanned(view) ELSE PlanOne(g[i - 1], Layout[i], view)]
      BY <3>1
    <3>3. ASSUME NEW i \in 0..(n + 1) PROVE h[i] = k[i]
      <4>1. CASE i = 0
        BY <3>2, <4>1
      <4>2. CASE i # 0 /\ i <= n
        <5>1. i - 1 \in 0..(n + 1) /\ i - 1 <= n /\ i \in 0..n
          BY <3>2, <4>2
        <5>2. h[i - 1] = g[i - 1] /\ h[i] = g[i]
          BY <4>2, <5>1
        <5>3. g[i] = PlanOne(g[i - 1], Layout[i], view)
          BY <3>2, <4>2, <5>1
        <5> QED
          BY <4>2, <5>2, <5>3
      <4>3. CASE i = n + 1
        BY <3>2, <4>3
      <4> QED
        BY <3>2, <4>1, <4>2, <4>3
    <3>4. h = k
      BY <3>3
    <3> HIDE DEF h
    <3>5. Fits(h, n + 1)
      BY <3>4
    <3> QED
      BY <3>2, <3>5
  <2> HIDE DEF S
  <2>3. S \in SUBSET Nat
    BY DEF S
  <2> QED
    BY <2>1, <2>2, <2>3, Induction
<1>3. PICK g : Fits(g, Len(Layout))
  BY <1>1, <1>2
<1>4. Fits(Planned(view), Len(Layout))
  BY <1>3 DEF Planned
<1> HIDE DEF S
<1> QED
  BY <1>1, <1>4

(* The first and the last of a listing are in it. *)
LEMMA FirstOfAll ==
  ASSUME NEW vs \in SUBSET Vd, vs # {}
  PROVE FirstVd(vs) \in vs /\ \A w \in vs : FirstVd(vs).id <= w.id
<1> DEFINE T == {v.id : v \in vs}
<1>1. T \in SUBSET Nat /\ T # {}
  BY DEF Vd
<1>2. PICK n \in T : \A m \in T : n <= m
  <2> HIDE DEF T
  <2> QED
    BY <1>1, Least
<1>3. \E v \in vs : \A w \in vs : v.id <= w.id
  BY <1>2
<1> QED
  BY <1>3 DEF FirstVd

LEMMA LastOfAll ==
  ASSUME NEW vs \in SUBSET Vd, vs # {}, IsFiniteSet(vs)
  PROVE LastVd(vs) \in vs /\ \A w \in vs : w.id <= LastVd(vs).id
<1> DEFINE After(v) == {w \in vs : v.id < w.id}
           U == {After(v) : v \in vs}
           R == StrictSubsetOrdering(vs)
<1>1. U \subseteq FiniteSubsetsOf(vs) /\ U # {}
  <2>1. ASSUME NEW v \in vs PROVE After(v) \in SUBSET vs /\ IsFiniteSet(After(v))
    BY FS_Subset
  <2> QED
    BY <2>1 DEF FiniteSubsetsOf
<1>2. \E x \in U : \A y \in U : ~(<<y, x>> \in R)
  <2> HIDE DEF U, R
  <2>1. IsWellFoundedOn(R, FiniteSubsetsOf(vs))
    BY FS_StrictSubsetOrderingWellFounded DEF R
  <2> QED
    BY <1>1, <2>1, WFMin
<1>3. PICK v \in vs : \A y \in U : ~(<<y, After(v)>> \in R)
  BY <1>2
<1>4. ASSUME NEW w \in vs, v.id < w.id PROVE FALSE
  <2>1. After(w) \subseteq After(v) /\ w \in After(v) /\ w \notin After(w)
    BY <1>4 DEF Vd
  <2>2. <<After(w), After(v)>> \in R
    <3> DEFINE a == After(w)
               b == After(v)
    <3>1. a \in SUBSET vs /\ b \in SUBSET vs /\ a \subseteq b /\ a # b
      BY <2>1
    <3> HIDE DEF a, b
    <3>2. <<a, b>> \in R
      BY <3>1 DEF StrictSubsetOrdering
    <3> QED
      BY <3>2 DEF a, b
  <2> QED
    BY <1>3, <2>2
<1>5. \A w \in vs : w.id <= v.id
  BY <1>4 DEF Vd
<1> QED
  BY <1>5 DEF LastVd

-----------------------------------------------------------------------------
(* What a run has read, what it has decided so far. *)
Raids == {"RAID0", "RAID1", "RAID10"}
StepRecords == [action : {"keep", "create"}, name : SpecNames, raid : Raids, drives : SUBSET Drives, id : Nat]

ViewTyped(view) ==
  /\ Listed(view) \subseteq Drives
  /\ view.capacity \in [Listed(view) -> Nat]
  /\ view.free \subseteq Listed(view)
  /\ view.vds \subseteq Vd
  /\ IsFiniteSet(view.vds)

Decisions(view) ==
  [refused : BOOLEAN, free : SUBSET view.free, claimed : SUBSET Nat, steps : Seq(StepRecords)]

Named(vol, view) == {v \in view.vds : v.name = vol.name}

LEMMA EntryTyped ==
  ASSUME NEW i \in 1..Len(Layout)
  PROVE /\ i \in DOMAIN Layout
        /\ Layout[i].name \in SpecNames
        /\ Layout[i].name \in STRING
        /\ Layout[i].raid \in Raids
        /\ Layout[i].count \in Nat \ {0}
        /\ Layout[i].select \in {"smallest", "largest"}
<1> DEFINE Entries == [name : STRING, raid : {"RAID0", "RAID1", "RAID10"},
                       select : {"smallest", "largest"}, count : Nat \ {0}]
<1>1. Layout \in Seq(Entries)
  BY LayoutAssumption
<1>2. i \in DOMAIN Layout /\ Layout[i] \in Entries
  <2> HIDE DEF Entries
  <2> QED
    BY <1>1
<1> QED
  BY <1>2 DEF SpecNames, Raids

LEMMA PickWithin ==
  ASSUME NEW view, NEW pool, NEW select, NEW n
  PROVE Pick(view, pool, select, n) \subseteq pool
  BY DEF Pick

(* One entry is kept as a VD that is there, or created, or the plan is off. *)
KeepsOne(acc, vol, view, v) ==
  /\ PlanOne(acc, vol, view) = [acc EXCEPT !.claimed = @ \union {v.id}, !.steps = Append(@, KeepStep(vol, v))]
  /\ v.raid = vol.raid
  /\ \/ Named(vol, view) # {} /\ v = LastVd(Named(vol, view))
     \/ /\ Named(vol, view) = {}
        /\ ~Adopted(vol, view, acc.claimed, acc.free).refused
        /\ v \in Adopted(vol, view, acc.claimed, acc.free).vds
        /\ v = FirstVd(Adopted(vol, view, acc.claimed, acc.free).vds)

CreatesOne(acc, vol, view) ==
  LET pick == Pick(view, acc.free, vol.select, vol.count)
  IN  /\ Named(vol, view) = {}
      /\ ~Adopted(vol, view, acc.claimed, acc.free).refused
      /\ Adopted(vol, view, acc.claimed, acc.free).vds = {}
      /\ ~(Cardinality(acc.free) < vol.count)
      /\ ~Unsized(view, acc.free)
      /\ SameSize(view, pick)
      /\ ~Ambiguous(view, acc.free, pick)
      /\ PlanOne(acc, vol, view) = [acc EXCEPT !.free = @ \ pick, !.steps = Append(@, CreateStep(vol, pick))]

LEMMA DecideOne ==
  ASSUME NEW view, ViewTyped(view), NEW acc \in Decisions(view), NEW i \in 1..Len(Layout),
         ~PlanOne(acc, Layout[i], view).refused
  PROVE /\ ~acc.refused
        /\ \/ \E v \in view.vds : KeepsOne(acc, Layout[i], view, v)
           \/ CreatesOne(acc, Layout[i], view)
<1> DEFINE vol == Layout[i]
           named == Named(vol, view)
           adopted == Adopted(vol, view, acc.claimed, acc.free)
<1>1. ~acc.refused
  BY DEF PlanOne
<1>2. Refuse(acc).refused
  BY DEF Refuse, Decisions
<1>3. CASE named # {}
  <2>1. LastVd(named) \in named
    <3>1. named \in SUBSET Vd /\ IsFiniteSet(named)
      BY FS_Subset DEF ViewTyped, Named
    <3> QED
      BY <1>3, <3>1, LastOfAll
  <2>2. PlanOne(acc, vol, view) = Keep(acc, vol, LastVd(named))
    BY <1>1, <1>3 DEF PlanOne, Named
  <2>3. KeepsOne(acc, vol, view, LastVd(named))
    BY <1>2, <1>3, <2>2 DEF Keep, KeepsOne
  <2> QED
    BY <1>1, <2>1, <2>3 DEF Named
<1>4. CASE named = {}
  <2>1. ~adopted.refused
    BY <1>1, <1>2, <1>4 DEF PlanOne, Named
  <2>2. CASE adopted.vds # {}
    <3>1. adopted.vds \subseteq view.vds
      BY DEF Adopted, Candidates
    <3>2. FirstVd(adopted.vds) \in adopted.vds
      BY <2>2, <3>1, FirstOfAll DEF ViewTyped
    <3>3. PlanOne(acc, vol, view) = Keep(acc, vol, FirstVd(adopted.vds))
      BY <1>1, <1>4, <2>1, <2>2 DEF PlanOne, Named
    <3>4. KeepsOne(acc, vol, view, FirstVd(adopted.vds))
      BY <1>2, <1>4, <2>1, <3>2, <3>3 DEF Keep, KeepsOne
    <3> QED
      BY <1>1, <3>1, <3>2, <3>4
  <2>3. CASE adopted.vds = {}
    <3>1. PlanOne(acc, vol, view) = Create(acc, vol, view)
      BY <1>1, <1>4, <2>1, <2>3 DEF PlanOne, Named
    <3>2. CreatesOne(acc, vol, view)
      BY <1>2, <1>4, <2>1, <2>3, <3>1 DEF Create, CreatesOne
    <3> QED
      BY <1>1, <3>2
  <2> QED
    BY <2>2, <2>3
<1> QED
  BY <1>3, <1>4

LEMMA OneTyped ==
  ASSUME NEW view, ViewTyped(view), NEW acc \in Decisions(view), NEW i \in 1..Len(Layout)
  PROVE PlanOne(acc, Layout[i], view) \in Decisions(view)
<1> DEFINE vol == Layout[i]
<1>1. Refuse(acc) \in Decisions(view)
  BY DEF Refuse, Decisions
<1>2. CASE PlanOne(acc, vol, view).refused
  <2>1. ~acc.refused => \A v : Keep(acc, vol, v).refused => Keep(acc, vol, v) = Refuse(acc)
    BY DEF Keep, Refuse, Decisions
  <2>2. ~acc.refused /\ Create(acc, vol, view).refused => Create(acc, vol, view) = Refuse(acc)
    BY DEF Create, Refuse, Decisions
  <2>3. PlanOne(acc, vol, view) = acc \/ PlanOne(acc, vol, view) = Refuse(acc)
    BY <1>2, <2>1, <2>2 DEF PlanOne
  <2> QED
    BY <1>1, <2>3
<1>3. ASSUME NEW v \in view.vds, KeepsOne(acc, vol, view, v) PROVE PlanOne(acc, vol, view) \in Decisions(view)
  <2>1. KeepStep(vol, v) \in StepRecords /\ v.id \in Nat
    BY EntryTyped DEF KeepStep, StepRecords, ViewTyped, Vd, Raids
  <2>2. Append(acc.steps, KeepStep(vol, v)) \in Seq(StepRecords)
    BY <2>1 DEF Decisions
  <2> QED
    BY <1>3, <2>1, <2>2 DEF KeepsOne, Decisions
<1>4. CASE CreatesOne(acc, vol, view)
  <2> DEFINE pick == Pick(view, acc.free, vol.select, vol.count)
  <2>1. pick \subseteq acc.free
    BY PickWithin
  <2>2. CreateStep(vol, pick) \in StepRecords
    BY <2>1, EntryTyped DEF CreateStep, StepRecords, ViewTyped, Decisions
  <2>3. Append(acc.steps, CreateStep(vol, pick)) \in Seq(StepRecords)
    BY <2>2 DEF Decisions
  <2> QED
    BY <1>4, <2>3 DEF CreatesOne, Decisions
<1> QED
  <2>1. ~PlanOne(acc, vol, view).refused =>
          (\E v \in view.vds : KeepsOne(acc, vol, view, v)) \/ CreatesOne(acc, vol, view)
    BY DecideOne
  <2>2. PlanOne(acc, vol, view) \in Decisions(view)
    BY <1>2, <1>3, <1>4, <2>1
  <2> QED
    BY <2>2

LEMMA PlannedTyped ==
  ASSUME NEW view, ViewTyped(view)
  PROVE \A n \in 0..Len(Layout) : Planned(view)[n] \in Decisions(view)
<1> DEFINE S == {n \in 0..Len(Layout) : Planned(view)[n] \in Decisions(view)}
<1>1. Len(Layout) \in Nat
  BY LayoutAssumption
<1>2. 0 \in S
  <2>1. NothingPlanned(view) \in Decisions(view)
    BY DEF NothingPlanned, Decisions
  <2> QED
    BY <1>1, <2>1, Planning
<1>3. ASSUME NEW n \in S, n < Len(Layout) PROVE n + 1 \in S
  <2>1. n + 1 \in 1..Len(Layout) /\ n + 1 \in 0..Len(Layout) /\ (n + 1) - 1 = n
    BY <1>1, <1>3
  <2>2. Planned(view)[n + 1] = PlanOne(Planned(view)[n], Layout[n + 1], view)
    BY <2>1, Planning
  <2> QED
    BY <2>1, <2>2, OneTyped
<1>4. S = 0..Len(Layout)
  <2> HIDE DEF S
  <2>1. S \in SUBSET (0..Len(Layout))
    BY DEF S
  <2> QED
    BY <1>1, <1>2, <1>3, <2>1, UpTo
<1> QED
  BY <1>4

(* What a plan decides for an entry is what was decided when it was there. *)
LEMMA DecidedOne ==
  ASSUME NEW view, ViewTyped(view), NEW i \in 1..Len(Layout), ~Planned(view)[i].refused
  PROVE LET acc == Planned(view)[i - 1]
            next == Planned(view)[i]
        IN  /\ acc \in Decisions(view)
            /\ next \in Decisions(view)
            /\ ~acc.refused
            /\ next = PlanOne(acc, Layout[i], view)
            /\ \/ \E v \in view.vds : KeepsOne(acc, Layout[i], view, v) /\ next.steps = Append(acc.steps, KeepStep(Layout[i], v))
               \/ /\ CreatesOne(acc, Layout[i], view)
                  /\ next.steps = Append(acc.steps, CreateStep(Layout[i], Pick(view, acc.free, Layout[i].select, Layout[i].count)))
<1> DEFINE acc == Planned(view)[i - 1]
           next == Planned(view)[i]
<1>1. acc \in Decisions(view) /\ next \in Decisions(view)
  BY PlannedTyped, LayoutAssumption
<1>2. next = PlanOne(acc, Layout[i], view)
  BY Planning
<1> HIDE DEF acc, next
<1>3. /\ ~acc.refused
      /\ \/ \E v \in view.vds : KeepsOne(acc, Layout[i], view, v)
         \/ CreatesOne(acc, Layout[i], view)
  BY <1>1, <1>2, DecideOne DEF next
<1>4. ASSUME NEW v \in view.vds, KeepsOne(acc, Layout[i], view, v)
      PROVE next.steps = Append(acc.steps, KeepStep(Layout[i], v))
  BY <1>1, <1>2, <1>4 DEF KeepsOne, Decisions
<1>5. CreatesOne(acc, Layout[i], view) =>
        next.steps = Append(acc.steps, CreateStep(Layout[i], Pick(view, acc.free, Layout[i].select, Layout[i].count)))
  BY <1>1, <1>2 DEF CreatesOne, Decisions
<1> QED
  BY <1>1, <1>2, <1>3, <1>4, <1>5 DEF acc, next

LEMMA PlanGrows ==
  ASSUME NEW view, ViewTyped(view), ~Plan(view).refused
  PROVE \A n \in 0..Len(Layout) :
          /\ ~Planned(view)[n].refused
          /\ Planned(view)[n] \in Decisions(view)
          /\ Len(Planned(view)[n].steps) = n
          /\ \A k \in 1..n : Planned(view)[n].steps[k] = Plan(view).steps[k]
<1> DEFINE N == Len(Layout)
           steps(n) == Planned(view)[n].steps
           Agreed == {n \in 0..N : ~Planned(view)[n].refused}
           Counted == {n \in 0..N : Len(steps(n)) = n}
           Same == {n \in 0..N : \A k \in 1..n : steps(n)[k] = Plan(view).steps[k]}
<1>1. N \in Nat
  BY LayoutAssumption
<1>2. Agreed = 0..N
  <2>1. N \in Agreed
    BY <1>1 DEF Plan
  <2>2. ASSUME NEW n \in Agreed, 0 < n PROVE n - 1 \in Agreed
    <3>1. n \in 1..N /\ n - 1 \in 0..N
      BY <1>1, <2>2
    <3> QED
      BY <3>1, DecidedOne
  <2> HIDE DEF Agreed
  <2>3. Agreed \in SUBSET (0..N)
    BY DEF Agreed
  <2> QED
    BY <1>1, <2>1, <2>2, <2>3, DownFrom
<1>3. ASSUME NEW n \in 1..N
      PROVE steps(n - 1) \in Seq(StepRecords) /\ \E s : steps(n) = Append(steps(n - 1), s)
  <2>1. n \in Agreed
    BY <1>1, <1>2
  <2> QED
    BY <2>1, DecidedOne DEF Decisions
<1> HIDE DEF steps
<1>4. Counted = 0..N
  <2>1. 0 \in Counted
    <3>1. Planned(view)[0] = NothingPlanned(view)
      BY Planning
    <3>2. steps(0) = <<>>
      BY <3>1 DEF steps, NothingPlanned
    <3> QED
      BY <1>1, <3>2
  <2>2. ASSUME NEW n \in Counted, n < N PROVE n + 1 \in Counted
    <3>1. n + 1 \in 1..N /\ n + 1 \in 0..N /\ (n + 1) - 1 = n
      BY <1>1, <2>2
    <3> QED
      BY <1>3, <3>1
  <2> HIDE DEF Counted
  <2>3. Counted \in SUBSET (0..N)
    BY DEF Counted
  <2> QED
    BY <1>1, <2>1, <2>2, <2>3, UpTo
<1>5. Same = 0..N
  <2>1. N \in Same
    BY <1>1 DEF Plan, steps
  <2>2. ASSUME NEW n \in Same, 0 < n PROVE n - 1 \in Same
    <3>1. n \in 1..N /\ n - 1 \in 0..N /\ n - 1 \in Counted
      BY <1>1, <1>4, <2>2
    <3>2. PICK s : steps(n) = Append(steps(n - 1), s)
      BY <1>3, <3>1
    <3>3. ASSUME NEW k \in 1..(n - 1) PROVE steps(n - 1)[k] = Plan(view).steps[k]
      <4>1. Len(steps(n - 1)) = n - 1
        BY <3>1
      <4>2. steps(n)[k] = steps(n - 1)[k]
        BY <1>3, <3>1, <3>2, <4>1
      <4>3. k \in 1..n
        BY <3>1
      <4> QED
        BY <4>2, <4>3
    <3> QED
      BY <3>1, <3>3
  <2> HIDE DEF Same
  <2>3. Same \in SUBSET (0..N)
    BY DEF Same
  <2> QED
    BY <1>1, <2>1, <2>2, <2>3, DownFrom
<1> QED
  BY <1>2, <1>4, <1>5, PlannedTyped DEF steps

(* A plan that is not refused keeps or creates a volume for every entry. *)
LEMMA PlanStep ==
  ASSUME NEW view, ViewTyped(view), ~Plan(view).refused
  PROVE /\ Plan(view).steps \in Seq(StepRecords)
        /\ DOMAIN Plan(view).steps = 1..Len(Layout)
        /\ \A i \in 1..Len(Layout) :
             LET acc == Planned(view)[i - 1]
                 step == Plan(view).steps[i]
             IN  /\ acc \in Decisions(view)
                 /\ \/ \E v \in view.vds : KeepsOne(acc, Layout[i], view, v) /\ step = KeepStep(Layout[i], v)
                    \/ /\ CreatesOne(acc, Layout[i], view)
                       /\ step = CreateStep(Layout[i], Pick(view, acc.free, Layout[i].select, Layout[i].count))
<1>1. Len(Layout) \in Nat
  BY LayoutAssumption
<1>2. Plan(view) = Planned(view)[Len(Layout)] /\ Len(Layout) \in 0..Len(Layout)
  BY <1>1 DEF Plan
<1>3. Plan(view) \in Decisions(view) /\ Len(Plan(view).steps) = Len(Layout)
  BY <1>2, PlanGrows
<1>4. Plan(view).steps \in Seq(StepRecords)
  BY <1>3 DEF Decisions
<1>5. DOMAIN Plan(view).steps = 1..Len(Layout)
  BY <1>3, <1>4
<1>6. ASSUME NEW i \in 1..Len(Layout)
      PROVE LET acc == Planned(view)[i - 1]
                step == Plan(view).steps[i]
            IN  /\ acc \in Decisions(view)
                /\ \/ \E v \in view.vds : KeepsOne(acc, Layout[i], view, v) /\ step = KeepStep(Layout[i], v)
                   \/ /\ CreatesOne(acc, Layout[i], view)
                      /\ step = CreateStep(Layout[i], Pick(view, acc.free, Layout[i].select, Layout[i].count))
  <2> DEFINE acc == Planned(view)[i - 1]
             next == Planned(view)[i]
  <2>1. i \in 0..Len(Layout) /\ i - 1 \in 0..Len(Layout) /\ i \in 1..i
    BY <1>1
  <2>2. /\ acc \in Decisions(view)
        /\ Len(acc.steps) = i - 1
        /\ ~next.refused
        /\ next.steps[i] = Plan(view).steps[i]
    BY <2>1, PlanGrows
  <2>3. \/ \E v \in view.vds : KeepsOne(acc, Layout[i], view, v) /\ next.steps = Append(acc.steps, KeepStep(Layout[i], v))
        \/ /\ CreatesOne(acc, Layout[i], view)
           /\ next.steps = Append(acc.steps, CreateStep(Layout[i], Pick(view, acc.free, Layout[i].select, Layout[i].count)))
    BY <2>2, DecidedOne
  <2>4. \A s : next.steps = Append(acc.steps, s) => next.steps[i] = s
    BY <2>1, <2>2 DEF Decisions
  <2> HIDE DEF acc, next
  <2>5. \/ \E v \in view.vds : KeepsOne(acc, Layout[i], view, v) /\ next.steps[i] = KeepStep(Layout[i], v)
        \/ /\ CreatesOne(acc, Layout[i], view)
           /\ next.steps[i] = CreateStep(Layout[i], Pick(view, acc.free, Layout[i].select, Layout[i].count))
    BY <2>3, <2>4
  <2>6. \/ \E v \in view.vds : KeepsOne(acc, Layout[i], view, v) /\ Plan(view).steps[i] = KeepStep(Layout[i], v)
        \/ /\ CreatesOne(acc, Layout[i], view)
           /\ Plan(view).steps[i] = CreateStep(Layout[i], Pick(view, acc.free, Layout[i].select, Layout[i].count))
    BY <2>2, <2>5
  <2> QED
    BY <2>2, <2>6 DEF acc
<1> QED
  BY <1>4, <1>5, <1>6

LEMMA OneSize ==
  ASSUME NEW view, NEW pick, IsFiniteSet(pick), SameSize(view, pick)
  PROVE \A d, e \in pick : Capacity(view, d) = Capacity(view, e)
<1> DEFINE sizes == {Capacity(view, d) : d \in pick}
           f == [d \in pick |-> Capacity(view, d)]
<1>1. f \in Surjection(pick, sizes)
  BY DEF Surjection
<1>2. IsFiniteSet(sizes)
  BY <1>1, FS_Surjection
<1>3. PICK s : sizes = {s}
  BY <1>2, FS_Singleton DEF SameSize
<1> QED
  BY <1>3

(* What a run creates is picked from the free drives, all of known and of  *)
(* the same size.                                                          *)
LEMMA CreatesSound ==
  ASSUME NEW view, ViewTyped(view), ~Plan(view).refused, NEW i \in Creates(Plan(view).steps)
  PROVE LET step == Plan(view).steps[i]
        IN  /\ i \in 1..Len(Layout)
            /\ step.name = Layout[i].name
            /\ step.raid = Layout[i].raid
            /\ Named(Layout[i], view) = {}
            /\ step.drives \subseteq view.free
            /\ \A d \in step.drives : Capacity(view, d) # 0
            /\ \A d, e \in step.drives : Capacity(view, d) = Capacity(view, e)
<1> DEFINE acc == Planned(view)[i - 1]
           step == Plan(view).steps[i]
           pick == Pick(view, acc.free, Layout[i].select, Layout[i].count)
<1>1. i \in 1..Len(Layout) /\ step.action = "create"
  BY PlanStep DEF Creates
<1>2. acc \in Decisions(view) /\ CreatesOne(acc, Layout[i], view) /\ step = CreateStep(Layout[i], pick)
  <2>1. \A v : KeepStep(Layout[i], v).action # "create"
    BY DEF KeepStep
  <2> QED
    BY <1>1, <2>1, PlanStep
<1>3. step.name = Layout[i].name /\ step.raid = Layout[i].raid /\ step.drives = pick
  BY <1>2 DEF CreateStep
<1>4. pick \subseteq acc.free /\ acc.free \subseteq view.free
  BY <1>2, PickWithin DEF Decisions
<1>5. IsFiniteSet(pick)
  BY <1>4, FS_Subset, LayoutAssumption DEF ViewTyped
<1>6. \A d \in pick : Capacity(view, d) # 0
  BY <1>2, <1>4 DEF CreatesOne, Unsized
<1>7. Named(Layout[i], view) = {} /\ SameSize(view, pick)
  BY <1>2 DEF CreatesOne
<1>8. \A d, e \in pick : Capacity(view, d) = Capacity(view, e)
  BY <1>5, <1>7, OneSize
<1> HIDE DEF pick
<1> QED
  BY <1>1, <1>3, <1>4, <1>6, <1>7, <1>8

(* A VD more than there are targets below it: one is free. *)
LEMMA TargetFree ==
  ASSUME vds \subseteq Vd, IsFiniteSet(vds)
  PROVE LowestTarget \in Nat /\ \A v \in vds : v.id # LowestTarget
<1> DEFINE c == Cardinality(vds)
           Free == {n \in 0..c : \A v \in vds : v.id # n}
<1>1. c \in Nat
  BY FS_CardinalityType
<1>2. Free # {}
  <2> SUFFICES ASSUME Free = {} PROVE FALSE
    OBVIOUS
  <2> DEFINE f == [n \in 0..c |-> CHOOSE v \in vds : v.id = n]
  <2>1. \A n \in 0..c : f[n] \in vds /\ f[n].id = n
    OBVIOUS
  <2>2. f \in [0..c -> vds]
    BY <2>1
  <2> DEFINE Targets == 0..c
  <2>3. IsFiniteSet(Targets) /\ Cardinality(vds) < Cardinality(Targets)
    BY <1>1, FS_Interval
  <2>4. \E x, y \in Targets : x # y /\ f[x] = f[y]
    <3>1. f \in [Targets -> vds]
      BY <2>2
    <3> HIDE DEF f, Targets, c
    <3> QED
      BY <2>3, <3>1, FS_PigeonHole
  <2> QED
    BY <2>1, <2>4
<1>3. PICK n \in Free : \A m \in Free : n <= m
  <2>1. Free \in SUBSET Nat
    OBVIOUS
  <2> HIDE DEF Free
  <2> QED
    BY <1>2, <2>1, Least
<1>4. /\ n \in 0..c
      /\ \A v \in vds : v.id # n
      /\ \A m \in 0..(n - 1) : \E v \in vds : v.id = m
  <2>1. n \in 0..c /\ \A v \in vds : v.id # n
    OBVIOUS
  <2>2. ASSUME NEW m \in 0..(n - 1) PROVE \E v \in vds : v.id = m
    <3>1. m \in 0..c /\ ~(n <= m)
      BY <1>1, <2>1
    <3> QED
      BY <1>3, <3>1
  <2> QED
    BY <2>1, <2>2
<1>5. /\ LowestTarget \in 0..c
      /\ \A v \in vds : v.id # LowestTarget
  <2> HIDE DEF c
  <2> QED
    BY <1>4 DEF LowestTarget, c
<1> QED
  BY <1>1, <1>5

-----------------------------------------------------------------------------
(* Types, and what holds of the adapter and of every run: a volume that is *)
(* built, asked for or planned is of good drives of one size.              *)
Ats == Steps \union Ends \union {"idle"}
Capacities == UNION {[listed -> Nat] : listed \in SUBSET Drives}
ViewRecords == [capacity : Capacities, free : SUBSET Drives, vds : SUBSET Vd]
RunRecords == [at : Ats, view : ViewRecords, plan : Seq(StepRecords), left : SUBSET Nat, boot : Nat]

Sound(drives) ==
  /\ drives \subseteq good
  /\ \A d, e \in drives : capacity[d] = capacity[e]

AdapterTyped ==
  /\ capacity \in [Drives -> Nat \ {0}]
  /\ good \subseteq Drives
  /\ piecemeal \in BOOLEAN
  /\ on \in BOOLEAN
  /\ settled \in BOOLEAN
  /\ faults \in 0..MaxFaults

VdsTyped ==
  /\ vds \subseteq Vd
  /\ IsFiniteSet(vds)
  /\ \A v, w \in vds : v # w => v.id # w.id /\ v.drives \intersect w.drives = {}

PendingTyped == pending \subseteq [name : SpecNames, raid : Raids, drives : SUBSET Drives]

AllSound ==
  /\ BuiltOfGood
  /\ \A q \in pending : Sound(q.drives)

ReadSoundly(view) ==
  /\ ViewTyped(view)
  /\ view.free \subseteq good
  /\ \A d \in Listed(view) : view.capacity[d] \in {0, capacity[d]}

RunSound(run) ==
  /\ run.left \subseteq DOMAIN run.plan
  /\ \A i \in run.left : Sound(run.plan[i].drives)
  /\ run.at \in {"create", "appear"} => run.left # {}
  /\ run.at = "volumes" => ReadSoundly(run.view)

RunsSound ==
  /\ job \in [Runs -> RunRecords]
  /\ \A r \in Runs : RunSound(job[r])

StorageInv == AdapterTyped /\ VdsTyped /\ PendingTyped /\ AllSound /\ RunsSound

(* One run moves on. *)
LEMMA OneRun ==
  ASSUME RunsSound, UNCHANGED <<capacity, good>>, NEW r \in Runs, NEW run \in RunRecords, RunSound(run),
         job' = [job EXCEPT ![r] = run]
  PROVE RunsSound'
<1>1. job' \in [Runs -> RunRecords]
  BY DEF RunsSound
<1>2. ASSUME NEW q \in Runs PROVE RunSound(job[q])'
  <2>1. job'[q] = run \/ job'[q] = job[q]
    BY DEF RunsSound
  <2>2. RunSound(job'[q])
    BY <2>1 DEF RunsSound
  <2> QED
    BY <2>2 DEF RunSound, Sound, ReadSoundly
<1> QED
  BY <1>1, <1>2 DEF RunsSound

LEMMA OneGoes ==
  ASSUME RunsSound, UNCHANGED <<capacity, good>>, NEW r \in Runs, NEW at \in Ats, at # "volumes",
         at \in {"create", "appear"} => job[r].left # {},
         Goto(r, at)
  PROVE RunsSound'
<1> DEFINE run == [job[r] EXCEPT !.at = at]
<1>1. run \in RunRecords /\ job' = [job EXCEPT ![r] = run]
  BY DEF RunsSound, RunRecords, Goto
<1>2. RunSound(job[r]) /\ job[r] \in RunRecords
  BY DEF RunsSound
<1>3. /\ run.left = job[r].left
      /\ run.plan = job[r].plan
      /\ run.at = at
  BY <1>2 DEF RunRecords
<1> HIDE DEF run
<1>4. RunSound(run)
  BY <1>2, <1>3 DEF RunSound
<1> QED
  BY <1>1, <1>4, OneRun

LEMMA IdleTyped == NoView \in ViewRecords /\ Idle \in RunRecords
<1>1. <<>> \in Capacities
  <2>1. <<>> \in [{} -> Nat]
    OBVIOUS
  <2> QED
    BY <2>1 DEF Capacities
<1>2. NoView \in ViewRecords
  BY <1>1 DEF NoView, ViewRecords
<1>3. Idle \in RunRecords
  BY <1>2 DEF Idle, RunRecords, Ats
<1> QED
  BY <1>2, <1>3

LEMMA InitSound == Init => StorageInv
<1> SUFFICES ASSUME Init PROVE StorageInv
  OBVIOUS
<1>1. PICK a \in Adapters : capacity = a.capacity /\ good = a.good /\ piecemeal = a.piecemeal /\ vds = a.vds
  BY DEF Init
<1>2. AdapterTyped
  BY <1>1, AdaptersAssumption, ApplyAssumption DEF Init, AdapterTyped
<1>3. VdsTyped
  BY <1>1, AdaptersAssumption DEF VdsTyped
<1>4. PendingTyped /\ AllSound
  BY <1>1, AdaptersAssumption DEF Init, PendingTyped, AllSound, BuiltOfGood
<1>5. RunsSound
  <2>1. RunSound(Idle)
    BY DEF RunSound, Idle
  <2> QED
    BY <2>1, IdleTyped DEF Init, RunsSound
<1> QED
  BY <1>2, <1>3, <1>4, <1>5 DEF StorageInv

(* What does not change the volumes, the requests or the drives. *)
LEMMA AdapterFrame ==
  ASSUME StorageInv, UNCHANGED <<capacity, good, piecemeal, vds, pending>>,
         on' \in BOOLEAN, settled' \in BOOLEAN, faults' \in 0..MaxFaults, RunsSound'
  PROVE StorageInv'
<1>1. AdapterTyped'
  BY DEF StorageInv, AdapterTyped
<1>2. VdsTyped'
  BY DEF StorageInv, VdsTyped
<1>3. PendingTyped' /\ AllSound'
  BY DEF StorageInv, PendingTyped, AllSound, BuiltOfGood, Sound
<1> QED
  BY <1>1, <1>2, <1>3 DEF StorageInv

LEMMA FaultTyped == AdapterTyped /\ Fault => faults' \in 0..MaxFaults
  BY ApplyAssumption DEF AdapterTyped, Fault

LEMMA GoSteps ==
  ASSUME StorageInv, NEW r \in Runs,
         Start(r) \/ ControllerReady(r) \/ AppearTimeout(r) \/ CheckBoot(r) \/ RunFails(r)
  PROVE StorageInv'
<1> USE DEF Ats, Steps, Ends
<1>1. RunsSound /\ AdapterTyped
  BY DEF StorageInv
<1>2. CASE Start(r)
  <2>1. UNCHANGED <<capacity, good, piecemeal, vds, pending, settled, faults>> /\ on' = TRUE
    BY <1>2 DEF Start
  <2>2. Goto(r, "drives") \/ Goto(r, "wait")
    BY <1>2 DEF Start
  <2>3. RunsSound'
    BY <1>1, <2>1, <2>2, OneGoes
  <2> QED
    BY <1>1, <2>1, <2>3, AdapterFrame DEF AdapterTyped
<1>3. CASE ControllerReady(r) \/ AppearTimeout(r) \/ CheckBoot(r) \/ RunFails(r)
  <2>1. UNCHANGED <<capacity, good, piecemeal, vds, pending, settled, on>>
    BY <1>3 DEF ControllerReady, AppearTimeout, CheckBoot, RunFails, AdapterSame
  <2>2. Goto(r, "drives") \/ Goto(r, "failed") \/ Goto(r, "boots") \/ Goto(r, "refused")
    BY <1>3 DEF ControllerReady, AppearTimeout, CheckBoot, RunFails
  <2>3. RunsSound'
    BY <1>1, <2>1, <2>2, OneGoes
  <2>4. faults' \in 0..MaxFaults
    BY <1>1, <1>3, FaultTyped DEF ControllerReady, AppearTimeout, CheckBoot, RunFails, AdapterTyped
  <2> QED
    BY <1>1, <2>1, <2>3, <2>4, AdapterFrame DEF AdapterTyped
<1> QED
  BY <1>2, <1>3

LEMMA ReadingsSound ==
  ASSUME AdapterTyped, NEW listed \in SUBSET Drives, NEW sized \in SUBSET Drives
  PROVE Readings(listed, sized) \in ViewRecords /\ ReadSoundly(Readings(listed, sized))
<1> DEFINE sizes == [d \in listed |-> IF d \in sized THEN capacity[d] ELSE 0]
           free == FreeDrives(listed)
           view == [capacity |-> sizes, free |-> free, vds |-> {}]
<1>1. Readings(listed, sized) = view
  BY DEF Readings
<1>2. sizes \in [listed -> Nat] /\ \A d \in listed : sizes[d] \in {0, capacity[d]}
  BY DEF AdapterTyped
<1>3. free \subseteq listed /\ free \subseteq good
  BY DEF FreeDrives
<1> HIDE DEF sizes, free
<1>4. view \in ViewRecords
  BY <1>2, <1>3 DEF ViewRecords, Capacities
<1>5. view.capacity = sizes /\ view.free = free /\ view.vds = {} /\ Listed(view) = listed
  BY <1>2 DEF Listed
<1> HIDE DEF view
<1>6. ViewTyped(view)
  BY <1>2, <1>3, <1>5, FS_EmptySet DEF ViewTyped
<1>7. ReadSoundly(view)
  BY <1>2, <1>3, <1>5, <1>6 DEF ReadSoundly
<1> QED
  BY <1>1, <1>4, <1>7

LEMMA ReadDrivesStep ==
  ASSUME StorageInv, NEW r \in Runs, ReadDrives(r)
  PROVE StorageInv'
<1>1. RunsSound /\ AdapterTyped
  BY DEF StorageInv
<1>2. PICK view \in DriveReadings : job' = [job EXCEPT ![r].at = "volumes", ![r].view = view]
  BY DEF ReadDrives
<1>3. UNCHANGED <<capacity, good, piecemeal, vds, pending, settled, on, faults>>
  BY DEF ReadDrives, AdapterSame
<1>4. view \in ViewRecords /\ ReadSoundly(view)
  <2>1. \E listed, sized \in SUBSET Drives : view = Readings(listed, sized)
    BY ApplyAssumption DEF DriveReadings
  <2> QED
    BY <1>1, <2>1, ReadingsSound
<1> DEFINE run == [job[r] EXCEPT !.at = "volumes", !.view = view]
<1>5. job[r] \in RunRecords /\ RunSound(job[r])
  BY <1>1 DEF RunsSound
<1>6. run \in RunRecords /\ job' = [job EXCEPT ![r] = run]
  BY <1>1, <1>2, <1>4, <1>5 DEF RunsSound, RunRecords, Ats, Steps
<1>7. run.left = job[r].left /\ run.plan = job[r].plan /\ run.at = "volumes" /\ run.view = view
  BY <1>5 DEF RunRecords
<1> HIDE DEF run
<1>8. RunSound(run)
  BY <1>4, <1>5, <1>7 DEF RunSound
<1>9. RunsSound'
  BY <1>1, <1>3, <1>6, <1>8, OneRun
<1> QED
  BY <1>1, <1>3, <1>9, AdapterFrame DEF AdapterTyped

LEMMA EarliestIn ==
  ASSUME NEW left \in SUBSET Nat, left # {}
  PROVE Earliest(left) \in left /\ \A j \in left : Earliest(left) <= j
<1>1. \E i \in left : \A j \in left : i <= j
  BY Least
<1> QED
  BY <1>1 DEF Earliest

(* What a run plans with: the drives it has read, the volumes it reads now. *)
LEMMA SeenSound ==
  ASSUME VdsTyped, NEW view \in ViewRecords, ReadSoundly(view), NEW seen \in VdReadings
  PROVE LET now == [view EXCEPT !.vds = seen]
        IN  /\ ReadSoundly(now)
            /\ now.free = view.free
            /\ now.capacity = view.capacity
            /\ Listed(now) = Listed(view)
            /\ now.vds = seen
<1> DEFINE now == [view EXCEPT !.vds = seen]
<1>1. now.free = view.free /\ now.capacity = view.capacity /\ now.vds = seen
  BY DEF ViewRecords
<1>2. seen \subseteq Vd /\ IsFiniteSet(seen)
  BY FS_EmptySet DEF VdReadings, VdsTyped
<1> HIDE DEF now
<1>3. Listed(now) = Listed(view)
  BY <1>1 DEF Listed
<1>4. ReadSoundly(now)
  BY <1>1, <1>2, <1>3 DEF ReadSoundly, ViewTyped
<1> QED
  BY <1>1, <1>3, <1>4 DEF now

LEMMA PlannedSound ==
  ASSUME AdapterTyped, NEW view, ReadSoundly(view), ~Plan(view).refused, NEW i \in Creates(Plan(view).steps)
  PROVE Sound(Plan(view).steps[i].drives)
<1> DEFINE drives == Plan(view).steps[i].drives
<1>1. /\ drives \subseteq view.free
      /\ \A d \in drives : Capacity(view, d) # 0
      /\ \A d, e \in drives : Capacity(view, d) = Capacity(view, e)
  BY CreatesSound DEF ReadSoundly
<1> HIDE DEF drives
<1>2. drives \subseteq good /\ drives \subseteq Listed(view)
  BY <1>1 DEF ReadSoundly, ViewTyped
<1>3. \A d \in drives : capacity[d] = Capacity(view, d)
  BY <1>1, <1>2 DEF ReadSoundly, Capacity
<1> QED
  BY <1>1, <1>2, <1>3 DEF Sound, drives

LEMMA ReadVolumesStep ==
  ASSUME StorageInv, NEW r \in Runs, ReadVolumes(r)
  PROVE StorageInv'
<1>1. RunsSound /\ AdapterTyped /\ VdsTyped
  BY DEF StorageInv
<1>2. UNCHANGED <<capacity, good, piecemeal, vds, pending, settled, on, faults>>
  BY DEF ReadVolumes, AdapterSame
<1>3. job[r] \in RunRecords /\ RunSound(job[r]) /\ job[r].at = "volumes"
  BY <1>1 DEF RunsSound, ReadVolumes, At
<1>4. job[r].view \in ViewRecords /\ ReadSoundly(job[r].view)
  BY <1>3 DEF RunRecords, RunSound
<1>5. PICK seen \in VdReadings :
        LET plan == Plan([job[r].view EXCEPT !.vds = seen])
            todo == Creates(plan.steps)
        IN  job' = [job EXCEPT ![r] =
                      IF plan.refused THEN [Idle EXCEPT !.at = "failed"]
                      ELSE [at |-> Then(todo), view |-> NoView, plan |-> plan.steps, left |-> todo,
                            boot |-> plan.steps[1].id]]
  BY DEF ReadVolumes
<1> DEFINE view == [job[r].view EXCEPT !.vds = seen]
           plan == Plan(view)
           todo == Creates(plan.steps)
           run == [at |-> Then(todo), view |-> NoView, plan |-> plan.steps, left |-> todo, boot |-> plan.steps[1].id]
<1>6. ReadSoundly(view) /\ ViewTyped(view)
  BY <1>1, <1>4, SeenSound DEF ReadSoundly
<1>7. NoView \in ViewRecords
  BY IdleTyped
<1>8. CASE plan.refused
  <2> DEFINE failed == [Idle EXCEPT !.at = "failed"]
  <2>1. failed \in RunRecords
    BY IdleTyped DEF RunRecords, Ats, Ends
  <2>2. RunSound(failed)
    BY DEF RunSound, Idle
  <2>3. job' = [job EXCEPT ![r] = failed]
    BY <1>5, <1>8
  <2>4. RunsSound'
    BY <1>1, <1>2, <2>1, <2>2, <2>3, OneRun
  <2> QED
    BY <1>1, <1>2, <2>4, AdapterFrame DEF AdapterTyped
<1>9. CASE ~plan.refused
  <2>1. job' = [job EXCEPT ![r] = run]
    BY <1>5, <1>9
  <2> HIDE DEF view
  <2>2. plan.steps \in Seq(StepRecords) /\ DOMAIN plan.steps = 1..Len(Layout) /\ 1 \in 1..Len(Layout)
    BY <1>6, <1>9, PlanStep, LayoutAssumption
  <2>3. \A i \in todo : Sound(plan.steps[i].drives)
    BY <1>1, <1>6, <1>9, PlannedSound
  <2>4. todo \in SUBSET Nat /\ todo \subseteq DOMAIN plan.steps /\ plan.steps[1] \in StepRecords
    BY <2>2 DEF Creates
  <2> HIDE DEF plan, todo
  <2>5. Then(todo) \in {"create", "check"} /\ (Then(todo) = "create" => todo # {})
    BY DEF Then
  <2>6. run \in RunRecords
    BY <1>7, <2>2, <2>4, <2>5 DEF RunRecords, Ats, Steps, StepRecords
  <2>7. RunSound(run)
    BY <2>3, <2>4, <2>5 DEF RunSound
  <2>8. RunsSound'
    BY <1>1, <1>2, <2>1, <2>6, <2>7, OneRun
  <2> QED
    BY <1>1, <1>2, <2>8, AdapterFrame DEF AdapterTyped
<1> QED
  BY <1>8, <1>9

LEMMA RequestStep ==
  ASSUME StorageInv, NEW r \in Runs, RequestVolume(r)
  PROVE StorageInv'
<1> USE DEF Ats, Steps, Ends
<1>1. RunsSound /\ AdapterTyped /\ VdsTyped /\ PendingTyped /\ AllSound
  BY DEF StorageInv
<1>2. UNCHANGED <<capacity, good, piecemeal, on, settled, vds>>
  BY DEF RequestVolume
<1>3. job[r] \in RunRecords /\ RunSound(job[r]) /\ job[r].at = "create"
  BY <1>1 DEF RunsSound, RequestVolume, At
<1> DEFINE step == StepOf(r)
           q == [name |-> step.name, raid |-> step.raid, drives |-> step.drives]
<1>4. /\ Goto(r, "failed") \/ Goto(r, "appear")
      /\ UNCHANGED pending \/ pending' = pending \union {q}
      /\ UNCHANGED faults \/ Fault
  BY DEF RequestVolume
<1>5. RunsSound'
  BY <1>1, <1>2, <1>3, <1>4, OneGoes DEF RunSound
<1>6. faults' \in 0..MaxFaults
  BY <1>1, <1>4, FaultTyped DEF AdapterTyped
<1>7. step \in StepRecords /\ Sound(step.drives)
  <2>1. job[r].left \in SUBSET Nat /\ job[r].left # {} /\ job[r].plan \in Seq(StepRecords)
    BY <1>3 DEF RunRecords, RunSound
  <2>2. Earliest(job[r].left) \in job[r].left
    BY <2>1, EarliestIn
  <2> QED
    BY <1>3, <2>1, <2>2 DEF StepOf, RunSound
<1> HIDE DEF step
<1>8. PendingTyped'
  BY <1>1, <1>4, <1>7 DEF PendingTyped, StepRecords
<1>9. AllSound'
  BY <1>1, <1>2, <1>4, <1>7 DEF AllSound, BuiltOfGood, Sound
<1>10. AdapterTyped' /\ VdsTyped'
  BY <1>1, <1>2, <1>6 DEF AdapterTyped, VdsTyped
<1> QED
  BY <1>5, <1>8, <1>9, <1>10 DEF StorageInv

LEMMA AppearedStep ==
  ASSUME StorageInv, NEW r \in Runs, Appeared(r)
  PROVE StorageInv'
<1>1. RunsSound /\ AdapterTyped /\ VdsTyped
  BY DEF StorageInv
<1>2. UNCHANGED <<capacity, good, piecemeal, on, settled, vds, pending, faults>>
  BY DEF Appeared, AdapterSame
<1>3. job[r] \in RunRecords /\ RunSound(job[r])
  BY <1>1 DEF RunsSound
<1>4. PICK seen \in VdReadings :
        LET step == StepOf(r)
            found == {v \in seen : v.name = step.name}
        IN  /\ found # {}
            /\ job' = [job EXCEPT ![r].at = Then(Rest(r)), ![r].left = Rest(r),
                                  ![r].boot = IF step.name = Layout[1].name THEN FirstVd(found).id ELSE @]
  BY DEF Appeared
<1> DEFINE found == {v \in seen : v.name = StepOf(r).name}
           boot == IF StepOf(r).name = Layout[1].name THEN FirstVd(found).id ELSE job[r].boot
           run == [job[r] EXCEPT !.at = Then(Rest(r)), !.left = Rest(r), !.boot = boot]
<1>5. job' = [job EXCEPT ![r] = run]
  BY <1>1, <1>4 DEF RunsSound
<1>6. boot \in Nat
  <2>1. found \in SUBSET Vd /\ found # {}
    BY <1>1, <1>4 DEF VdReadings, VdsTyped
  <2>2. FirstVd(found).id \in Nat
    BY <2>1, FirstOfAll DEF Vd
  <2> QED
    BY <1>3, <2>2 DEF RunRecords
<1>7. Rest(r) \in SUBSET Nat /\ Rest(r) \subseteq job[r].left
  BY <1>3 DEF Rest, RunRecords
<1>8. Then(Rest(r)) \in {"create", "check"} /\ (Then(Rest(r)) = "create" => Rest(r) # {})
  BY DEF Then
<1> HIDE DEF boot
<1>9. run \in RunRecords /\ run.left = Rest(r) /\ run.plan = job[r].plan /\ run.at = Then(Rest(r))
  BY <1>3, <1>6, <1>7, <1>8 DEF RunRecords, Ats, Steps
<1> HIDE DEF run
<1>10. RunSound(run)
  BY <1>3, <1>7, <1>8, <1>9 DEF RunSound
<1>11. RunsSound'
  BY <1>1, <1>2, <1>5, <1>9, <1>10, OneRun
<1> QED
  BY <1>1, <1>2, <1>11, AdapterFrame DEF AdapterTyped

LEMMA JobFrame ==
  ASSUME StorageInv, UNCHANGED <<capacity, good, piecemeal, job>>
  PROVE RunsSound'
<1>1. \A r \in Runs : RunSound(job[r])'
  BY DEF StorageInv, RunsSound, RunSound, Sound, ReadSoundly
<1> QED
  BY <1>1 DEF StorageInv, RunsSound

LEMMA CompleteStep ==
  ASSUME StorageInv, NEW q \in pending, CompleteRequest(q)
  PROVE StorageInv'
<1>1. RunsSound /\ AdapterTyped /\ VdsTyped /\ PendingTyped /\ AllSound
  BY DEF StorageInv
<1>2. UNCHANGED <<capacity, good, piecemeal, on, settled, job>> /\ pending' = pending \ {q}
  BY DEF CompleteRequest
<1>3. RunsSound'
  BY <1>2, JobFrame
<1>4. AdapterTyped'
  BY <1>1, <1>2, FaultTyped DEF AdapterTyped, CompleteRequest
<1>5. PendingTyped'
  BY <1>1, <1>2 DEF PendingTyped
<1>6. q.name \in SpecNames /\ q.raid \in Raids /\ q.drives \subseteq Drives /\ Sound(q.drives)
  BY <1>1 DEF PendingTyped, AllSound
<1> DEFINE new == [id |-> LowestTarget, name |-> q.name, raid |-> q.raid, drives |-> q.drives]
<1>7. CASE UNCHANGED vds
  <2>1. VdsTyped' /\ AllSound'
    BY <1>1, <1>2, <1>7 DEF VdsTyped, AllSound, BuiltOfGood, Sound
  <2> QED
    BY <1>3, <1>4, <1>5, <2>1 DEF StorageInv
<1>8. CASE (\A d \in q.drives : ~InVd(d)) /\ vds' = vds \union {new}
  <2>1. LowestTarget \in Nat /\ \A v \in vds : v.id # LowestTarget
    BY <1>1, TargetFree DEF VdsTyped
  <2>2. new \in Vd
    <3>1. q.name \in STRING
      <4>1. DOMAIN Layout = 1..Len(Layout)
        BY LayoutAssumption
      <4> QED
        BY <1>6, <4>1, EntryTyped DEF SpecNames
    <3> QED
      BY <1>6, <2>1, <3>1 DEF Vd, Raids
  <2>3. \A v \in vds : v.id # new.id /\ v.drives \intersect new.drives = {}
    BY <1>8, <2>1 DEF InVd
  <2>4. new.name = q.name /\ new.drives = q.drives
    OBVIOUS
  <2> HIDE DEF new
  <2>5. IsFiniteSet(vds')
    BY <1>1, <1>8, FS_AddElement DEF VdsTyped
  <2>6. VdsTyped'
    BY <1>1, <1>8, <2>2, <2>3, <2>5 DEF VdsTyped
  <2>7. AllSound'
    BY <1>1, <1>2, <1>6, <1>8, <2>4 DEF AllSound, BuiltOfGood, Sound
  <2> QED
    BY <1>3, <1>4, <1>5, <2>6, <2>7 DEF StorageInv
<1> QED
  BY <1>7, <1>8 DEF CompleteRequest

LEMMA DeleteStep ==
  ASSUME StorageInv, NEW v \in vds, DeleteByHand(v)
  PROVE StorageInv'
<1>1. AdapterTyped /\ VdsTyped /\ PendingTyped /\ AllSound
  BY DEF StorageInv
<1>2. UNCHANGED <<capacity, good, piecemeal, on, settled, pending, job>> /\ vds' = vds \ {v}
  BY DEF DeleteByHand
<1>3. RunsSound'
  BY <1>2, JobFrame
<1>4. AdapterTyped'
  BY <1>1, <1>2, FaultTyped DEF AdapterTyped, DeleteByHand
<1>5. VdsTyped'
  <2>1. IsFiniteSet(vds')
    BY <1>1, <1>2, FS_RemoveElement DEF VdsTyped
  <2> QED
    BY <1>1, <1>2, <2>1 DEF VdsTyped
<1>6. PendingTyped' /\ AllSound'
  BY <1>1, <1>2 DEF PendingTyped, AllSound, BuiltOfGood, Sound
<1> QED
  BY <1>3, <1>4, <1>5, <1>6 DEF StorageInv

LEMMA StorageStep == StorageInv /\ [Next]_vars => StorageInv'
<1> SUFFICES ASSUME StorageInv, [Next]_vars PROVE StorageInv'
  OBVIOUS
<1>1. ASSUME NEW r \in Runs,
             \/ Start(r) \/ ControllerReady(r) \/ ReadDrives(r) \/ ReadVolumes(r)
             \/ RequestVolume(r) \/ Appeared(r) \/ AppearTimeout(r)
             \/ CheckBoot(r) \/ RunFails(r)
      PROVE StorageInv'
  BY <1>1, GoSteps, ReadDrivesStep, ReadVolumesStep, RequestStep, AppearedStep
<1>2. CASE Settle \/ UNCHANGED vars
  <2>1. UNCHANGED <<capacity, good, piecemeal, vds, pending, job, on, faults>>
    BY <1>2 DEF Settle, vars
  <2>2. settled' \in BOOLEAN
    BY <1>2 DEF Settle, vars, StorageInv, AdapterTyped
  <2>3. on' \in BOOLEAN /\ faults' \in 0..MaxFaults
    BY <2>1 DEF StorageInv, AdapterTyped
  <2>4. RunsSound'
    BY <2>1, JobFrame
  <2> QED
    BY <2>1, <2>2, <2>3, <2>4, AdapterFrame
<1> QED
  BY <1>1, <1>2, CompleteStep, DeleteStep DEF Next

LEMMA StorageInvHolds == Spec => []StorageInv
  BY InitSound, StorageStep, PTL DEF Spec

(* Types of the layout step, for any adapter, layout and runs: one VD is   *)
(* created per target, only a step that is left is asked for.              *)
THEOREM ApplyTypeOKHolds == Spec => []ApplyTypeOK
<1>1. StorageInv => ApplyTypeOK
  <2> SUFFICES ASSUME StorageInv PROVE ApplyTypeOK
    OBVIOUS
  <2>1. AdapterTyped /\ VdsTyped /\ PendingTyped /\ RunsSound
    BY DEF StorageInv
  <2>2. ASSUME NEW r \in Runs
        PROVE /\ job[r].at \in Steps \union Ends \union {"idle"}
              /\ job[r].view.free \subseteq Drives
              /\ job[r].left \subseteq DOMAIN job[r].plan
              /\ At(r, "create") \/ At(r, "appear") => job[r].left # {}
    <3>1. job[r] \in RunRecords /\ RunSound(job[r])
      BY <2>1 DEF RunsSound
    <3> QED
      BY <3>1 DEF RunRecords, ViewRecords, Ats, RunSound, At
  <2> QED
    BY <2>1, <2>2 DEF ApplyTypeOK, AdapterTyped, VdsTyped, PendingTyped
<1> QED
  BY <1>1, StorageInvHolds, PTL

(* A volume that bears a name of the layout is of good drives of one size: *)
(* however little a run was shown, whatever ran beside or before it.       *)
THEOREM BuiltOfGoodHolds == Spec => []BuiltOfGood
<1>1. StorageInv => BuiltOfGood
  BY DEF StorageInv, AllSound
<1> QED
  BY <1>1, StorageInvHolds, PTL

-----------------------------------------------------------------------------
(* The order of a pick. *)
Prefers(view, select, e, d) == IF select = "smallest" THEN Before(view, e, d) ELSE Before(view, d, e)
Ahead(view, pool, select, d) == {e \in pool : Prefers(view, select, e, d)}

LEMMA PickAhead ==
  ASSUME NEW view, NEW pool, NEW select, NEW n
  PROVE Pick(view, pool, select, n) = {d \in pool : Cardinality(Ahead(view, pool, select, d)) < n}
<1>1. CASE select = "smallest"
  BY <1>1 DEF Pick, Ahead, Prefers
<1>2. CASE select # "smallest"
  BY <1>2 DEF Pick, Ahead, Prefers
<1> QED
  BY <1>1, <1>2

LEMMA PrefersOrder ==
  ASSUME NEW view, ViewTyped(view), NEW select, NEW d \in Listed(view), NEW e \in Listed(view), NEW f \in Listed(view)
  PROVE /\ Prefers(view, select, d, e) /\ Prefers(view, select, e, f) => Prefers(view, select, d, f)
        /\ Prefers(view, select, d, e) \/ Prefers(view, select, e, d) \/ d = e
        /\ ~Prefers(view, select, d, d)
<1>1. d \in Nat /\ e \in Nat /\ f \in Nat
  BY LayoutAssumption DEF ViewTyped
<1>2. Capacity(view, d) \in Nat /\ Capacity(view, e) \in Nat /\ Capacity(view, f) \in Nat
  BY DEF ViewTyped, Capacity
<1> QED
  BY <1>1, <1>2 DEF Prefers, Before

LEMMA ListedFinite ==
  ASSUME NEW view, ViewTyped(view), NEW pool \in SUBSET Listed(view)
  PROVE IsFiniteSet(pool)
  BY FS_Subset, LayoutAssumption DEF ViewTyped

LEMMA AheadFinite ==
  ASSUME NEW view, ViewTyped(view), NEW pool \in SUBSET Listed(view), NEW select, NEW d
  PROVE IsFiniteSet(Ahead(view, pool, select, d)) /\ Cardinality(Ahead(view, pool, select, d)) \in Nat
<1>1. Ahead(view, pool, select, d) \in SUBSET pool
  BY DEF Ahead
<1> QED
  BY <1>1, ListedFinite, FS_Subset, FS_CardinalityType

(* What comes before a picked drive is picked. *)
LEMMA PickDown ==
  ASSUME NEW view, ViewTyped(view), NEW pool \in SUBSET Listed(view), NEW select, NEW n \in Nat,
         NEW d \in Pick(view, pool, select, n), NEW e \in pool, Prefers(view, select, e, d)
  PROVE e \in Pick(view, pool, select, n)
<1>1. d \in pool /\ Cardinality(Ahead(view, pool, select, d)) < n
  BY PickAhead
<1>2. Ahead(view, pool, select, e) \subseteq Ahead(view, pool, select, d)
  BY <1>1, PrefersOrder DEF Ahead
<1>3. Cardinality(Ahead(view, pool, select, e)) <= Cardinality(Ahead(view, pool, select, d))
  BY <1>2, AheadFinite, FS_Subset
<1>4. Cardinality(Ahead(view, pool, select, e)) < n
  BY <1>1, <1>3, AheadFinite
<1> QED
  BY <1>4, PickAhead

(* A picked drive is as small, or as large, as any that is not picked. *)
LEMMA PickBest ==
  ASSUME NEW view, ViewTyped(view), NEW pool \in SUBSET Listed(view), NEW select, NEW n \in Nat,
         NEW d \in Pick(view, pool, select, n), NEW e \in pool \ Pick(view, pool, select, n)
  PROVE IF select = "smallest" THEN Capacity(view, d) <= Capacity(view, e) ELSE Capacity(view, e) <= Capacity(view, d)
<1>1. ~Prefers(view, select, e, d)
  BY PickDown
<1>2. d \in Listed(view) /\ e \in Listed(view)
  BY PickWithin
<1>3. Capacity(view, d) \in Nat /\ Capacity(view, e) \in Nat
  BY <1>2 DEF ViewTyped, Capacity
<1> QED
  BY <1>1, <1>3 DEF Prefers, Before

-----------------------------------------------------------------------------
(* The boot volume, for adapters that list all they have.  A run that has  *)
(* planned either has boot to create or knows which VD it is: the one of   *)
(* that name, or a hand-made one that nothing has become better than.      *)
Whole == \A a \in Adapters : ~a.piecemeal

IsBoot(v) ==
  \/ v.name = Layout[1].name
  \/ v.name \notin SpecNames /\ BestOf(v, Layout[1].select)

BootKnown(run) ==
  /\ run.at = "volumes" => Listed(run.view) = Drives /\ FreeDrives(Drives) \subseteq run.view.free
  /\ run.at \in {"create", "appear", "check"} =>
       /\ \A i \in run.left : run.plan[i].name = Layout[i].name
       /\ 1 \in run.left \/ \E v \in vds : v.id = run.boot /\ IsBoot(v)
  /\ run.at = "check" => run.left = {}

BootInv == ~piecemeal /\ \A r \in Runs : BootKnown(job[r])

(* While a run is at work VDs are added only, of names of the layout. *)
Grows == vds \subseteq vds' /\ \A v \in vds' \ vds : v.name \in SpecNames

LEMMA BootStays ==
  ASSUME Grows, UNCHANGED <<capacity, good>>
  PROVE /\ FreeDrives(Drives)' \subseteq FreeDrives(Drives)
        /\ \A v \in vds : IsBoot(v) => IsBoot(v)'
<1>1. FreeDrives(Drives)' \subseteq FreeDrives(Drives)
  BY DEF FreeDrives, InVd, Grows
<1>2. ASSUME NEW v \in vds, IsBoot(v) PROVE IsBoot(v)'
  <2>1. SameShape(v)' = SameShape(v)
    BY DEF SameShape, Grows
  <2>2. AdoptionPool(SameShape(v), FreeDrives(Drives))' \subseteq AdoptionPool(SameShape(v), FreeDrives(Drives))
    BY <1>1, <2>1 DEF AdoptionPool
  <2> QED
    BY <1>2, <2>2 DEF IsBoot, BestOf
<1> QED
  BY <1>1, <1>2

LEMMA KnownStays ==
  ASSUME Grows, UNCHANGED <<capacity, good>>, NEW run, BootKnown(run)
  PROVE BootKnown(run)'
<1>1. FreeDrives(Drives)' \subseteq FreeDrives(Drives) /\ \A v \in vds : IsBoot(v) => IsBoot(v)'
  BY BootStays
<1>2. vds \subseteq vds'
  BY DEF Grows
<1>3. (\E v \in vds : v.id = run.boot /\ IsBoot(v)) => (\E v \in vds : v.id = run.boot /\ IsBoot(v))'
  BY <1>1, <1>2
<1> QED
  BY <1>1, <1>3 DEF BootKnown

(* What the first entry is planned to be. *)
LEMMA BootPlanned ==
  ASSUME StorageInv, NEW view, ReadSoundly(view), view.vds = vds, Listed(view) = Drives,
         FreeDrives(Drives) \subseteq view.free, ~Plan(view).refused
  PROVE \/ 1 \in Creates(Plan(view).steps)
        \/ \E v \in vds : v.id = Plan(view).steps[1].id /\ IsBoot(v)
<1> DEFINE acc == Planned(view)[0]
           step == Plan(view).steps[1]
           vol == Layout[1]
<1>1. ViewTyped(view) /\ 1 \in 1..Len(Layout) /\ 1 - 1 = 0
  BY LayoutAssumption DEF ReadSoundly
<1>2. acc = NothingPlanned(view)
  BY Planning
<1> HIDE DEF acc
<1>3. acc.free = view.free /\ acc.claimed = {}
  BY <1>2 DEF NothingPlanned
<1>4. /\ 1 \in DOMAIN Plan(view).steps
      /\ \/ \E v \in view.vds : KeepsOne(acc, vol, view, v) /\ step = KeepStep(vol, v)
         \/ step = CreateStep(vol, Pick(view, acc.free, vol.select, vol.count))
  BY <1>1, PlanStep DEF acc
<1>5. CASE step = CreateStep(vol, Pick(view, acc.free, vol.select, vol.count))
  BY <1>4, <1>5 DEF Creates, CreateStep
<1>6. ASSUME NEW v \in vds, KeepsOne(acc, vol, view, v), step = KeepStep(vol, v)
      PROVE v.id = step.id /\ IsBoot(v)
  <2>1. v.id = step.id /\ v.raid = vol.raid
    BY <1>6 DEF KeepStep, KeepsOne
  <2>2. CASE Named(vol, view) # {} /\ v = LastVd(Named(vol, view))
    <3>1. Named(vol, view) \in SUBSET Vd /\ IsFiniteSet(Named(vol, view))
      BY <1>1, FS_Subset DEF ViewTyped, Named
    <3>2. v \in Named(vol, view)
      BY <2>2, <3>1, LastOfAll
    <3> QED
      BY <2>1, <3>2 DEF Named, IsBoot
  <2>3. CASE ~Adopted(vol, view, acc.claimed, acc.free).refused /\ v \in Adopted(vol, view, acc.claimed, acc.free).vds
    <3> DEFINE cands == Candidates(vol, view, acc.claimed)
               pool == AdoptionPool(cands, acc.free)
               picked == Pick(view, pool, vol.select, vol.count)
    <3>1. v \in cands /\ v.drives = picked /\ ~Unsized(view, pool)
      BY <2>3 DEF Adopted
    <3>2. vol.count \in Nat
      BY <1>1, EntryTyped
    <3>3. v.name \notin SpecNames /\ Cardinality(v.drives) = vol.count
      BY <3>1 DEF Candidates
    <3>4. SameShape(v) \subseteq cands
      BY <1>1, <1>3, <2>1, <3>3 DEF SameShape, Candidates, StorageInv, VdsTyped, Vd
    <3>5. AdoptionPool(SameShape(v), FreeDrives(Drives)) \subseteq pool
      BY <1>3, <3>4 DEF AdoptionPool
    <3>6. pool \in SUBSET Listed(view)
      BY <1>1, <1>3 DEF AdoptionPool, Candidates, ViewTyped
    <3>7. \A d \in pool : Capacity(view, d) = capacity[d]
      BY <3>1, <3>6 DEF Unsized, Capacity, ReadSoundly
    <3>8. picked \subseteq pool
      BY PickWithin
    <3> HIDE DEF pool, cands, picked
    <3>9. ASSUME NEW d \in picked, NEW e \in pool \ picked
          PROVE IF vol.select = "smallest" THEN Capacity(view, d) <= Capacity(view, e)
                                           ELSE Capacity(view, e) <= Capacity(view, d)
      BY <1>1, <3>2, <3>6, <3>9, PickBest DEF picked
    <3>10. BestOf(v, vol.select)
      BY <3>1, <3>5, <3>7, <3>8, <3>9 DEF BestOf
    <3> QED
      BY <2>1, <3>3, <3>10 DEF IsBoot
  <2> QED
    BY <1>6, <2>2, <2>3 DEF KeepsOne
<1> QED
  BY <1>4, <1>5, <1>6

LEMMA BootFrame ==
  ASSUME StorageInv, BootInv, Grows, UNCHANGED <<capacity, good, piecemeal>>, NEW r \in Runs, NEW run,
         BootKnown(run)', job' = [job EXCEPT ![r] = run]
  PROVE BootInv'
<1>1. job \in [Runs -> RunRecords]
  BY DEF StorageInv, RunsSound
<1>2. ASSUME NEW q \in Runs PROVE BootKnown(job[q])'
  <2>1. BootKnown(job[q]) /\ (job'[q] = run \/ job'[q] = job[q])
    BY <1>1 DEF BootInv
  <2>2. CASE job'[q] = run
    BY <2>2 DEF BootKnown
  <2>3. CASE job'[q] = job[q]
    <3> DEFINE old == job[q]
    <3>1. BootKnown(old)'
      <4> HIDE DEF old
      <4> QED
        BY <2>1, KnownStays DEF old
    <3> QED
      BY <2>3, <3>1 DEF BootKnown
  <2> QED
    BY <2>1, <2>2, <2>3
<1> QED
  BY <1>2 DEF BootInv

LEMMA BootGoes ==
  ASSUME StorageInv, BootInv, UNCHANGED <<capacity, good, piecemeal, vds>>, NEW r \in Runs, NEW at,
         at \in {"wait", "drives", "failed", "boots", "refused"} \/ (job[r].at = "create" /\ at = "appear"),
         Goto(r, at)
  PROVE BootInv'
<1>0. PICK run : run = [job[r] EXCEPT !.at = at]
  OBVIOUS
<1>1. job[r] \in RunRecords /\ BootKnown(job[r]) /\ job' = [job EXCEPT ![r] = run]
  BY <1>0 DEF StorageInv, RunsSound, BootInv, Goto
<1>2. run.at = at /\ run.left = job[r].left /\ run.plan = job[r].plan /\ run.boot = job[r].boot
  BY <1>0, <1>1 DEF RunRecords
<1>3. BootKnown(run)
  BY <1>1, <1>2 DEF BootKnown
<1>4. Grows
  BY DEF Grows
<1>5. BootKnown(run)'
  BY <1>3, <1>4, KnownStays
<1> QED
  BY <1>1, <1>4, <1>5, BootFrame

LEMMA BootReads ==
  ASSUME StorageInv, BootInv, NEW r \in Runs, ReadDrives(r)
  PROVE BootInv'
<1>1. PICK view \in DriveReadings : job' = [job EXCEPT ![r].at = "volumes", ![r].view = view]
  BY DEF ReadDrives
<1>2. UNCHANGED <<capacity, good, piecemeal, vds>>
  BY DEF ReadDrives, AdapterSame
<1>3. \E sized \in SUBSET Drives : view = Readings(Drives, sized)
  BY ApplyAssumption DEF DriveReadings, BootInv
<1>4. Listed(view) = Drives /\ view.free = FreeDrives(Drives)
  BY <1>3 DEF Listed, Readings
<1>0. PICK run : run = [job[r] EXCEPT !.at = "volumes", !.view = view]
  OBVIOUS
<1>5. job[r] \in RunRecords /\ job' = [job EXCEPT ![r] = run]
  BY <1>0, <1>1 DEF StorageInv, RunsSound
<1>6. run.at = "volumes" /\ run.view = view
  BY <1>0, <1>5 DEF RunRecords
<1>7. BootKnown(run)
  BY <1>4, <1>6 DEF BootKnown
<1>8. Grows
  BY <1>2 DEF Grows
<1>9. BootKnown(run)'
  BY <1>2, <1>7, <1>8, KnownStays
<1> QED
  BY <1>2, <1>5, <1>8, <1>9, BootFrame

LEMMA BootPlans ==
  ASSUME StorageInv, BootInv, NEW r \in Runs, ReadVolumes(r)
  PROVE BootInv'
<1>1. UNCHANGED <<capacity, good, piecemeal, vds>> /\ Grows
  BY DEF ReadVolumes, AdapterSame, Grows
<1>2. /\ VdsTyped
      /\ job[r] \in RunRecords
      /\ RunSound(job[r])
      /\ BootKnown(job[r])
      /\ job[r].at = "volumes"
      /\ ~piecemeal
  BY DEF StorageInv, RunsSound, BootInv, ReadVolumes, At
<1>3. job[r].view \in ViewRecords /\ ReadSoundly(job[r].view) /\ vds \in VdReadings
  BY <1>2 DEF RunRecords, RunSound, VdReadings
<1> DEFINE view == [job[r].view EXCEPT !.vds = vds]
           plan == Plan(view)
           todo == Creates(plan.steps)
           failed == [Idle EXCEPT !.at = "failed"]
<1>0. PICK run : run = [at |-> Then(todo), view |-> NoView, plan |-> plan.steps, left |-> todo,
                        boot |-> plan.steps[1].id]
  OBVIOUS
<1>4. job' = [job EXCEPT ![r] = IF plan.refused THEN failed ELSE run]
  BY <1>0, <1>2 DEF ReadVolumes, VdReadings
<1>5. ReadSoundly(view) /\ view.vds = vds /\ Listed(view) = Drives /\ FreeDrives(Drives) \subseteq view.free
  BY <1>2, <1>3, SeenSound DEF BootKnown
<1>6. BootKnown(failed)
  BY DEF Idle, BootKnown
<1>7. CASE ~plan.refused
  <2> HIDE DEF view
  <2>1. 1 \in todo \/ \E v \in vds : v.id = plan.steps[1].id /\ IsBoot(v)
    BY <1>5, <1>7, BootPlanned
  <2>2. \A i \in todo : plan.steps[i].name = Layout[i].name
    BY <1>5, <1>7, CreatesSound DEF ReadSoundly
  <2>3. run.left = todo /\ run.plan = plan.steps /\ run.boot = plan.steps[1].id /\ run.at = Then(todo)
    BY <1>0
  <2> HIDE DEF plan, todo
  <2>4. run.at # "volumes" /\ (run.at = "check" => run.left = {})
    BY <2>3 DEF Then
  <2>5. BootKnown(run)
    BY <2>1, <2>2, <2>3, <2>4 DEF BootKnown
  <2>6. BootKnown(run)'
    BY <1>1, <2>5, KnownStays
  <2>7. job' = [job EXCEPT ![r] = run]
    BY <1>4, <1>7
  <2> QED
    BY <1>1, <2>6, <2>7, BootFrame
<1>8. CASE plan.refused
  <2> HIDE DEF failed, plan
  <2>1. BootKnown(failed)' /\ job' = [job EXCEPT ![r] = failed]
    BY <1>1, <1>4, <1>6, <1>8, KnownStays
  <2> QED
    BY <1>1, <2>1, BootFrame
<1> QED
  BY <1>7, <1>8

LEMMA BootAppears ==
  ASSUME StorageInv, BootInv, NEW r \in Runs, Appeared(r)
  PROVE BootInv'
<1>1. UNCHANGED <<capacity, good, piecemeal, vds>> /\ Grows
  BY DEF Appeared, AdapterSame, Grows
<1>2. /\ vds \subseteq Vd
      /\ job[r] \in RunRecords
      /\ RunSound(job[r])
      /\ BootKnown(job[r])
      /\ job[r].at = "appear"
  BY DEF StorageInv, VdsTyped, RunsSound, BootInv, Appeared, At
<1> DEFINE step == StepOf(r)
           found == {v \in vds : v.name = step.name}
           boot == IF step.name = Layout[1].name THEN FirstVd(found).id ELSE job[r].boot
<1>0. PICK run : run = [job[r] EXCEPT !.at = Then(Rest(r)), !.left = Rest(r), !.boot = boot]
  OBVIOUS
<1>3. found # {} /\ job' = [job EXCEPT ![r] = run]
  BY <1>0 DEF Appeared, VdReadings, StorageInv, RunsSound, BootInv
<1>4. /\ run.at = Then(Rest(r))
      /\ run.left = Rest(r)
      /\ run.plan = job[r].plan
      /\ run.boot = boot
  BY <1>0, <1>2 DEF RunRecords
<1>5. FirstVd(found) \in found
  BY <1>2, <1>3, FirstOfAll
<1>6. 1 \in Rest(r) \/ \E v \in vds : v.id = boot /\ IsBoot(v)
  <2>1. CASE step.name = Layout[1].name
    BY <1>5, <2>1 DEF IsBoot
  <2>2. CASE step.name # Layout[1].name
    <3>1. job[r].left \in SUBSET Nat /\ job[r].left # {}
      BY <1>2 DEF RunRecords, RunSound
    <3>2. Earliest(job[r].left) \in job[r].left
      BY <3>1, EarliestIn
    <3>3. step.name = Layout[Earliest(job[r].left)].name
      BY <1>2, <3>2 DEF BootKnown, StepOf
    <3>4. 1 \in job[r].left => 1 \in Rest(r)
      BY <2>2, <3>3 DEF Rest
    <3> QED
      BY <1>2, <2>2, <3>4 DEF BootKnown
  <2> QED
    BY <2>1, <2>2
<1> HIDE DEF boot
<1>7. BootKnown(run)
  <2>1. run.at # "volumes" /\ (run.at = "check" => run.left = {})
    BY <1>4 DEF Then
  <2>2. run.left \subseteq job[r].left
    BY <1>4 DEF Rest
  <2> QED
    BY <1>2, <1>4, <1>6, <2>1, <2>2 DEF BootKnown
<1>8. BootKnown(run)'
  BY <1>1, <1>7, KnownStays
<1> QED
  BY <1>1, <1>3, <1>8, BootFrame

LEMMA BootJobFrame ==
  ASSUME BootInv, Grows, UNCHANGED <<capacity, good, piecemeal, job>>
  PROVE BootInv'
<1>1. ASSUME NEW q \in Runs PROVE BootKnown(job[q])'
  <2> DEFINE old == job[q]
  <2>1. BootKnown(old)'
    <3> HIDE DEF old
    <3> QED
      BY KnownStays DEF BootInv, old
  <2> QED
    BY <2>1 DEF BootKnown
<1> QED
  BY <1>1 DEF BootInv

LEMMA BootStep ==
  ASSUME StorageInv, BootInv, [Next]_vars
  PROVE BootInv'
<1>1. ASSUME NEW r \in Runs,
             Start(r) \/ ControllerReady(r) \/ RequestVolume(r) \/ AppearTimeout(r) \/ CheckBoot(r) \/ RunFails(r)
      PROVE BootInv'
  <2>1. UNCHANGED <<capacity, good, piecemeal, vds>>
    BY <1>1 DEF Start, ControllerReady, RequestVolume, AppearTimeout, CheckBoot, RunFails, AdapterSame
  <2>2. \/ \E at \in {"wait", "drives", "failed", "boots", "refused"} : Goto(r, at)
        \/ job[r].at = "create" /\ Goto(r, "appear")
    BY <1>1 DEF Start, ControllerReady, RequestVolume, AppearTimeout, CheckBoot, RunFails, At
  <2> QED
    BY <2>1, <2>2, BootGoes
<1>2. ASSUME NEW v \in vds, DeleteByHand(v) PROVE BootInv'
  <2>1. ASSUME NEW q \in Runs PROVE BootKnown(job[q])' /\ job[q].at \notin Steps
    BY <1>2 DEF BootKnown, DeleteByHand, Running, Steps
  <2> QED
    BY <1>2, <2>1 DEF BootInv, DeleteByHand
<1>3. ASSUME NEW q \in pending, CompleteRequest(q) PROVE BootInv'
  <2>1. q.name \in SpecNames
    BY DEF StorageInv, PendingTyped
  <2>2. Grows /\ UNCHANGED <<capacity, good, piecemeal, job>>
    BY <1>3, <2>1 DEF CompleteRequest, Grows
  <2> QED
    BY <2>2, BootJobFrame
<1>4. CASE Settle \/ UNCHANGED vars
  <2>1. Grows /\ UNCHANGED <<capacity, good, piecemeal, job>>
    BY <1>4 DEF Settle, vars, Grows
  <2> QED
    BY <2>1, BootJobFrame
<1> QED
  BY <1>1, <1>2, <1>3, <1>4, BootReads, BootPlans, BootAppears DEF Next

LEMMA BootInit ==
  ASSUME Whole, Init
  PROVE BootInv
<1>1. ~piecemeal
  BY DEF Whole, Init
<1>2. BootKnown(Idle)
  BY DEF Idle, BootKnown
<1> QED
  BY <1>1, <1>2 DEF Init, BootInv

(* An installer that a run boots wipes the boot volume, on any adapter that *)
(* lists all it has, whichever runs and faults went before.                 *)
THEOREM InstallsOnBootHolds ==
  ASSUME Whole
  PROVE Spec => InstallsOnBoot
<1>1. ASSUME StorageInv, BootInv, [Next]_vars, NEW r \in Runs, ~At(r, "boots"), job'[r].at = "boots"
      PROVE /\ vds # {}
            /\ LET first == FirstVd(vds) IN
                 \/ first.name = Layout[1].name
                 \/ first.name \notin SpecNames /\ BestOf(first, Layout[1].select)
  <2>1. CheckBoot(r)
    <3>1. job \in [Runs -> RunRecords] /\ job[r] # job'[r]
      BY <1>1 DEF StorageInv, RunsSound, At
    <3>2. ASSUME NEW q \in Runs, Start(q) \/ ControllerReady(q) \/ RequestVolume(q) \/ AppearTimeout(q) \/ RunFails(q)
          PROVE FALSE
      <4>1. \E at \in {"wait", "drives", "failed", "appear"} : Goto(q, at)
        BY <3>2 DEF Start, ControllerReady, RequestVolume, AppearTimeout, RunFails
      <4> QED
        BY <1>1, <3>1, <4>1 DEF Goto, RunRecords
    <3>3. ASSUME NEW q \in Runs, ReadDrives(q) PROVE FALSE
      <4>1. PICK view \in DriveReadings : job' = [job EXCEPT ![q].at = "volumes", ![q].view = view]
        BY <3>3 DEF ReadDrives
      <4> QED
        BY <1>1, <3>1, <4>1 DEF RunRecords
    <3>4. ASSUME NEW q \in Runs, ReadVolumes(q) PROVE FALSE
      <4>1. PICK plan :
              LET todo == Creates(plan.steps)
              IN  job' = [job EXCEPT ![q] =
                            IF plan.refused THEN [Idle EXCEPT !.at = "failed"]
                            ELSE [at |-> Then(todo), view |-> NoView, plan |-> plan.steps, left |-> todo,
                                  boot |-> plan.steps[1].id]]
        BY <3>4 DEF ReadVolumes
      <4>2. Then(Creates(plan.steps)) # "boots"
        BY DEF Then
      <4> QED
        BY <1>1, <3>1, <4>1, <4>2 DEF Idle
    <3>5. ASSUME NEW q \in Runs, Appeared(q) PROVE FALSE
      <4>1. \E left, boot : job' = [job EXCEPT ![q].at = Then(left), ![q].left = left, ![q].boot = boot]
        BY <3>5 DEF Appeared
      <4>2. PICK left, boot : job' = [job EXCEPT ![q].at = Then(left), ![q].left = left, ![q].boot = boot]
        BY <4>1
      <4>3. Then(left) # "boots"
        BY DEF Then
      <4> QED
        BY <1>1, <3>1, <4>2, <4>3 DEF RunRecords
    <3>6. ~UNCHANGED job
      BY <3>1
    <3>7. PICK q \in Runs : CheckBoot(q)
      BY <1>1, <3>2, <3>3, <3>4, <3>5, <3>6 DEF Next, Settle, CompleteRequest, DeleteByHand, vars
    <3>8. q = r
      BY <3>1, <3>7 DEF CheckBoot, Goto
    <3> QED
      BY <3>7, <3>8
  <2>2. job[r].at = "check" /\ BootKnown(job[r]) /\ ~piecemeal
    BY <1>1, <2>1 DEF CheckBoot, At, BootInv
  <2>3. BootIsFirst(job[r].boot, vds)
    BY <1>1, <2>1, <2>2 DEF CheckBoot, VdReadings, Goto, StorageInv, RunsSound
  <2>4. PICK v \in vds : v.id = job[r].boot /\ IsBoot(v)
    BY <2>2 DEF BootKnown
  <2>5. FirstVd(vds) \in vds
    BY <1>1, <2>4, FirstOfAll DEF StorageInv, VdsTyped
  <2>6. FirstVd(vds) = v
    BY <1>1, <2>3, <2>4, <2>5 DEF BootIsFirst, StorageInv, VdsTyped
  <2> QED
    BY <2>4, <2>6 DEF IsBoot
<1>2. StorageInv /\ BootInv /\ [Next]_vars =>
        [\A r \in Runs : ~At(r, "boots") /\ job'[r].at = "boots" =>
           /\ vds # {}
           /\ LET first == FirstVd(vds) IN
                \/ first.name = Layout[1].name
                \/ first.name \notin SpecNames /\ BestOf(first, Layout[1].select)]_vars
  BY <1>1
<1>3. Init => BootInv
  BY BootInit
<1>4. StorageInv /\ BootInv /\ [Next]_vars => BootInv'
  BY BootStep
<1> QED
  BY <1>2, <1>3, <1>4, StorageInvHolds, PTL DEF Spec, InstallsOnBoot

-----------------------------------------------------------------------------
(* The same sizes give the same picks. *)
LEMMA SamePick ==
  ASSUME NEW one, NEW two, NEW pool, \A d \in pool : Capacity(one, d) = Capacity(two, d), NEW select, NEW n
  PROVE Pick(one, pool, select, n) = Pick(two, pool, select, n)
<1>1. \A d, e \in pool : Before(one, d, e) = Before(two, d, e)
  BY DEF Before
<1>2. ASSUME NEW d \in pool PROVE Ahead(one, pool, select, d) = Ahead(two, pool, select, d)
  BY <1>1 DEF Ahead, Prefers
<1> QED
  BY <1>2, PickAhead

LEMMA SameUnsized ==
  ASSUME NEW one, NEW two, NEW pool, \A d \in pool : Capacity(one, d) = Capacity(two, d)
  PROVE Unsized(one, pool) = Unsized(two, pool)
  BY DEF Unsized

LEMMA SameAmbiguity ==
  ASSUME NEW one, NEW two, NEW pool, \A d \in pool : Capacity(one, d) = Capacity(two, d),
         NEW pick, pick \subseteq pool
  PROVE SameSize(one, pick) = SameSize(two, pick) /\ Ambiguous(one, pool, pick) = Ambiguous(two, pool, pick)
<1>1. {Capacity(one, d) : d \in pick} = {Capacity(two, d) : d \in pick}
  OBVIOUS
<1>2. SameSize(one, pick) = SameSize(two, pick)
  BY <1>1 DEF SameSize
<1>3. Ambiguous(one, pool, pick) = Ambiguous(two, pool, pick)
  BY <1>2 DEF Ambiguous
<1> QED
  BY <1>2, <1>3

(* The listing order of hand-made VDs: one and two list the same VDs, the  *)
(* hand-made ones under other ids.  Two runs that have decided alike so    *)
(* far decide alike about the next entry.                                  *)
HandMade(view) == {v \in view.vds : v.name \notin SpecNames}
Moved(perm, v) == IF v.name \in SpecNames THEN v ELSE [v EXCEPT !.id = perm[v.id]]

MovedAll(perm, vs) == {Moved(perm, v) : v \in vs}

Reordered(one, two, perm) ==
  /\ ViewTyped(one)
  /\ ViewTyped(two)
  /\ two.capacity = one.capacity
  /\ two.free = one.free
  /\ two.vds = {Moved(perm, v) : v \in one.vds}
  /\ \A v, w \in one.vds : v # w => v.id # w.id /\ v.drives \intersect w.drives = {}
  /\ \A v, w \in HandMade(one) : v # w => perm[v.id] # perm[w.id]
  /\ \A v \in HandMade(one), w \in one.vds \ HandMade(one) : perm[v.id] # w.id

Alike(one, perm, a, b) ==
  /\ a.refused = b.refused
  /\ a.free = b.free
  /\ Len(a.steps) = Len(b.steps)
  /\ \A i \in 1..Len(a.steps) : a.steps[i].drives = b.steps[i].drives
  /\ \A v \in HandMade(one) : v.id \in a.claimed <=> perm[v.id] \in b.claimed

LEMMA MovedTo ==
  ASSUME NEW one, NEW two, NEW perm, Reordered(one, two, perm), NEW v \in one.vds
  PROVE /\ Moved(perm, v) \in two.vds
        /\ Moved(perm, v).name = v.name
        /\ Moved(perm, v).raid = v.raid
        /\ Moved(perm, v).drives = v.drives
        /\ v \in HandMade(one) => Moved(perm, v).id = perm[v.id]
        /\ v \notin HandMade(one) => Moved(perm, v) = v
  BY DEF Moved, Reordered, ViewTyped, Vd, HandMade

LEMMA KeptAlike ==
  ASSUME NEW one, NEW two, NEW perm, Reordered(one, two, perm), NEW i \in 1..Len(Layout),
         NEW a \in Decisions(one), NEW b \in Decisions(two), Alike(one, perm, a, b), NEW v \in one.vds
  PROVE Alike(one, perm, Keep(a, Layout[i], v), Keep(b, Layout[i], Moved(perm, v)))
<1> DEFINE vol == Layout[i]
           w == Moved(perm, v)
<1>1. w.raid = v.raid /\ w.drives = v.drives
  BY MovedTo
<1>2. \A u \in HandMade(one) : u.id = v.id <=> perm[u.id] = w.id
  <2>1. ASSUME NEW u \in HandMade(one) PROVE u.id = v.id <=> perm[u.id] = w.id
    <3>1. u \in one.vds /\ (u # v => u.id # v.id)
      BY DEF HandMade, Reordered
    <3>2. (v \in HandMade(one) => w.id = perm[v.id]) /\ (v \notin HandMade(one) => w.id = v.id)
      BY MovedTo
    <3>3. v \in HandMade(one) /\ u # v => perm[u.id] # perm[v.id]
      BY DEF Reordered
    <3>4. v \notin HandMade(one) => u # v /\ perm[u.id] # v.id
      BY DEF Reordered
    <3> HIDE DEF w
    <3>5. CASE u = v
      BY <3>2, <3>4, <3>5
    <3>6. CASE u # v
      BY <3>1, <3>2, <3>3, <3>4, <3>6
    <3> QED
      BY <3>5, <3>6
  <2> QED
    BY <2>1
<1>3. KeepStep(vol, v).drives = KeepStep(vol, w).drives
  BY <1>1 DEF KeepStep
<1> HIDE DEF w
<1>4. CASE v.raid # vol.raid
  <2>1. Alike(one, perm, Refuse(a), Refuse(b))
    BY DEF Alike, Refuse, Decisions
  <2> QED
    BY <1>1, <1>4, <2>1 DEF Keep, w
<1>5. CASE v.raid = vol.raid
  <2> DEFINE next == [a EXCEPT !.claimed = @ \union {v.id}, !.steps = Append(@, KeepStep(vol, v))]
             other == [b EXCEPT !.claimed = @ \union {w.id}, !.steps = Append(@, KeepStep(vol, w))]
  <2>1. next.claimed = a.claimed \union {v.id} /\ other.claimed = b.claimed \union {w.id}
    BY DEF Decisions
  <2>2. next.refused = a.refused /\ next.free = a.free /\ other.refused = b.refused /\ other.free = b.free
    BY DEF Decisions
  <2>3. next.steps = Append(a.steps, KeepStep(vol, v)) /\ other.steps = Append(b.steps, KeepStep(vol, w))
    BY DEF Decisions
  <2>4. a.steps \in Seq(StepRecords) /\ b.steps \in Seq(StepRecords)
    BY DEF Decisions
  <2> HIDE DEF next, other, vol
  <2>5. \A u \in HandMade(one) : u.id \in next.claimed <=> perm[u.id] \in other.claimed
    BY <1>2, <2>1 DEF Alike
  <2>6. Len(next.steps) = Len(other.steps) /\ \A k \in 1..Len(next.steps) : next.steps[k].drives = other.steps[k].drives
    BY <1>3, <2>3, <2>4 DEF Alike
  <2>7. Alike(one, perm, next, other)
    BY <2>2, <2>5, <2>6 DEF Alike
  <2> QED
    BY <1>1, <1>5, <2>7 DEF Keep, next, other, w, vol
<1> QED
  BY <1>4, <1>5

LEMMA CreatedAlike ==
  ASSUME NEW one, NEW two, NEW perm, Reordered(one, two, perm), NEW i \in 1..Len(Layout),
         NEW a \in Decisions(one), NEW b \in Decisions(two), Alike(one, perm, a, b)
  PROVE Alike(one, perm, Create(a, Layout[i], one), Create(b, Layout[i], two))
<1> DEFINE vol == Layout[i]
           pick == Pick(one, a.free, vol.select, vol.count)
<1>1. a.free = b.free
  BY DEF Alike
<1>2. \A d \in a.free : Capacity(one, d) = Capacity(two, d)
  BY DEF Reordered, Capacity
<1>3. /\ pick = Pick(two, b.free, vol.select, vol.count)
      /\ Unsized(one, a.free) = Unsized(two, b.free)
      /\ SameSize(one, pick) = SameSize(two, pick)
      /\ Ambiguous(one, a.free, pick) = Ambiguous(two, b.free, pick)
  <2>1. pick \in SUBSET a.free
    BY PickWithin
  <2>2. pick = Pick(two, a.free, vol.select, vol.count)
    <3> DEFINE pool == a.free
    <3>1. \A d \in pool : Capacity(one, d) = Capacity(two, d)
      BY <1>2
    <3> HIDE DEF pool
    <3>2. Pick(one, pool, vol.select, vol.count) = Pick(two, pool, vol.select, vol.count)
      BY <3>1, SamePick
    <3> QED
      BY <3>2 DEF pool
  <2>3. Unsized(one, a.free) = Unsized(two, a.free)
    BY <1>2, SameUnsized
  <2> HIDE DEF pick, vol
  <2>4. SameSize(one, pick) = SameSize(two, pick) /\ Ambiguous(one, a.free, pick) = Ambiguous(two, a.free, pick)
    BY <1>2, <2>1, SameAmbiguity
  <2> QED
    BY <1>1, <2>2, <2>3, <2>4
<1>4. Alike(one, perm, Refuse(a), Refuse(b))
  BY DEF Alike, Refuse, Decisions
<1> DEFINE next == [a EXCEPT !.free = @ \ pick, !.steps = Append(@, CreateStep(vol, pick))]
           other == [b EXCEPT !.free = @ \ pick, !.steps = Append(@, CreateStep(vol, pick))]
<1>5. Alike(one, perm, next, other)
  <2>1. a.steps \in Seq(StepRecords) /\ b.steps \in Seq(StepRecords)
    BY DEF Decisions
  <2>2. next.steps = Append(a.steps, CreateStep(vol, pick)) /\ other.steps = Append(b.steps, CreateStep(vol, pick))
    BY DEF Decisions
  <2>3. /\ next.refused = a.refused
        /\ other.refused = b.refused
        /\ next.free = a.free \ pick
        /\ other.free = b.free \ pick
        /\ next.claimed = a.claimed
        /\ other.claimed = b.claimed
    BY DEF Decisions
  <2> HIDE DEF next, other, pick, vol
  <2>4. Len(next.steps) = Len(other.steps) /\ \A k \in 1..Len(next.steps) : next.steps[k].drives = other.steps[k].drives
    BY <2>1, <2>2 DEF Alike
  <2> QED
    BY <2>3, <2>4 DEF Alike
<1> HIDE DEF next, other
<1>6. CASE \/ Cardinality(a.free) < vol.count
           \/ Unsized(one, a.free)
           \/ ~SameSize(one, pick)
           \/ Ambiguous(one, a.free, pick)
  <2>1. Create(a, vol, one) = Refuse(a) /\ Create(b, vol, two) = Refuse(b)
    BY <1>1, <1>3, <1>6 DEF Create
  <2> QED
    BY <1>4, <2>1
<1>7. CASE ~(\/ Cardinality(a.free) < vol.count
             \/ Unsized(one, a.free)
             \/ ~SameSize(one, pick)
             \/ Ambiguous(one, a.free, pick))
  <2>1. Create(a, vol, one) = next /\ Create(b, vol, two) = other
    BY <1>1, <1>3, <1>7 DEF Create, next, other
  <2> QED
    BY <1>5, <2>1
<1> QED
  BY <1>6, <1>7

LEMMA NamedMoved ==
  ASSUME NEW one, NEW two, NEW perm, Reordered(one, two, perm), NEW vol, vol.name \in SpecNames
  PROVE Named(vol, two) = Named(vol, one)
<1>1. ASSUME NEW v \in Named(vol, one) PROVE v \in Named(vol, two)
  BY <1>1, MovedTo DEF Named, HandMade
<1>2. ASSUME NEW w \in Named(vol, two) PROVE w \in Named(vol, one)
  <2>1. PICK v \in one.vds : w = Moved(perm, v)
    BY DEF Named, Reordered
  <2>2. v.name = vol.name
    BY <2>1, MovedTo DEF Named
  <2>3. w = v
    BY <2>1, <2>2, MovedTo DEF HandMade
  <2> QED
    BY <2>1, <2>2, <2>3 DEF Named
<1> QED
  BY <1>1, <1>2

LEMMA CandidatesMoved ==
  ASSUME NEW one, NEW two, NEW perm, Reordered(one, two, perm), NEW vol, NEW a, NEW b, Alike(one, perm, a, b)
  PROVE Candidates(vol, two, b.claimed) = MovedAll(perm, Candidates(vol, one, a.claimed))
<1>1. Listed(two) = Listed(one)
  BY DEF Reordered, Listed
<1>2. ASSUME NEW v \in one.vds
      PROVE v \in Candidates(vol, one, a.claimed) <=> Moved(perm, v) \in Candidates(vol, two, b.claimed)
  <2> DEFINE w == Moved(perm, v)
  <2>1. w \in two.vds /\ w.name = v.name /\ w.raid = v.raid /\ w.drives = v.drives
    BY MovedTo
  <2>2. v \in HandMade(one) => (v.id \in a.claimed <=> w.id \in b.claimed)
    BY MovedTo DEF Alike
  <2> HIDE DEF w
  <2>3. v \in Candidates(vol, one, a.claimed) <=> w \in Candidates(vol, two, b.claimed)
    BY <1>1, <2>1, <2>2 DEF Candidates, HandMade
  <2> QED
    BY <2>3 DEF w
<1>3. two.vds = {Moved(perm, v) : v \in one.vds}
  BY DEF Reordered
<1>4. Candidates(vol, two, b.claimed) \subseteq two.vds /\ Candidates(vol, one, a.claimed) \subseteq one.vds
  BY DEF Candidates
<1> QED
  BY <1>2, <1>3, <1>4 DEF MovedAll

(* Drives are in one VD: at most one is what the entry would pick. *)
LEMMA OneHit ==
  ASSUME NEW view, ViewTyped(view), \A v, w \in view.vds : v # w => v.drives \intersect w.drives = {},
         NEW i \in 1..Len(Layout), NEW claimed, NEW free
  PROVE LET hits == Adopted(Layout[i], view, claimed, free).vds
        IN  hits \subseteq Candidates(Layout[i], view, claimed) /\ \A v, w \in hits : v = w
<1> DEFINE cands == Candidates(Layout[i], view, claimed)
           picked == Pick(view, AdoptionPool(cands, free), Layout[i].select, Layout[i].count)
           hits == Adopted(Layout[i], view, claimed, free).vds
<1>1. hits = {v \in cands : v.drives = picked}
  BY DEF Adopted
<1>2. ASSUME NEW v \in cands PROVE v \in view.vds /\ v.drives # {}
  <2>1. v \in view.vds /\ Cardinality(v.drives) = Layout[i].count
    BY DEF Candidates
  <2>2. Cardinality(v.drives) # 0
    BY <2>1, EntryTyped
  <2> QED
    BY <2>1, <2>2, FS_EmptySet
<1> HIDE DEF cands, picked, hits
<1>3. ASSUME NEW v \in hits, NEW w \in hits, v # w PROVE FALSE
  BY <1>1, <1>2, <1>3
<1>4. hits \subseteq cands /\ \A v, w \in hits : v = w
  BY <1>1, <1>3
<1> QED
  BY <1>4 DEF cands, hits

LEMMA AdoptedMoved ==
  ASSUME NEW one, NEW two, NEW perm, Reordered(one, two, perm), NEW i \in 1..Len(Layout),
         NEW a \in Decisions(one), NEW b \in Decisions(two), Alike(one, perm, a, b)
  PROVE LET was == Adopted(Layout[i], one, a.claimed, a.free)
            now == Adopted(Layout[i], two, b.claimed, b.free)
        IN  /\ now.refused = was.refused
            /\ now.vds = MovedAll(perm, was.vds)
            /\ was.vds \subseteq one.vds
<1> DEFINE vol == Layout[i]
           cands == Candidates(vol, one, a.claimed)
           others == Candidates(vol, two, b.claimed)
           pool == AdoptionPool(cands, a.free)
           picked == Pick(one, pool, vol.select, vol.count)
           was == Adopted(vol, one, a.claimed, a.free)
           now == Adopted(vol, two, b.claimed, b.free)
           hits == {v \in cands : v.drives = picked}
           others2 == {v \in others : v.drives = picked}
<1>1. others = MovedAll(perm, cands)
  <2> HIDE DEF vol
  <2> SUFFICES Candidates(vol, two, b.claimed) = MovedAll(perm, Candidates(vol, one, a.claimed))
    OBVIOUS
  <2> HIDE DEF cands, others
  <2>1. Reordered(one, two, perm) /\ Alike(one, perm, a, b)
    OBVIOUS
  <2> QED
    BY ONLY <2>1, CandidatesMoved
<1>2. cands \subseteq one.vds /\ \A v \in cands : Moved(perm, v).drives = v.drives /\ v.drives \subseteq Listed(one)
  BY MovedTo DEF Candidates
<1> HIDE DEF cands, others
<1>3. a.free = b.free /\ a.free \subseteq Listed(one)
  BY DEF Alike, Decisions, Reordered, ViewTyped
<1>4. UNION {v.drives : v \in others} = UNION {v.drives : v \in cands}
  BY <1>1, <1>2 DEF MovedAll
<1>5. AdoptionPool(others, b.free) = pool /\ pool \subseteq Listed(one)
  BY <1>2, <1>3, <1>4 DEF AdoptionPool
<1> HIDE DEF pool
<1>6. \A d \in pool : Capacity(one, d) = Capacity(two, d)
  BY DEF Reordered, Capacity
<1>7. Pick(two, pool, vol.select, vol.count) = picked
  BY <1>6, SamePick
<1>8. Unsized(two, pool) = Unsized(one, pool)
  BY <1>6, SameUnsized
<1>9. Ambiguous(two, pool, picked) = Ambiguous(one, pool, picked)
  <2>1. picked \in SUBSET pool
    BY PickWithin
  <2> HIDE DEF picked
  <2> QED
    BY <1>6, <2>1, SameAmbiguity
<1>10. was.vds = hits /\ now.vds = others2
  <2>1. was.vds = hits
    BY DEF Adopted, pool, cands
  <2>2. now.vds = others2
    BY <1>5, <1>7 DEF Adopted, others
  <2> QED
    BY <2>1, <2>2
<1>11. others2 = MovedAll(perm, hits)
  BY <1>1, <1>2 DEF MovedAll
<1>12. now.refused = was.refused
  <2>1. was.refused = (cands # {} /\ (Unsized(one, pool) \/ (hits # {} /\ Ambiguous(one, pool, picked))))
    BY DEF Adopted, pool, cands
  <2>2. now.refused = (others # {} /\ (Unsized(two, pool) \/ (others2 # {} /\ Ambiguous(two, pool, picked))))
    BY <1>5, <1>7 DEF Adopted, others
  <2>3. (others # {}) = (cands # {}) /\ (others2 # {}) = (hits # {})
    BY <1>1, <1>11 DEF MovedAll
  <2> HIDE DEF was, now, hits, others2, picked
  <2> QED
    BY <1>8, <1>9, <2>1, <2>2, <2>3
<1>13. was.vds \subseteq one.vds
  BY <1>2, <1>10
<1> QED
  BY <1>10, <1>11, <1>12, <1>13

LEMMA OneAlike ==
  ASSUME NEW one, NEW two, NEW perm, Reordered(one, two, perm), NEW i \in 1..Len(Layout),
         NEW a \in Decisions(one), NEW b \in Decisions(two), Alike(one, perm, a, b)
  PROVE Alike(one, perm, PlanOne(a, Layout[i], one), PlanOne(b, Layout[i], two))
<1> DEFINE vol == Layout[i]
           named == Named(vol, one)
           was == Adopted(vol, one, a.claimed, a.free)
           now == Adopted(vol, two, b.claimed, b.free)
           hits == was.vds
<1>1. Named(vol, two) = named
  BY EntryTyped, NamedMoved
<1>2. now.refused = was.refused /\ now.vds = MovedAll(perm, hits) /\ hits \subseteq one.vds
  BY AdoptedMoved
<1>3. \A v, w \in hits : v = w
  BY OneHit DEF Reordered
<1>4. a.refused = b.refused
  BY DEF Alike
<1> HIDE DEF was, now
<1>5. CASE a.refused
  BY <1>4, <1>5 DEF PlanOne
<1>6. CASE ~a.refused /\ named # {}
  <2>1. LastVd(named) \in named
    <3>1. named \in SUBSET Vd /\ IsFiniteSet(named)
      BY FS_Subset DEF Reordered, ViewTyped, Named
    <3> QED
      BY <1>6, <3>1, LastOfAll
  <2>2. LastVd(named) \in one.vds /\ Moved(perm, LastVd(named)) = LastVd(named)
    <3>1. LastVd(named) \in one.vds /\ LastVd(named).name = vol.name
      BY <2>1 DEF Named
    <3> QED
      BY <3>1, EntryTyped DEF Moved
  <2>3. PlanOne(a, vol, one) = Keep(a, vol, LastVd(named)) /\ PlanOne(b, vol, two) = Keep(b, vol, LastVd(named))
    BY <1>1, <1>4, <1>6 DEF PlanOne, Named
  <2> QED
    BY <2>2, <2>3, KeptAlike
<1>7. CASE ~a.refused /\ named = {} /\ was.refused
  <2>1. PlanOne(a, vol, one) = Refuse(a) /\ PlanOne(b, vol, two) = Refuse(b)
    BY <1>1, <1>2, <1>4, <1>7 DEF PlanOne, Named, was, now
  <2>2. Alike(one, perm, Refuse(a), Refuse(b))
    BY DEF Alike, Refuse, Decisions
  <2> QED
    BY <2>1, <2>2
<1>8. CASE ~a.refused /\ named = {} /\ ~was.refused /\ hits # {}
  <2>1. PICK v \in hits : hits = {v}
    BY <1>3, <1>8
  <2>2. now.vds = {Moved(perm, v)}
    BY <1>2, <2>1 DEF MovedAll
  <2>3. FirstVd(hits) = v /\ FirstVd(now.vds) = Moved(perm, v)
    <3>1. v \in Vd /\ Moved(perm, v) \in Vd
      BY <1>2, MovedTo DEF Reordered, ViewTyped
    <3>2. {v} \in SUBSET Vd /\ {Moved(perm, v)} \in SUBSET Vd
      BY <3>1
    <3>3. FirstVd({v}) \in {v} /\ FirstVd({Moved(perm, v)}) \in {Moved(perm, v)}
      BY <3>2, FirstOfAll
    <3> QED
      BY <2>1, <2>2, <3>3
  <2>4. PlanOne(a, vol, one) = Keep(a, vol, FirstVd(hits)) /\ PlanOne(b, vol, two) = Keep(b, vol, FirstVd(now.vds))
    BY <1>1, <1>2, <1>4, <1>8, <2>2 DEF PlanOne, Named, was, now
  <2>5. v \in one.vds
    BY <1>2
  <2> QED
    BY <2>3, <2>4, <2>5, KeptAlike
<1>9. CASE ~a.refused /\ named = {} /\ ~was.refused /\ hits = {}
  <2>1. now.vds = {}
    BY <1>2, <1>9 DEF MovedAll
  <2>2. PlanOne(a, vol, one) = Create(a, vol, one) /\ PlanOne(b, vol, two) = Create(b, vol, two)
    BY <1>1, <1>2, <1>4, <1>9, <2>1 DEF PlanOne, Named, was, now
  <2> QED
    BY <2>2, CreatedAlike
<1> QED
  BY <1>5, <1>6, <1>7, <1>8, <1>9

LEMMA PlansAlike ==
  ASSUME NEW one, NEW two, NEW perm, Reordered(one, two, perm)
  PROVE Alike(one, perm, Plan(one), Plan(two))
<1> DEFINE N == Len(Layout)
           S == {n \in 0..N : Alike(one, perm, Planned(one)[n], Planned(two)[n])}
<1>1. N \in Nat /\ ViewTyped(one) /\ ViewTyped(two)
  BY LayoutAssumption DEF Reordered
<1>2. 0 \in S
  <2>1. Alike(one, perm, NothingPlanned(one), NothingPlanned(two))
    BY DEF Alike, NothingPlanned, Reordered
  <2> QED
    BY <1>1, <2>1, Planning
<1>3. ASSUME NEW n \in S, n < N PROVE n + 1 \in S
  <2> DEFINE a == Planned(one)[n]
             b == Planned(two)[n]
  <2>1. n \in 0..N /\ n + 1 \in 1..N /\ n + 1 \in 0..N /\ (n + 1) - 1 = n /\ Alike(one, perm, a, b)
    BY <1>1, <1>3
  <2>2. a \in Decisions(one) /\ b \in Decisions(two)
    BY <1>1, <2>1, PlannedTyped
  <2>3. Planned(one)[n + 1] = PlanOne(a, Layout[n + 1], one) /\ Planned(two)[n + 1] = PlanOne(b, Layout[n + 1], two)
    BY <2>1, Planning
  <2> HIDE DEF a, b
  <2>4. Alike(one, perm, PlanOne(a, Layout[n + 1], one), PlanOne(b, Layout[n + 1], two))
    BY <2>1, <2>2, OneAlike
  <2> QED
    BY <2>1, <2>3, <2>4
<1>4. S = 0..N
  <2> HIDE DEF S
  <2>1. S \in SUBSET (0..N)
    BY DEF S
  <2> QED
    BY <1>1, <1>2, <1>3, <2>1, UpTo
<1>5. N \in S
  BY <1>1, <1>4
<1> QED
  BY <1>5 DEF Plan

(* The plan for what the adapter holds. *)
LEMMA FullViewSound ==
  ASSUME StorageInv
  PROVE /\ ReadSoundly(FullView)
        /\ FullView \in ViewRecords
        /\ FullView.vds = vds
        /\ FullView.free = FreeDrives(Drives)
        /\ FullView.capacity = capacity
        /\ Listed(FullView) = Drives
<1> DEFINE all == Readings(Drives, Drives)
<1>1. AdapterTyped /\ VdsTyped
  BY DEF StorageInv
<1>2. all \in ViewRecords /\ ReadSoundly(all)
  BY <1>1, ReadingsSound
<1>3. all.free = FreeDrives(Drives) /\ all.capacity = [d \in Drives |-> capacity[d]]
  BY DEF Readings
<1>4. all.capacity = capacity
  BY <1>1, <1>3 DEF AdapterTyped
<1>5. Listed(all) = Drives
  BY <1>3 DEF Listed
<1>6. vds \in VdReadings
  BY DEF VdReadings
<1> HIDE DEF all
<1>7. /\ ReadSoundly([all EXCEPT !.vds = vds])
      /\ [all EXCEPT !.vds = vds].free = all.free
      /\ [all EXCEPT !.vds = vds].capacity = all.capacity
      /\ Listed([all EXCEPT !.vds = vds]) = Listed(all)
      /\ [all EXCEPT !.vds = vds].vds = vds
  BY <1>1, <1>2, <1>6, SeenSound
<1>8. [all EXCEPT !.vds = vds] \in ViewRecords
  BY <1>1, <1>2 DEF ViewRecords, VdsTyped
<1> QED
  BY <1>3, <1>4, <1>5, <1>7, <1>8 DEF FullView, all

LEMMA RenumberedReorders ==
  ASSUME StorageInv, NEW perm \in Orders
  PROVE Reordered(FullView, [FullView EXCEPT !.vds = Renumbered(perm)], perm)
<1> DEFINE one == FullView
           new == Renumbered(perm)
           two == [FullView EXCEPT !.vds = new]
<1>1. /\ ViewTyped(one)
      /\ one \in ViewRecords
      /\ one.vds = vds
  BY FullViewSound DEF ReadSoundly
<1>2. VdsTyped
  BY DEF StorageInv
<1>3. new = {Moved(perm, v) : v \in vds}
  BY DEF Renumbered, Moved
<1>4. ASSUME NEW v \in HandMade(one) PROVE v.id \in HandMadeIds /\ perm[v.id] \in HandMadeIds
  BY <1>1 DEF HandMade, HandMadeIds, Orders
<1>5. new \subseteq Vd
  <2>1. ASSUME NEW v \in vds PROVE Moved(perm, v) \in Vd
    <3>1. CASE v.name \in SpecNames
      BY <1>2, <3>1 DEF Moved, VdsTyped
    <3>2. CASE v.name \notin SpecNames
      <4>1. perm[v.id] \in Nat
        BY <1>1, <1>2, <1>4, <3>2 DEF HandMade, HandMadeIds, VdsTyped, Vd
      <4> QED
        BY <1>2, <3>2, <4>1 DEF Moved, VdsTyped, Vd
    <3> QED
      BY <3>1, <3>2
  <2> QED
    BY <1>3, <2>1
<1>6. IsFiniteSet(new)
  <2> DEFINE f == [v \in vds |-> Moved(perm, v)]
  <2>1. f \in Surjection(vds, new)
    BY <1>3 DEF Surjection
  <2> QED
    BY <1>2, <2>1, FS_Surjection DEF VdsTyped
<1> HIDE DEF one, new
<1>7. two.capacity = one.capacity /\ two.free = one.free /\ two.vds = new
  BY <1>1 DEF ViewRecords, one
<1> HIDE DEF two
<1>8. ViewTyped(two)
  BY <1>1, <1>5, <1>6, <1>7 DEF ViewTyped, Listed
<1>9. \A v, w \in HandMade(one) : v # w => perm[v.id] # perm[w.id]
  <2>1. ASSUME NEW v \in HandMade(one), NEW w \in HandMade(one), v # w PROVE perm[v.id] # perm[w.id]
    <3>1. v.id # w.id
      BY <1>1, <1>2, <2>1 DEF HandMade, VdsTyped
    <3>2. v.id \in HandMadeIds /\ w.id \in HandMadeIds
      BY <1>4
    <3> QED
      BY <3>1, <3>2 DEF Orders
  <2> QED
    BY <2>1
<1>10. \A v \in HandMade(one), w \in one.vds \ HandMade(one) : perm[v.id] # w.id
  <2>1. ASSUME NEW v \in HandMade(one), NEW w \in one.vds \ HandMade(one) PROVE perm[v.id] # w.id
    <3>1. PICK u \in vds : u.id = perm[v.id] /\ u.name \notin SpecNames
      BY <1>4 DEF HandMadeIds
    <3>2. u # w
      BY <1>1, <3>1 DEF HandMade
    <3> QED
      BY <1>1, <1>2, <3>1, <3>2 DEF VdsTyped
  <2> QED
    BY <2>1
<1>11. Reordered(one, two, perm)
  BY <1>1, <1>2, <1>3, <1>7, <1>8, <1>9, <1>10 DEF Reordered, VdsTyped
<1> QED
  BY <1>11 DEF one, two, new

(* The listing order of hand-made VDs never decides which one is boot,      *)
(* whatever the adapter, the layout, the runs and the faults.               *)
THEOREM ListingOrderBlindHolds == Spec => []ListingOrderBlind
<1>1. StorageInv => ListingOrderBlind
  <2> SUFFICES ASSUME StorageInv, NEW perm \in Orders
               PROVE Choice(Plan([FullView EXCEPT !.vds = Renumbered(perm)])) = Choice(Plan(FullView))
    BY DEF ListingOrderBlind
  <2> DEFINE one == FullView
             two == [FullView EXCEPT !.vds = Renumbered(perm)]
             p == Plan(one)
             q == Plan(two)
  <2>1. Reordered(one, two, perm)
    BY RenumberedReorders
  <2> HIDE DEF one, two
  <2>2. Alike(one, perm, p, q)
    BY <2>1, PlansAlike
  <2>3. p \in Decisions(one) /\ q \in Decisions(two)
    <3>1. Len(Layout) \in 0..Len(Layout) /\ ViewTyped(one) /\ ViewTyped(two)
      BY <2>1, LayoutAssumption DEF Reordered
    <3> QED
      BY <3>1, PlannedTyped DEF Plan
  <2> HIDE DEF p, q
  <2>4. p.steps \in Seq(StepRecords) /\ q.steps \in Seq(StepRecords)
    BY <2>3 DEF Decisions
  <2>5. DOMAIN p.steps = DOMAIN q.steps /\ \A i \in DOMAIN p.steps : p.steps[i].drives = q.steps[i].drives
    BY <2>2, <2>4 DEF Alike
  <2>6. [i \in DOMAIN p.steps |-> p.steps[i].drives] = [i \in DOMAIN q.steps |-> q.steps[i].drives]
    BY <2>5
  <2>7. Choice(q) = Choice(p)
    BY <2>2, <2>6 DEF Choice, Alike
  <2> QED
    BY <2>7 DEF one, two, p, q
<1> QED
  BY <1>1, StorageInvHolds, PTL

-----------------------------------------------------------------------------
(* A plan made while some capacities are not reported yet, and not refused, *)
(* is the plan that is made when they all are.                              *)
Partly(now, full) ==
  /\ ViewTyped(now)
  /\ ViewTyped(full)
  /\ now.free = full.free
  /\ now.vds = full.vds
  /\ Listed(now) = Listed(full)
  /\ \A d \in Listed(now) : now.capacity[d] \in {0, full.capacity[d]}

LEMMA SizedPool ==
  ASSUME NEW now, NEW full, Partly(now, full), NEW pool \in SUBSET Listed(now), ~Unsized(now, pool)
  PROVE \A d \in pool : Capacity(now, d) = Capacity(full, d)
  BY DEF Partly, Unsized, Capacity

LEMMA SizedAdopts ==
  ASSUME NEW now, NEW full, Partly(now, full), NEW vol, NEW acc \in Decisions(now),
         ~Adopted(vol, now, acc.claimed, acc.free).refused
  PROVE Adopted(vol, full, acc.claimed, acc.free) = Adopted(vol, now, acc.claimed, acc.free)
<1> DEFINE cands == Candidates(vol, now, acc.claimed)
           pool == AdoptionPool(cands, acc.free)
           picked == Pick(now, pool, vol.select, vol.count)
           other == Pick(full, pool, vol.select, vol.count)
           hits == {v \in cands : v.drives = picked}
           others == {v \in cands : v.drives = other}
<1>1. Candidates(vol, full, acc.claimed) = cands
  BY DEF Candidates, Partly
<1>2. pool \in SUBSET Listed(now)
  BY DEF AdoptionPool, Candidates, Decisions, Partly, ViewTyped
<1>3. Adopted(vol, now, acc.claimed, acc.free) =
        [refused |-> cands # {} /\ (Unsized(now, pool) \/ (hits # {} /\ Ambiguous(now, pool, picked))), vds |-> hits]
  BY DEF Adopted
<1>4. Adopted(vol, full, acc.claimed, acc.free) =
        [refused |-> cands # {} /\ (Unsized(full, pool) \/ (others # {} /\ Ambiguous(full, pool, other))), vds |-> others]
  BY <1>1 DEF Adopted
<1> HIDE DEF cands, pool
<1>5. CASE cands = {}
  <2>1. hits = {} /\ others = {}
    BY <1>5
  <2> HIDE DEF picked, other, hits, others
  <2> QED
    BY <1>3, <1>4, <1>5, <2>1
<1>6. CASE cands # {}
  <2>1. ~Unsized(now, pool)
    <3>1. Adopted(vol, now, acc.claimed, acc.free).refused =
            (cands # {} /\ (Unsized(now, pool) \/ (hits # {} /\ Ambiguous(now, pool, picked))))
      BY DEF Adopted, cands, pool
    <3> HIDE DEF picked, hits
    <3> QED
      BY <1>6, <3>1
  <2>2. \A d \in pool : Capacity(now, d) = Capacity(full, d)
    BY <1>2, <2>1, SizedPool
  <2>3. picked = other
    BY <2>2, SamePick
  <2>4. Unsized(now, pool) = Unsized(full, pool)
    BY <2>2, SameUnsized
  <2>5. Ambiguous(now, pool, picked) = Ambiguous(full, pool, picked)
    <3>1. picked \in SUBSET pool
      BY PickWithin
    <3> HIDE DEF picked
    <3> QED
      BY <2>2, <3>1, SameAmbiguity
  <2>6. hits = others
    BY <2>3
  <2> HIDE DEF picked, other, hits, others
  <2> QED
    BY <1>3, <1>4, <2>3, <2>4, <2>5, <2>6
<1> QED
  BY <1>5, <1>6

LEMMA SizedOne ==
  ASSUME NEW now, NEW full, Partly(now, full), NEW acc \in Decisions(now), NEW vol,
         ~PlanOne(acc, vol, now).refused
  PROVE PlanOne(acc, vol, full) = PlanOne(acc, vol, now)
<1> DEFINE named == Named(vol, now)
           was == Adopted(vol, now, acc.claimed, acc.free)
           pick == Pick(now, acc.free, vol.select, vol.count)
<1>1. Named(vol, full) = named
  BY DEF Named, Partly
<1>2. Refuse(acc).refused
  BY DEF Refuse, Decisions
<1>3. CASE acc.refused
  BY <1>3 DEF PlanOne
<1>4. CASE ~acc.refused /\ named # {}
  BY <1>1, <1>4 DEF PlanOne, Named
<1>5. CASE ~acc.refused /\ named = {}
  <2>1. ~was.refused
    BY <1>2, <1>5 DEF PlanOne, Named
  <2>2. Adopted(vol, full, acc.claimed, acc.free) = was
    BY <2>1, SizedAdopts
  <2>3. CASE was.vds # {}
    BY <1>1, <1>5, <2>2, <2>3 DEF PlanOne, Named
  <2>4. CASE was.vds = {}
    <3>1. PlanOne(acc, vol, now) = Create(acc, vol, now) /\ PlanOne(acc, vol, full) = Create(acc, vol, full)
      BY <1>1, <1>5, <2>1, <2>2, <2>4 DEF PlanOne, Named
    <3>2. ~Unsized(now, acc.free)
      BY <1>2, <3>1 DEF Create
    <3> DEFINE pool == acc.free
    <3>3. pool \in SUBSET Listed(now) /\ pick \in SUBSET pool
      BY PickWithin DEF Decisions, Partly, ViewTyped
    <3> HIDE DEF pick
    <3>4. \A d \in pool : Capacity(now, d) = Capacity(full, d)
      <4> HIDE DEF pool
      <4>1. ~Unsized(now, pool)
        BY <3>2 DEF pool
      <4> QED
        BY <3>3, <4>1, SizedPool
    <3> HIDE DEF pool
    <3>5. /\ pick = Pick(full, pool, vol.select, vol.count)
          /\ Unsized(now, pool) = Unsized(full, pool)
          /\ SameSize(now, pick) = SameSize(full, pick)
          /\ Ambiguous(now, pool, pick) = Ambiguous(full, pool, pick)
      <4>1. Pick(now, pool, vol.select, vol.count) = Pick(full, pool, vol.select, vol.count)
        BY <3>4, SamePick
      <4>2. Unsized(now, pool) = Unsized(full, pool)
        BY <3>4, SameUnsized
      <4>3. SameSize(now, pick) = SameSize(full, pick) /\ Ambiguous(now, pool, pick) = Ambiguous(full, pool, pick)
        BY <3>3, <3>4, SameAmbiguity
      <4> QED
        BY <4>1, <4>2, <4>3 DEF pick, pool
    <3>6. Create(acc, vol, full) = Create(acc, vol, now)
      BY <3>5 DEF Create, pick, pool
    <3> QED
      BY <3>1, <3>6
  <2> QED
    BY <2>3, <2>4
<1> QED
  BY <1>3, <1>4, <1>5

LEMMA PlanSized ==
  ASSUME NEW now, NEW full, Partly(now, full), ~Plan(now).refused
  PROVE Plan(full) = Plan(now)
<1> DEFINE N == Len(Layout)
           S == {n \in 0..N : Planned(full)[n] = Planned(now)[n]}
<1>1. N \in Nat /\ ViewTyped(now)
  BY LayoutAssumption DEF Partly
<1>2. 0 \in S
  <2>1. NothingPlanned(full) = NothingPlanned(now)
    BY DEF NothingPlanned, Partly
  <2> QED
    BY <1>1, <2>1, Planning
<1>3. ASSUME NEW n \in S, n < N PROVE n + 1 \in S
  <2> DEFINE acc == Planned(now)[n]
  <2>1. n \in 0..N /\ n + 1 \in 1..N /\ n + 1 \in 0..N /\ (n + 1) - 1 = n /\ Planned(full)[n] = acc
    BY <1>1, <1>3
  <2>2. acc \in Decisions(now) /\ ~Planned(now)[n + 1].refused
    BY <1>1, <2>1, PlanGrows
  <2>3. Planned(now)[n + 1] = PlanOne(acc, Layout[n + 1], now) /\ Planned(full)[n + 1] = PlanOne(acc, Layout[n + 1], full)
    BY <2>1, Planning
  <2> HIDE DEF acc
  <2>4. PlanOne(acc, Layout[n + 1], full) = PlanOne(acc, Layout[n + 1], now)
    BY <2>2, <2>3, SizedOne
  <2> QED
    BY <2>1, <2>3, <2>4
<1>4. S = 0..N
  <2> HIDE DEF S
  <2>1. S \in SUBSET (0..N)
    BY DEF S
  <2> QED
    BY <1>1, <1>2, <1>3, <2>1, UpTo
<1>5. N \in S
  BY <1>1, <1>4
<1> QED
  BY <1>5 DEF Plan

(* What a pick took it takes again when there is less to take beside it. *)
LEMMA PickShrink ==
  ASSUME NEW view, ViewTyped(view), NEW pool \in SUBSET Listed(view), NEW select, NEW n \in Nat,
         NEW rest \in SUBSET pool, Pick(view, pool, select, n) \subseteq rest,
         n <= Cardinality(Pick(view, pool, select, n))
  PROVE Pick(view, rest, select, n) = Pick(view, pool, select, n)
<1> DEFINE pick == Pick(view, pool, select, n)
<1>1. ASSUME NEW d \in pick PROVE d \in Pick(view, rest, select, n)
  <2>1. d \in pool /\ Cardinality(Ahead(view, pool, select, d)) < n
    BY PickAhead
  <2>2. Ahead(view, rest, select, d) \subseteq Ahead(view, pool, select, d)
    BY DEF Ahead
  <2>3. Cardinality(Ahead(view, rest, select, d)) <= Cardinality(Ahead(view, pool, select, d))
    BY <2>2, AheadFinite, FS_Subset
  <2>4. rest \in SUBSET Listed(view)
    OBVIOUS
  <2>5. Cardinality(Ahead(view, rest, select, d)) < n
    BY <2>1, <2>3, <2>4, AheadFinite
  <2> QED
    BY <2>5, PickAhead
<1>2. ASSUME NEW d \in rest, d \notin pick PROVE d \notin Pick(view, rest, select, n)
  <2>1. pick \subseteq Ahead(view, rest, select, d)
    <3>1. ASSUME NEW e \in pick PROVE Prefers(view, select, e, d)
      <4>1. e \in pool /\ e \in Listed(view) /\ d \in Listed(view)
        BY PickWithin
      <4>2. Prefers(view, select, e, d) \/ Prefers(view, select, d, e) \/ d = e
        BY <4>1, PrefersOrder
      <4>3. ~Prefers(view, select, d, e)
        BY <1>2, PickDown
      <4> QED
        BY <1>2, <4>2, <4>3
    <3> QED
      BY <3>1 DEF Ahead
  <2>2. rest \in SUBSET Listed(view)
    OBVIOUS
  <2>3. n <= Cardinality(Ahead(view, rest, select, d))
    <3>1. IsFiniteSet(Ahead(view, rest, select, d)) /\ Cardinality(Ahead(view, rest, select, d)) \in Nat
      BY <2>2, AheadFinite
    <3>2. Cardinality(pick) \in Nat /\ Cardinality(pick) <= Cardinality(Ahead(view, rest, select, d))
      BY <2>1, <3>1, FS_Subset, FS_CardinalityType
    <3> HIDE DEF pick
    <3> QED
      BY <3>1, <3>2 DEF pick
  <2>4. ~(Cardinality(Ahead(view, rest, select, d)) < n)
    BY <2>2, <2>3, AheadFinite
  <2> QED
    BY <2>4, PickAhead
<1>3. Pick(view, rest, select, n) \subseteq rest
  BY PickWithin
<1> QED
  BY <1>1, <1>2, <1>3

-----------------------------------------------------------------------------
(* The plan after the first of its creations has been built: w is the new   *)
(* VD.  What is planned for the other entries stays.                        *)
Built(view, next, i, w) ==
  /\ ViewTyped(view)
  /\ ViewTyped(next)
  /\ next.capacity = view.capacity
  /\ next.free = view.free \ w.drives
  /\ next.vds = view.vds \union {w}
  /\ w.name = Layout[i].name
  /\ w.raid = Layout[i].raid
  /\ \A v \in view.vds : v.id # w.id

Follows(view, i, w, a, b) ==
  /\ ~a.refused
  /\ ~b.refused
  /\ b.free = a.free \ w.drives
  /\ i <= Len(a.steps) => a.free \intersect w.drives = {}
  /\ \A v \in view.vds : v.id \in a.claimed <=> v.id \in b.claimed
  /\ Len(b.steps) = Len(a.steps)
  /\ \A k \in 1..Len(a.steps) : IF k = i THEN b.steps[k].action = "keep" ELSE b.steps[k] = a.steps[k]

LEMMA OtherNamed ==
  ASSUME NEW view, NEW next, NEW i, NEW w, Built(view, next, i, w), NEW vol, vol.name # Layout[i].name
  PROVE Named(vol, next) = Named(vol, view)
  BY DEF Named, Built

LEMMA SameCandidates ==
  ASSUME NEW view, NEW next, NEW i, NEW w, Built(view, next, i, w), w.name \in SpecNames,
         NEW vol, NEW a, NEW b, Follows(view, i, w, a, b)
  PROVE Candidates(vol, next, b.claimed) = Candidates(vol, view, a.claimed)
<1>1. Listed(next) = Listed(view)
  BY DEF Built, Listed
<1>2. \A v \in next.vds : v.name \notin SpecNames => v \in view.vds
  BY DEF Built
<1>3. view.vds \subseteq next.vds /\ \A v \in view.vds : v.id \in a.claimed <=> v.id \in b.claimed
  BY DEF Built, Follows
<1> QED
  BY <1>1, <1>2, <1>3 DEF Candidates

(* What is adopted is adopted when some free drives are taken. *)
Stays(was, a, b) == was.vds # {} \/ b.free = a.free

LEMMA StillAdopted ==
  ASSUME NEW view, NEW next, NEW i, NEW w, Built(view, next, i, w), w.name \in SpecNames,
         NEW vol, vol.count \in Nat, NEW a \in Decisions(view), NEW b, Follows(view, i, w, a, b),
         NEW was, was = Adopted(vol, view, a.claimed, a.free), ~was.refused, Stays(was, a, b)
  PROVE Adopted(vol, next, b.claimed, b.free) = was
<1> DEFINE cands == Candidates(vol, view, a.claimed)
           pool == AdoptionPool(cands, a.free)
           rest == AdoptionPool(cands, b.free)
           picked == Pick(view, pool, vol.select, vol.count)
           other == Pick(next, rest, vol.select, vol.count)
           hits == {v \in cands : v.drives = picked}
           others == {v \in cands : v.drives = other}
<1>1. Candidates(vol, next, b.claimed) = cands
  BY SameCandidates
<1>2. pool \in SUBSET Listed(view) /\ rest \in SUBSET pool /\ \A v \in cands : v.drives \subseteq rest
  BY DEF AdoptionPool, Candidates, Decisions, Built, ViewTyped, Follows
<1>3. Adopted(vol, view, a.claimed, a.free) =
        [refused |-> cands # {} /\ (Unsized(view, pool) \/ (hits # {} /\ Ambiguous(view, pool, picked))), vds |-> hits]
  BY DEF Adopted
<1>4. Adopted(vol, next, b.claimed, b.free) =
        [refused |-> cands # {} /\ (Unsized(next, rest) \/ (others # {} /\ Ambiguous(next, rest, other))), vds |-> others]
  BY <1>1 DEF Adopted
<1>5. b.free = a.free => rest = pool
  OBVIOUS
<1>6. \A v \in cands : Cardinality(v.drives) = vol.count
  BY DEF Candidates
<1> HIDE DEF cands, pool, rest
<1>7. \A d \in rest : Capacity(next, d) = Capacity(view, d)
  BY DEF Built, Capacity
<1>8. other = Pick(view, rest, vol.select, vol.count)
  BY <1>7, SamePick
<1>9. other = picked
  <2>1. CASE b.free = a.free
    BY <1>5, <1>8, <2>1
  <2>2. CASE hits # {}
    <3>1. picked \subseteq rest /\ Cardinality(picked) = vol.count
      BY <1>2, <1>6, <2>2
    <3>2. ViewTyped(view) /\ vol.count \in Nat
      BY DEF Built
    <3>3. Pick(view, rest, vol.select, vol.count) = picked
      BY <1>2, <3>1, <3>2, PickShrink
    <3> QED
      BY <1>8, <3>3
  <2>3. hits # {} \/ b.free = a.free
    BY <1>3 DEF Stays
  <2> QED
    BY <2>1, <2>2, <2>3
<1>10. hits = others
  BY <1>9
<1>11. ~(cands # {} /\ (Unsized(view, pool) \/ (hits # {} /\ Ambiguous(view, pool, picked))))
  <2>1. Adopted(vol, view, a.claimed, a.free).refused =
          (cands # {} /\ (Unsized(view, pool) \/ (hits # {} /\ Ambiguous(view, pool, picked))))
    BY DEF Adopted, cands, pool
  <2> HIDE DEF hits, picked
  <2> QED
    BY <2>1
<1>12. Unsized(next, rest) => Unsized(view, pool)
  BY <1>2, <1>7 DEF Unsized
<1>13. Ambiguous(next, rest, picked) => Ambiguous(view, pool, picked)
  <2>1. picked \in SUBSET rest
    BY <1>8, <1>9, PickWithin
  <2> HIDE DEF picked
  <2>2. Ambiguous(next, rest, picked) = Ambiguous(view, rest, picked)
    BY <1>7, <2>1, SameAmbiguity
  <2> QED
    BY <1>2, <2>2 DEF Ambiguous
<1> HIDE DEF hits, others, picked, other
<1> QED
  BY <1>3, <1>4, <1>9, <1>10, <1>11, <1>12, <1>13

LEMMA KeepFollows ==
  ASSUME NEW view, NEW next, NEW i \in 1..Len(Layout), NEW w, Built(view, next, i, w),
         NEW n \in 1..Len(Layout), n # i, NEW a \in Decisions(view), NEW b \in Decisions(next),
         Follows(view, i, w, a, b), Len(a.steps) = n - 1, NEW v \in view.vds, KeepsOne(a, Layout[n], view, v)
  PROVE Follows(view, i, w, PlanOne(a, Layout[n], view), PlanOne(b, Layout[n], next))
<1> DEFINE vol == Layout[n]
           step == KeepStep(vol, v)
           more == [a EXCEPT !.claimed = @ \union {v.id}, !.steps = Append(@, step)]
           also == [b EXCEPT !.claimed = @ \union {v.id}, !.steps = Append(@, step)]
<1>1. Named(vol, next) = Named(vol, view) /\ w.name \in SpecNames /\ vol.count \in Nat
  <2>1. vol.name # Layout[i].name /\ w.name \in SpecNames /\ vol.count \in Nat
    BY EntryTyped, LayoutAssumption DEF Built
  <2> HIDE DEF vol
  <2> QED
    BY <2>1, OtherNamed
<1>2. ~b.refused
  BY DEF Follows
<1>3. PlanOne(a, vol, view) = more /\ v.raid = vol.raid
  BY DEF KeepsOne
<1>4. PlanOne(b, vol, next) = Keep(b, vol, v)
  <2>1. CASE Named(vol, view) # {} /\ v = LastVd(Named(vol, view))
    BY <1>1, <1>2, <2>1 DEF PlanOne, Named
  <2>2. CASE /\ Named(vol, view) = {}
             /\ ~Adopted(vol, view, a.claimed, a.free).refused
             /\ v \in Adopted(vol, view, a.claimed, a.free).vds
             /\ v = FirstVd(Adopted(vol, view, a.claimed, a.free).vds)
    <3>1. Adopted(vol, next, b.claimed, b.free) = Adopted(vol, view, a.claimed, a.free)
      <4> HIDE DEF vol
      <4>1. PICK was : was = Adopted(vol, view, a.claimed, a.free)
        OBVIOUS
      <4>2. ~was.refused /\ Stays(was, a, b)
        BY <2>2, <4>1 DEF Stays
      <4>3. Adopted(vol, next, b.claimed, b.free) = was
        BY <1>1, <4>1, <4>2, StillAdopted
      <4> QED
        BY <4>1, <4>3
    <3> QED
      BY <1>1, <1>2, <2>2, <3>1 DEF PlanOne, Named
  <2> QED
    BY <2>1, <2>2 DEF KeepsOne
<1>5. PlanOne(b, vol, next) = also
  BY <1>3, <1>4 DEF Keep
<1>6. a.steps \in Seq(StepRecords) /\ b.steps \in Seq(StepRecords)
  BY DEF Decisions
<1>7. /\ more.refused = a.refused /\ more.free = a.free
      /\ more.claimed = a.claimed \union {v.id} /\ more.steps = Append(a.steps, step)
      /\ also.refused = b.refused /\ also.free = b.free
      /\ also.claimed = b.claimed \union {v.id} /\ also.steps = Append(b.steps, step)
  BY DEF Decisions
<1> HIDE DEF more, also, step, vol
<1>8. Len(more.steps) = n /\ Len(also.steps) = n
  BY <1>6, <1>7 DEF Follows
<1>9. \A k \in 1..n : IF k = i THEN also.steps[k].action = "keep" ELSE also.steps[k] = more.steps[k]
  <2>1. ASSUME NEW k \in 1..n PROVE IF k = i THEN also.steps[k].action = "keep" ELSE also.steps[k] = more.steps[k]
    <3>1. CASE k = n
      BY <1>6, <1>7, <3>1 DEF Follows
    <3>2. CASE k # n
      <4>1. k \in 1..Len(a.steps) /\ k \in 1..Len(b.steps)
        BY <3>2 DEF Follows
      <4>2. more.steps[k] = a.steps[k] /\ also.steps[k] = b.steps[k]
        BY <1>6, <1>7, <4>1
      <4> QED
        BY <4>1, <4>2 DEF Follows
    <3> QED
      BY <3>1, <3>2
  <2> QED
    BY <2>1
<1>10. i <= Len(more.steps) => i <= Len(a.steps)
  BY <1>8
<1>11. Follows(view, i, w, more, also)
  BY <1>7, <1>8, <1>9, <1>10 DEF Follows
<1> QED
  BY <1>3, <1>5, <1>11 DEF vol

LEMMA CreateFollows ==
  ASSUME NEW view, NEW next, NEW i \in 1..Len(Layout), NEW w, Built(view, next, i, w),
         NEW n \in 1..Len(Layout), i < n, NEW a \in Decisions(view), NEW b \in Decisions(next),
         Follows(view, i, w, a, b), Len(a.steps) = n - 1, CreatesOne(a, Layout[n], view)
  PROVE Follows(view, i, w, PlanOne(a, Layout[n], view), PlanOne(b, Layout[n], next))
<1> DEFINE vol == Layout[n]
           pool == a.free
           pick == Pick(view, pool, vol.select, vol.count)
           step == CreateStep(vol, pick)
           more == [a EXCEPT !.free = @ \ pick, !.steps = Append(@, step)]
           also == [b EXCEPT !.free = @ \ pick, !.steps = Append(@, step)]
<1>1. a.free \intersect w.drives = {} /\ b.free = a.free /\ ~b.refused
  BY DEF Follows
<1>2. /\ Named(vol, view) = {}
      /\ ~Adopted(vol, view, a.claimed, a.free).refused
      /\ Adopted(vol, view, a.claimed, a.free).vds = {}
      /\ ~(Cardinality(pool) < vol.count)
      /\ ~Unsized(view, pool)
      /\ SameSize(view, pick)
      /\ ~Ambiguous(view, pool, pick)
      /\ PlanOne(a, vol, view) = more
  BY DEF CreatesOne
<1>3. Named(vol, next) = {} /\ Adopted(vol, next, b.claimed, b.free) = Adopted(vol, view, a.claimed, a.free)
  <2>1. vol.name # Layout[i].name /\ w.name \in SpecNames /\ vol.count \in Nat
    BY EntryTyped, LayoutAssumption DEF Built
  <2> HIDE DEF vol
  <2>2. Named(vol, next) = {}
    BY <1>2, <2>1, OtherNamed
  <2>3. PICK was : was = Adopted(vol, view, a.claimed, a.free)
    OBVIOUS
  <2>4. ~was.refused /\ Stays(was, a, b)
    BY <1>1, <1>2, <2>3 DEF Stays
  <2>5. Adopted(vol, next, b.claimed, b.free) = was
    BY <2>1, <2>3, <2>4, StillAdopted
  <2> QED
    BY <2>2, <2>3, <2>5
<1>4. PlanOne(b, vol, next) = Create(b, vol, next)
  BY <1>1, <1>2, <1>3 DEF PlanOne, Named
<1>5. pick \in SUBSET pool
  BY PickWithin
<1>6. \A d \in pool : Capacity(view, d) = Capacity(next, d)
  BY DEF Built, Capacity
<1>7. /\ pick = Pick(next, pool, vol.select, vol.count)
      /\ Unsized(view, pool) = Unsized(next, pool)
      /\ SameSize(view, pick) = SameSize(next, pick)
      /\ Ambiguous(view, pool, pick) = Ambiguous(next, pool, pick)
  <2> HIDE DEF pool
  <2>1. Pick(view, pool, vol.select, vol.count) = Pick(next, pool, vol.select, vol.count)
    BY <1>6, SamePick
  <2>2. Unsized(view, pool) = Unsized(next, pool)
    BY <1>6, SameUnsized
  <2> HIDE DEF pick
  <2>3. SameSize(view, pick) = SameSize(next, pick) /\ Ambiguous(view, pool, pick) = Ambiguous(next, pool, pick)
    BY <1>5, <1>6, SameAmbiguity
  <2> QED
    BY <2>1, <2>2, <2>3 DEF pick
<1>8. Create(b, vol, next) = also
  <2> HIDE DEF pick
  <2>1. pick = Pick(next, b.free, vol.select, vol.count)
    BY <1>1, <1>7
  <2>2. ~(\/ Cardinality(b.free) < vol.count
          \/ Unsized(next, b.free)
          \/ ~SameSize(next, pick)
          \/ Ambiguous(next, b.free, pick))
    BY <1>1, <1>2, <1>7
  <2> HIDE DEF step
  <2> QED
    BY <2>1, <2>2 DEF Create, step
<1>9. a.steps \in Seq(StepRecords) /\ b.steps \in Seq(StepRecords)
  BY DEF Decisions
<1>10. /\ more.refused = a.refused /\ more.free = a.free \ pick
       /\ more.claimed = a.claimed /\ more.steps = Append(a.steps, step)
       /\ also.refused = b.refused /\ also.free = b.free \ pick
       /\ also.claimed = b.claimed /\ also.steps = Append(b.steps, step)
  BY DEF Decisions
<1> HIDE DEF more, also, step, pick, pool, vol
<1>11. Len(more.steps) = n /\ Len(also.steps) = n
  BY <1>9, <1>10 DEF Follows
<1>12. \A k \in 1..n : IF k = i THEN also.steps[k].action = "keep" ELSE also.steps[k] = more.steps[k]
  <2>1. ASSUME NEW k \in 1..n PROVE IF k = i THEN also.steps[k].action = "keep" ELSE also.steps[k] = more.steps[k]
    <3>1. CASE k = n
      BY <1>9, <1>10, <3>1 DEF Follows
    <3>2. CASE k # n
      <4>1. k \in 1..Len(a.steps) /\ k \in 1..Len(b.steps)
        BY <3>2 DEF Follows
      <4>2. more.steps[k] = a.steps[k] /\ also.steps[k] = b.steps[k]
        BY <1>9, <1>10, <4>1
      <4> QED
        BY <4>1, <4>2 DEF Follows
    <3> QED
      BY <3>1, <3>2
  <2> QED
    BY <2>1
<1>13. Follows(view, i, w, more, also)
  BY <1>1, <1>10, <1>11, <1>12 DEF Follows
<1> QED
  BY <1>2, <1>4, <1>8, <1>13 DEF vol

LEMMA BuiltFollows ==
  ASSUME NEW view, NEW next, NEW i \in 1..Len(Layout), NEW w, Built(view, next, i, w),
         NEW a \in Decisions(view), NEW b \in Decisions(next), Follows(view, i, w, a, b), Len(a.steps) = i - 1,
         CreatesOne(a, Layout[i], view), w.drives = Pick(view, a.free, Layout[i].select, Layout[i].count)
  PROVE Follows(view, i, w, PlanOne(a, Layout[i], view), PlanOne(b, Layout[i], next))
<1> DEFINE vol == Layout[i]
           made == CreateStep(vol, w.drives)
           kept == KeepStep(vol, w)
           more == [a EXCEPT !.free = @ \ w.drives, !.steps = Append(@, made)]
           also == [b EXCEPT !.claimed = @ \union {w.id}, !.steps = Append(@, kept)]
<1>1. Named(vol, view) = {} /\ PlanOne(a, vol, view) = more
  BY DEF CreatesOne
<1>2. Named(vol, next) = {w}
  BY <1>1 DEF Named, Built
<1>3. LastVd({w}) = w
  <2>1. {w} \in SUBSET Vd /\ IsFiniteSet({w})
    BY FS_Singleton DEF Built, ViewTyped
  <2>2. LastVd({w}) \in {w}
    BY <2>1, LastOfAll
  <2> QED
    BY <2>2
<1>4. PlanOne(b, vol, next) = Keep(b, vol, w)
  BY <1>2, <1>3 DEF PlanOne, Named, Follows
<1>5. PlanOne(b, vol, next) = also
  BY <1>4 DEF Keep, Built
<1>6. a.steps \in Seq(StepRecords) /\ b.steps \in Seq(StepRecords) /\ kept.action = "keep"
  BY DEF Decisions, KeepStep
<1>7. /\ more.refused = a.refused /\ more.free = a.free \ w.drives
      /\ more.claimed = a.claimed /\ more.steps = Append(a.steps, made)
      /\ also.refused = b.refused /\ also.free = b.free
      /\ also.claimed = b.claimed \union {w.id} /\ also.steps = Append(b.steps, kept)
  BY DEF Decisions
<1> HIDE DEF more, also, made, kept, vol
<1>8. Len(more.steps) = i /\ Len(also.steps) = i
  BY <1>6, <1>7 DEF Follows
<1>9. \A k \in 1..i : IF k = i THEN also.steps[k].action = "keep" ELSE also.steps[k] = more.steps[k]
  <2>1. ASSUME NEW k \in 1..i PROVE IF k = i THEN also.steps[k].action = "keep" ELSE also.steps[k] = more.steps[k]
    <3>1. CASE k = i
      <4>1. also.steps[k] = kept
        BY <1>6, <1>7, <3>1 DEF Follows
      <4> QED
        BY <1>6, <3>1, <4>1
    <3>2. CASE k # i
      <4>1. k \in 1..Len(a.steps) /\ k \in 1..Len(b.steps)
        BY <3>2 DEF Follows
      <4>2. more.steps[k] = a.steps[k] /\ also.steps[k] = b.steps[k]
        BY <1>6, <1>7, <4>1
      <4> QED
        BY <3>2, <4>1, <4>2 DEF Follows
    <3> QED
      BY <3>1, <3>2
  <2> QED
    BY <2>1
<1>10. \A v \in view.vds : v.id \in more.claimed <=> v.id \in also.claimed
  BY <1>7 DEF Follows, Built
<1>11. Follows(view, i, w, more, also)
  BY <1>7, <1>8, <1>9, <1>10 DEF Follows
<1> QED
  BY <1>1, <1>5, <1>11 DEF vol

LEMMA AfterBuilt ==
  ASSUME NEW view, NEW next, NEW i \in Creates(Plan(view).steps), NEW w, Built(view, next, i, w),
         ~Plan(view).refused, \A j \in Creates(Plan(view).steps) : i <= j, w.drives = Plan(view).steps[i].drives
  PROVE /\ ~Plan(next).refused
        /\ Creates(Plan(next).steps) = Creates(Plan(view).steps) \ {i}
        /\ \A k \in Creates(Plan(next).steps) : Plan(next).steps[k] = Plan(view).steps[k]
<1> DEFINE N == Len(Layout)
           S == {n \in 0..N : Follows(view, i, w, Planned(view)[n], Planned(next)[n])}
<1>1. N \in Nat /\ ViewTyped(view) /\ ViewTyped(next)
  BY LayoutAssumption DEF Built
<1>2. /\ Plan(view).steps \in Seq(StepRecords)
      /\ DOMAIN Plan(view).steps = 1..N
      /\ i \in 1..N
      /\ Plan(view).steps[i].action = "create"
  BY <1>1, PlanStep DEF Creates
<1>3. 0 \in S
  <2>1. NothingPlanned(view).steps = <<>> /\ NothingPlanned(next).steps = <<>>
    BY DEF NothingPlanned
  <2>2. Follows(view, i, w, NothingPlanned(view), NothingPlanned(next))
    BY <1>2, <2>1 DEF Follows, NothingPlanned, Built
  <2> QED
    BY <1>1, <2>2, Planning
<1>4. ASSUME NEW m \in S, m < N PROVE m + 1 \in S
  <2> DEFINE n == m + 1
             a == Planned(view)[m]
             b == Planned(next)[m]
             step == Plan(view).steps[n]
  <2>1. m \in 0..N /\ n \in 1..N /\ n \in 0..N /\ n - 1 = m /\ Follows(view, i, w, a, b)
    BY <1>1, <1>4
  <2>2. a \in Decisions(view) /\ Len(a.steps) = m
    BY <1>1, <2>1, PlanGrows
  <2>3. b \in Decisions(next)
    BY <1>1, <2>1, PlannedTyped
  <2>4. Planned(view)[n] = PlanOne(a, Layout[n], view) /\ Planned(next)[n] = PlanOne(b, Layout[n], next)
    BY <2>1, Planning
  <2>5. \/ \E v \in view.vds : KeepsOne(a, Layout[n], view, v) /\ step = KeepStep(Layout[n], v)
        \/ CreatesOne(a, Layout[n], view) /\ step = CreateStep(Layout[n], Pick(view, a.free, Layout[n].select, Layout[n].count))
    BY <1>1, <2>1, PlanStep
  <2> HIDE DEF a, b, step
  <2>6. CASE \E v \in view.vds : KeepsOne(a, Layout[n], view, v) /\ step = KeepStep(Layout[n], v)
    <3>1. n # i
      <4>1. step.action = "keep"
        BY <2>6 DEF KeepStep
      <4> QED
        BY <1>2, <4>1 DEF step
    <3>2. PICK v \in view.vds : KeepsOne(a, Layout[n], view, v)
      BY <2>6
    <3> HIDE DEF n
    <3>3. Follows(view, i, w, PlanOne(a, Layout[n], view), PlanOne(b, Layout[n], next))
      BY <1>2, <2>1, <2>2, <2>3, <3>1, <3>2, KeepFollows
    <3> QED
      BY <2>1, <2>4, <3>3 DEF n
  <2>7. CASE CreatesOne(a, Layout[n], view) /\ step = CreateStep(Layout[n], Pick(view, a.free, Layout[n].select, Layout[n].count))
    <3>1. i <= n
      <4>1. step.action = "create"
        BY <2>7 DEF CreateStep
      <4>2. n \in Creates(Plan(view).steps)
        BY <1>2, <2>1, <4>1 DEF Creates, step
      <4> QED
        BY <4>2
    <3>2. n = i => w.drives = Pick(view, a.free, Layout[n].select, Layout[n].count)
      <4>1. step.drives = Pick(view, a.free, Layout[n].select, Layout[n].count)
        BY <2>7 DEF CreateStep
      <4> QED
        BY <4>1 DEF step
    <3> HIDE DEF n
    <3>3. CASE n = i
      <4>1. Follows(view, i, w, PlanOne(a, Layout[i], view), PlanOne(b, Layout[i], next))
        BY <1>2, <2>1, <2>2, <2>3, <2>7, <3>2, <3>3, BuiltFollows
      <4> QED
        BY <2>1, <2>4, <3>3, <4>1 DEF n
    <3>4. CASE n # i
      <4>1. i < n
        BY <1>2, <2>1, <3>1, <3>4
      <4>2. Follows(view, i, w, PlanOne(a, Layout[n], view), PlanOne(b, Layout[n], next))
        BY <1>2, <2>1, <2>2, <2>3, <2>7, <4>1, CreateFollows
      <4> QED
        BY <2>1, <2>4, <4>2 DEF n
    <3> QED
      BY <3>3, <3>4
  <2> QED
    BY <2>5, <2>6, <2>7
<1>5. S = 0..N
  <2> HIDE DEF S
  <2>1. S \in SUBSET (0..N)
    BY DEF S
  <2> QED
    BY <1>1, <1>3, <1>4, <2>1, UpTo
<1>6. Follows(view, i, w, Plan(view), Plan(next))
  <2>1. N \in S
    BY <1>1, <1>5
  <2> QED
    BY <2>1 DEF Plan
<1>7. ~Plan(next).refused
  BY <1>6 DEF Follows
<1>8. Plan(next).steps \in Seq(StepRecords) /\ DOMAIN Plan(next).steps = 1..N
  BY <1>1, <1>7, PlanStep
<1>9. Len(Plan(view).steps) = N
  BY <1>1, <1>2
<1>10. \A k \in 1..N : IF k = i THEN Plan(next).steps[k].action = "keep" ELSE Plan(next).steps[k] = Plan(view).steps[k]
  BY <1>6, <1>9 DEF Follows
<1> HIDE DEF N
<1>11. Creates(Plan(next).steps) = Creates(Plan(view).steps) \ {i}
  BY <1>2, <1>8, <1>10 DEF Creates
<1>12. \A k \in Creates(Plan(next).steps) : Plan(next).steps[k] = Plan(view).steps[k]
  BY <1>2, <1>8, <1>10, <1>11 DEF Creates
<1> QED
  BY <1>7, <1>11, <1>12

-----------------------------------------------------------------------------
(* One run at a time, and none reads the drives while a create request is   *)
(* outstanding, as one whose reply was lost is.                             *)
OneAtATime ==
  /\ \A r, q \in Runs : Running(r) /\ Running(q) => r = q
  /\ \A r \in Runs : At(r, "drives") => pending = {}

(* What is left of a run's plan is what one that planned now would create. *)
AsPlanned(view, run, left) ==
  /\ ~Plan(view).refused
  /\ Creates(Plan(view).steps) = left
  /\ \A i \in left : Plan(view).steps[i] = run.plan[i]

Request(step) == [name |-> step.name, raid |-> step.raid, drives |-> step.drives]

InStep(run) ==
  /\ run.at = "volumes" => /\ pending = {}
                           /\ Listed(run.view) = Drives
                           /\ run.view.free = FreeDrives(Drives)
  /\ run.at \in {"create", "check"} => pending = {} /\ AsPlanned(FullView, run, run.left)
  /\ run.at = "check" => run.left = {}
  /\ run.at = "appear" =>
       \/ /\ pending \subseteq {Request(run.plan[Earliest(run.left)])}
          /\ AsPlanned(FullView, run, run.left)
       \/ pending = {} /\ AsPlanned(FullView, run, run.left \ {Earliest(run.left)})

RerunInv ==
  /\ ~piecemeal
  /\ applied => /\ pending = {}
                /\ RerunKeeps
                /\ \A r \in Runs : job[r].at \notin {"create", "appear"}
  /\ \A r \in Runs : InStep(job[r])

LEMMA FullViewSame == UNCHANGED <<capacity, good, vds>> => FullView' = FullView
  BY DEF FullView, Readings, FreeDrives, InVd

LEMMA InStepSame ==
  ASSUME NEW run, InStep(run), UNCHANGED <<capacity, good, vds, pending>>
  PROVE InStep(run)'
<1>1. FullView' = FullView /\ FreeDrives(Drives)' = FreeDrives(Drives)
  BY FullViewSame DEF FreeDrives, InVd
<1>2. AsPlanned(FullView, run, run.left)' = AsPlanned(FullView, run, run.left)
  BY <1>1
<1>3. AsPlanned(FullView, run, run.left \ {Earliest(run.left)})' = AsPlanned(FullView, run, run.left \ {Earliest(run.left)})
  BY <1>1
<1> QED
  BY <1>1, <1>2, <1>3 DEF InStep

LEMMA RerunKeepsSame ==
  ASSUME RerunKeeps, applied, UNCHANGED <<capacity, good, vds>>
  PROVE RerunKeeps'
  BY FullViewSame DEF RerunKeeps

LEMMA OutOfStep ==
  ASSUME NEW run, run.at \notin {"volumes", "create", "appear", "check"}
  PROVE InStep(run) /\ InStep(run)'
  BY DEF InStep

LEMMA RerunFrame ==
  ASSUME StorageInv, RerunInv, UNCHANGED <<capacity, good, piecemeal, vds, pending, applied>>,
         NEW r \in Runs, NEW run, InStep(run), applied => run.at \notin {"create", "appear"},
         job' = [job EXCEPT ![r] = run]
  PROVE RerunInv'
<1>1. job \in [Runs -> RunRecords]
  BY DEF StorageInv, RunsSound
<1>2. ASSUME NEW q \in Runs
      PROVE InStep(job[q])' /\ (applied => job'[q].at \notin {"create", "appear"})
  <2>1. PICK new : new = job'[q]
    OBVIOUS
  <2>2. new = run \/ new = job[q]
    BY <1>1, <2>1
  <2>3. InStep(new) /\ (applied => new.at \notin {"create", "appear"})
    BY <2>2 DEF RerunInv
  <2>4. InStep(new)'
    BY <2>3, InStepSame
  <2> QED
    BY <2>1, <2>3, <2>4 DEF InStep
<1>3. applied' => RerunKeeps' /\ pending' = {}
  BY RerunKeepsSame DEF RerunInv
<1> QED
  BY <1>2, <1>3 DEF RerunInv

LEMMA RerunGoes ==
  ASSUME StorageInv, RerunInv, NEW r \in Runs, Start(r) \/ ControllerReady(r) \/ AppearTimeout(r) \/ RunFails(r)
  PROVE RerunInv'
<1>1. UNCHANGED <<capacity, good, piecemeal, vds, pending, applied>>
  BY DEF Start, ControllerReady, AppearTimeout, RunFails, AdapterSame
<1>2. PICK at \in {"wait", "drives", "failed"} : Goto(r, at)
  BY DEF Start, ControllerReady, AppearTimeout, RunFails
<1>3. PICK run : run = [job[r] EXCEPT !.at = at]
  OBVIOUS
<1>4. job' = [job EXCEPT ![r] = run] /\ run.at = at
  BY <1>2, <1>3 DEF Goto, StorageInv, RunsSound, RunRecords
<1>5. InStep(run)
  BY <1>4, OutOfStep
<1> QED
  BY <1>1, <1>4, <1>5, RerunFrame

LEMMA RerunReads ==
  ASSUME StorageInv, RerunInv, OneAtATime, NEW r \in Runs, ReadDrives(r)
  PROVE RerunInv'
<1>1. PICK view \in DriveReadings : job' = [job EXCEPT ![r].at = "volumes", ![r].view = view]
  BY DEF ReadDrives
<1>2. UNCHANGED <<capacity, good, piecemeal, vds, pending, applied>> /\ pending = {}
  BY DEF ReadDrives, AdapterSame, OneAtATime
<1>3. \E sized \in SUBSET Drives : view = Readings(Drives, sized)
  BY ApplyAssumption DEF DriveReadings, RerunInv
<1>4. Listed(view) = Drives /\ view.free = FreeDrives(Drives)
  BY <1>3 DEF Listed, Readings
<1>5. PICK run : run = [job[r] EXCEPT !.at = "volumes", !.view = view]
  OBVIOUS
<1>6. job[r] \in RunRecords /\ job' = [job EXCEPT ![r] = run]
  BY <1>1, <1>5 DEF StorageInv, RunsSound
<1>7. run.at = "volumes" /\ run.view = view
  BY <1>5, <1>6 DEF RunRecords
<1>8. InStep(run)
  BY <1>2, <1>4, <1>7 DEF InStep
<1> QED
  BY <1>2, <1>6, <1>7, <1>8, RerunFrame

LEMMA RerunPlans ==
  ASSUME StorageInv, RerunInv, NEW r \in Runs, ReadVolumes(r)
  PROVE RerunInv'
<1>1. UNCHANGED <<capacity, good, piecemeal, vds, pending, applied>>
  BY DEF ReadVolumes, AdapterSame
<1>2. /\ VdsTyped
      /\ job[r] \in RunRecords
      /\ RunSound(job[r])
      /\ InStep(job[r])
      /\ job[r].at = "volumes"
      /\ ~piecemeal
  BY DEF StorageInv, RunsSound, RerunInv, ReadVolumes, At
<1>3. job[r].view \in ViewRecords /\ ReadSoundly(job[r].view) /\ vds \in VdReadings
  BY <1>2 DEF RunRecords, RunSound, VdReadings
<1> DEFINE view == [job[r].view EXCEPT !.vds = vds]
           plan == Plan(view)
           todo == Creates(plan.steps)
           failed == [Idle EXCEPT !.at = "failed"]
<1>4. PICK run : run = [at |-> Then(todo), view |-> NoView, plan |-> plan.steps, left |-> todo,
                        boot |-> plan.steps[1].id]
  OBVIOUS
<1>5. job' = [job EXCEPT ![r] = IF plan.refused THEN failed ELSE run]
  BY <1>2, <1>4 DEF ReadVolumes, VdReadings
<1>6. /\ ReadSoundly(view)
      /\ view.vds = vds
      /\ Listed(view) = Drives
      /\ view.free = FreeDrives(Drives)
      /\ pending = {}
  BY <1>2, <1>3, SeenSound DEF InStep
<1>7. CASE plan.refused
  <2>1. InStep(failed) /\ failed.at = "failed"
    BY OutOfStep DEF Idle
  <2> HIDE DEF failed, plan
  <2>2. job' = [job EXCEPT ![r] = failed]
    BY <1>5, <1>7
  <2> QED
    BY <1>1, <2>1, <2>2, RerunFrame
<1>8. CASE ~plan.refused
  <2> HIDE DEF view
  <2>1. Partly(view, FullView)
    <3>1. ReadSoundly(FullView) /\ FullView.vds = vds /\ FullView.free = FreeDrives(Drives)
          /\ FullView.capacity = capacity /\ Listed(FullView) = Drives
      BY FullViewSound
    <3> QED
      BY <1>6, <3>1 DEF Partly, ReadSoundly
  <2>2. Plan(FullView) = plan
    BY <1>8, <2>1, PlanSized
  <2>3. run.left = todo /\ run.plan = plan.steps /\ run.at = Then(todo)
    BY <1>4
  <2>4. AsPlanned(FullView, run, run.left)
    BY <1>8, <2>2, <2>3 DEF AsPlanned
  <2>5. applied => todo = {}
    BY <2>2 DEF RerunInv, RerunKeeps
  <2> HIDE DEF plan, todo
  <2>6. InStep(run)
    BY <1>6, <2>3, <2>4 DEF InStep, Then
  <2>7. job' = [job EXCEPT ![r] = run]
    BY <1>5, <1>8
  <2>8. applied => run.at \notin {"create", "appear"}
    BY <2>3, <2>5 DEF Then
  <2> QED
    BY <1>1, <2>6, <2>7, <2>8, RerunFrame
<1> QED
  BY <1>7, <1>8


LEMMA RerunRequests ==
  ASSUME StorageInv, RerunInv, OneAtATime, NEW r \in Runs, RequestVolume(r)
  PROVE RerunInv'
<1>1. UNCHANGED <<capacity, good, piecemeal, vds, applied>>
  BY DEF RequestVolume
<1>2. /\ job \in [Runs -> RunRecords]
      /\ job[r] \in RunRecords
      /\ InStep(job[r])
      /\ job[r].at = "create"
      /\ ~applied
  BY DEF StorageInv, RunsSound, RerunInv, RequestVolume, At
<1>3. pending = {} /\ AsPlanned(FullView, job[r], job[r].left)
  BY <1>2 DEF InStep
<1>4. PICK at \in {"failed", "appear"} : Goto(r, at) /\ (at = "appear" => pending' = pending \union {Request(StepOf(r))})
  BY DEF RequestVolume, Request
<1>5. PICK run : run = [job[r] EXCEPT !.at = at]
  OBVIOUS
<1>6. job' = [job EXCEPT ![r] = run] /\ run.at = at /\ run.left = job[r].left /\ run.plan = job[r].plan
  BY <1>2, <1>4, <1>5 DEF Goto, RunRecords
<1>7. InStep(run)'
  <2>1. CASE at = "failed"
    BY <1>6, <2>1, OutOfStep
  <2>2. CASE at = "appear"
    <3>1. pending' \subseteq {Request(run.plan[Earliest(run.left)])}
      BY <1>3, <1>4, <1>6, <2>2 DEF StepOf
    <3>2. AsPlanned(FullView, run, run.left)
      BY <1>3, <1>6 DEF AsPlanned
    <3>3. AsPlanned(FullView', run, run.left)
      BY <1>1, <3>2, FullViewSame
    <3> QED
      BY <1>6, <2>2, <3>1, <3>3 DEF InStep
  <2> QED
    BY <2>1, <2>2
<1>8. ASSUME NEW q \in Runs PROVE InStep(job[q])'
  <2>1. PICK new : new = job'[q]
    OBVIOUS
  <2>2. CASE q = r
    BY <1>2, <1>6, <1>7, <2>2 DEF InStep
  <2>3. CASE q # r
    <3>1. new = job[q]
      BY <1>2, <1>6, <2>1, <2>3
    <3>2. job[q].at \notin Steps
      BY <1>2, <2>3 DEF OneAtATime, Running, Steps
    <3>3. InStep(new)'
      BY <3>1, <3>2, OutOfStep DEF Steps
    <3> QED
      BY <2>1, <3>3 DEF InStep
  <2> QED
    BY <2>2, <2>3
<1>9. ~piecemeal' /\ ~applied'
  BY <1>1, <1>2 DEF RerunInv
<1> QED
  BY <1>8, <1>9 DEF RerunInv

LEMMA RerunAppears ==
  ASSUME StorageInv, RerunInv, NEW r \in Runs, Appeared(r)
  PROVE RerunInv'
<1>1. UNCHANGED <<capacity, good, piecemeal, vds, pending, applied>>
  BY DEF Appeared, AdapterSame
<1>2. /\ job[r] \in RunRecords
      /\ RunSound(job[r])
      /\ InStep(job[r])
      /\ job[r].at = "appear"
      /\ ~applied
  BY DEF StorageInv, RunsSound, RerunInv, Appeared, At
<1> DEFINE i == Earliest(job[r].left)
<1>3. i \in job[r].left
  <2>1. job[r].left \in SUBSET Nat /\ job[r].left # {}
    BY <1>2 DEF RunRecords, RunSound
  <2> QED
    BY <2>1, EarliestIn
<1>4. PICK v \in vds : v.name = StepOf(r).name
  BY DEF Appeared, VdReadings, RerunInv
<1> HIDE DEF i
<1>5. ~AsPlanned(FullView, job[r], job[r].left)
  <2> SUFFICES ASSUME AsPlanned(FullView, job[r], job[r].left) PROVE FALSE
    OBVIOUS
  <2>1. ViewTyped(FullView) /\ FullView.vds = vds
    BY FullViewSound DEF ReadSoundly
  <2>2. i \in Creates(Plan(FullView).steps) /\ Plan(FullView).steps[i] = job[r].plan[i] /\ ~Plan(FullView).refused
    BY <1>3 DEF AsPlanned
  <2>3. Plan(FullView).steps[i].name = Layout[i].name /\ Named(Layout[i], FullView) = {}
    BY <2>1, <2>2, CreatesSound
  <2>4. v.name = Layout[i].name
    BY <1>4, <2>2, <2>3 DEF StepOf, i
  <2> QED
    BY <2>1, <2>3, <2>4 DEF Named
<1>6. pending = {} /\ AsPlanned(FullView, job[r], Rest(r))
  BY <1>2, <1>5 DEF InStep, Rest, i
<1>7. PICK boot : job' = [job EXCEPT ![r].at = Then(Rest(r)), ![r].left = Rest(r), ![r].boot = boot]
  <2>1. \E boot : job' = [job EXCEPT ![r].at = Then(Rest(r)), ![r].left = Rest(r), ![r].boot = boot]
    BY DEF Appeared
  <2> QED
    BY <2>1
<1>8. PICK run : run = [job[r] EXCEPT !.at = Then(Rest(r)), !.left = Rest(r), !.boot = boot]
  OBVIOUS
<1>9. job' = [job EXCEPT ![r] = run] /\ run.at = Then(Rest(r)) /\ run.left = Rest(r) /\ run.plan = job[r].plan
  BY <1>2, <1>7, <1>8 DEF RunRecords, StorageInv, RunsSound
<1>10. InStep(run)
  BY <1>6, <1>9 DEF InStep, AsPlanned, Then
<1> QED
  BY <1>1, <1>2, <1>9, <1>10, RerunFrame

LEMMA RerunChecks ==
  ASSUME StorageInv, RerunInv, OneAtATime, NEW r \in Runs, CheckBoot(r)
  PROVE RerunInv'
<1>1. UNCHANGED <<capacity, good, piecemeal, vds, pending>>
  BY DEF CheckBoot, AdapterSame
<1>2. PICK at \in {"boots", "refused"} : Goto(r, at)
  BY DEF CheckBoot
<1>3. /\ job \in [Runs -> RunRecords]
      /\ InStep(job[r])
      /\ job[r].at = "check"
  BY DEF StorageInv, RunsSound, RerunInv, CheckBoot, At
<1>4. pending = {} /\ ~Plan(FullView).refused /\ Creates(Plan(FullView).steps) = {}
  BY <1>3 DEF InStep, AsPlanned
<1>5. RerunKeeps' /\ pending' = {}
  BY <1>1, <1>4, FullViewSame DEF RerunKeeps
<1>6. ASSUME NEW q \in Runs PROVE job'[q].at \notin Steps
  <2>1. CASE q = r
    BY <1>2, <1>3, <2>1 DEF Goto, RunRecords, Steps
  <2>2. CASE q # r
    BY <1>2, <1>3, <2>2 DEF Goto, OneAtATime, Running, Steps
  <2> QED
    BY <2>1, <2>2
<1>7. ASSUME NEW q \in Runs PROVE InStep(job[q])'
  BY <1>6 DEF InStep, Steps
<1>8. ~piecemeal'
  BY <1>1 DEF RerunInv
<1> QED
  BY <1>5, <1>6, <1>7, <1>8 DEF RerunInv, Steps

(* The adapter's listing when a VD has been built. *)
LEMMA FullViewThen ==
  ASSUME capacity \in [Drives -> Nat \ {0}], UNCHANGED capacity
  PROVE /\ FullView'.capacity = capacity
        /\ FullView'.free = FreeDrives(Drives)'
        /\ FullView'.vds = vds'
<1> DEFINE caps == [d \in Drives |-> IF d \in Drives THEN capacity[d] ELSE 0]
<1>1. caps = capacity
  OBVIOUS
<1>2. FullView' = [[capacity |-> caps, free |-> FreeDrives(Drives)', vds |-> {}] EXCEPT !.vds = vds']
  BY DEF FullView, Readings
<1> HIDE DEF caps
<1> QED
  BY <1>1, <1>2

LEMMA BuiltView ==
  ASSUME StorageInv, VdsTyped', UNCHANGED <<capacity, good>>, NEW i, NEW w, vds' = vds \union {w},
         w.name = Layout[i].name, w.raid = Layout[i].raid, \A v \in vds : v.id # w.id
  PROVE Built(FullView, FullView', i, w)
<1>1. capacity \in [Drives -> Nat \ {0}]
  BY DEF StorageInv, AdapterTyped
<1>2. /\ ViewTyped(FullView)
      /\ FullView.vds = vds
      /\ FullView.free = FreeDrives(Drives)
      /\ FullView.capacity = capacity
      /\ Listed(FullView) = Drives
  BY FullViewSound DEF ReadSoundly
<1> DEFINE next == FullView'
<1>3. next.capacity = capacity /\ next.free = FreeDrives(Drives)' /\ next.vds = vds'
  BY <1>1, FullViewThen
<1>4. FreeDrives(Drives)' = FreeDrives(Drives) \ w.drives
  BY DEF FreeDrives, InVd
<1> HIDE DEF next
<1>5. Listed(next) = Drives
  BY <1>1, <1>3 DEF Listed
<1>6. ViewTyped(next)
  BY <1>1, <1>3, <1>4, <1>5 DEF ViewTyped, VdsTyped, FreeDrives
<1>7. Built(FullView, next, i, w)
  BY <1>2, <1>3, <1>4, <1>6 DEF Built
<1> QED
  BY <1>7 DEF next

LEMMA RerunCompletes ==
  ASSUME StorageInv, StorageInv', RerunInv, OneAtATime, NEW q \in pending, CompleteRequest(q)
  PROVE RerunInv'
<1>1. UNCHANGED <<capacity, good, piecemeal, applied, job>> /\ pending' = pending \ {q}
  BY DEF CompleteRequest
<1>2. ~applied
  BY DEF RerunInv
<1>3. ASSUME NEW r \in Runs PROVE InStep(job[r])'
  <2>1. PICK run : run = job[r]
    OBVIOUS
  <2>2. InStep(run) /\ run \in RunRecords /\ RunSound(run)
    BY <2>1 DEF RerunInv, StorageInv, RunsSound
  <2> DEFINE i == Earliest(run.left)
  <2>3. CASE run.at # "appear"
    <3>1. run.at \notin {"volumes", "create", "check"}
      BY <2>2 DEF InStep
    <3>2. InStep(run)'
      BY <2>3, <3>1, OutOfStep
    <3> QED
      BY <1>1, <2>1, <3>2 DEF InStep
  <2>4. CASE run.at = "appear"
    <3>1. pending \subseteq {Request(run.plan[i])} /\ AsPlanned(FullView, run, run.left)
      BY <2>2, <2>4 DEF InStep
    <3>2. i \in run.left /\ \A j \in run.left : i <= j
      <4>1. run.left \in SUBSET Nat /\ run.left # {}
        BY <2>2, <2>4 DEF RunRecords, RunSound
      <4> QED
        BY <4>1, EarliestIn
    <3>3. q = Request(run.plan[i]) /\ pending' = {}
      BY <1>1, <3>1
    <3> HIDE DEF i
    <3>4. CASE UNCHANGED vds
      <4>1. AsPlanned(FullView', run, run.left)
        BY <1>1, <3>1, <3>4, FullViewSame
      <4>2. InStep(run)'
        BY <2>4, <3>3, <4>1 DEF InStep
      <4> QED
        BY <1>1, <2>1, <4>2 DEF InStep
    <3>5. CASE ~UNCHANGED vds
      <4> DEFINE w == [id |-> LowestTarget, name |-> q.name, raid |-> q.raid, drives |-> q.drives]
      <4>1. vds' = vds \union {w}
        BY <3>5 DEF CompleteRequest
      <4>2. w.id = LowestTarget /\ w.name = q.name /\ w.raid = q.raid /\ w.drives = q.drives
        OBVIOUS
      <4> HIDE DEF w
      <4>3. \A v \in vds : v.id # w.id
        BY <4>2, TargetFree DEF StorageInv, VdsTyped
      <4>4. /\ ~Plan(FullView).refused
            /\ Creates(Plan(FullView).steps) = run.left
            /\ \A j \in run.left : Plan(FullView).steps[j] = run.plan[j]
        BY <3>1 DEF AsPlanned
      <4>5. ViewTyped(FullView)
        BY FullViewSound DEF ReadSoundly
      <4>6. Plan(FullView).steps[i].name = Layout[i].name /\ Plan(FullView).steps[i].raid = Layout[i].raid
        BY <3>2, <4>4, <4>5, CreatesSound
      <4>7. /\ w.name = Layout[i].name
            /\ w.raid = Layout[i].raid
            /\ w.drives = Plan(FullView).steps[i].drives
        BY <3>2, <3>3, <4>2, <4>4, <4>6 DEF Request
      <4>8. Built(FullView, FullView', i, w)
        BY <1>1, <4>1, <4>3, <4>7, BuiltView DEF StorageInv
      <4>9. /\ ~Plan(FullView').refused
            /\ Creates(Plan(FullView').steps) = run.left \ {i}
            /\ \A k \in run.left \ {i} : Plan(FullView').steps[k] = Plan(FullView).steps[k]
        <5>1. PICK one, two : one = FullView /\ two = FullView'
          OBVIOUS
        <5>2. /\ i \in Creates(Plan(one).steps)
              /\ ~Plan(one).refused
              /\ \A j \in Creates(Plan(one).steps) : i <= j
              /\ w.drives = Plan(one).steps[i].drives
              /\ Built(one, two, i, w)
          BY <3>2, <4>4, <4>7, <4>8, <5>1
        <5>3. /\ ~Plan(two).refused
              /\ Creates(Plan(two).steps) = Creates(Plan(one).steps) \ {i}
              /\ \A k \in Creates(Plan(two).steps) : Plan(two).steps[k] = Plan(one).steps[k]
          BY <5>2, AfterBuilt
        <5> QED
          BY <4>4, <5>1, <5>3
      <4>10. AsPlanned(FullView', run, run.left \ {i})
        BY <4>4, <4>9 DEF AsPlanned
      <4>11. InStep(run)'
        BY <2>4, <3>3, <4>10 DEF InStep, i
      <4> QED
        BY <1>1, <2>1, <4>11 DEF InStep
    <3> QED
      BY <3>4, <3>5
  <2> QED
    BY <2>3, <2>4
<1> QED
  BY <1>1, <1>2, <1>3 DEF RerunInv

LEMMA RerunStep ==
  ASSUME StorageInv, StorageInv', RerunInv, OneAtATime, [Next]_vars
  PROVE RerunInv'
<1>1. CASE Settle \/ UNCHANGED vars
  <2>1. UNCHANGED <<capacity, good, piecemeal, vds, pending, job, applied>>
    BY <1>1 DEF Settle, vars
  <2>2. ASSUME NEW r \in Runs PROVE InStep(job[r])'
    <3>1. PICK run : run = job[r]
      OBVIOUS
    <3>2. InStep(run)'
      BY <2>1, <3>1, InStepSame DEF RerunInv
    <3> QED
      BY <2>1, <3>1, <3>2 DEF InStep
  <2>3. applied' => RerunKeeps'
    BY <2>1, RerunKeepsSame DEF RerunInv
  <2> QED
    BY <2>1, <2>2, <2>3 DEF RerunInv
<1>2. ASSUME NEW v \in vds, DeleteByHand(v) PROVE RerunInv'
  <2>1. ASSUME NEW r \in Runs PROVE InStep(job[r])'
    BY <1>2 DEF InStep, DeleteByHand, Running, Steps
  <2> QED
    BY <1>2, <2>1 DEF RerunInv, DeleteByHand
<1> QED
  BY <1>1, <1>2, RerunGoes, RerunReads, RerunPlans, RerunRequests, RerunAppears, RerunChecks, RerunCompletes DEF Next

LEMMA RerunInit ==
  ASSUME Whole, Init
  PROVE RerunInv
<1>1. ASSUME NEW r \in Runs PROVE InStep(job[r])
  BY OutOfStep DEF Init, Idle
<1> QED
  BY <1>1 DEF Whole, Init, RerunInv

(* After a run that got through, another one has nothing to create, on any  *)
(* adapter that lists all it has, when runs neither overlap nor start       *)
(* beside a request that is outstanding: whichever of them failed or died,  *)
(* on whatever drives and layout, and whatever was built by hand.           *)
THEOREM RerunKeepsHolds ==
  ASSUME Whole
  PROVE Spec /\ []OneAtATime => []RerunKeeps
<1>1. Init => RerunInv
  BY RerunInit
<1>2. StorageInv /\ StorageInv' /\ RerunInv /\ OneAtATime /\ [Next]_vars => RerunInv'
  BY RerunStep
<1>3. RerunInv => RerunKeeps
  BY DEF RerunInv, RerunKeeps
<1> QED
  BY <1>1, <1>2, <1>3, StorageInvHolds, PTL DEF Spec

-----------------------------------------------------------------------------
(* The roles on a new unit: an adapter that lists all it has and starts     *)
(* without VDs, and a layout of two entries, boot on the smallest drives    *)
(* and data on the largest.  Every run then picks the same drives, from     *)
(* whatever is free when it reads.                                          *)
NewUnits == \A a \in Adapters : ~a.piecemeal /\ a.vds = {}

TwoRoles ==
  /\ Len(Layout) = 2
  /\ Layout[1].select = "smallest"
  /\ Layout[2].select = "largest"

Sizes == [capacity |-> capacity]
BootDrives == Pick(Sizes, good, "smallest", Layout[1].count)
DataDrives == Pick(Sizes, good, "largest", Layout[2].count)
RoleOf(name) == IF name = Layout[1].name THEN BootDrives ELSE DataDrives

(* There are enough drives of each, and no drive ties with those of boot.   *)
Clear ==
  /\ Layout[1].count <= Cardinality(BootDrives)
  /\ Layout[2].count <= Cardinality(DataDrives)
  /\ DataDrives \subseteq good \ BootDrives
  /\ \A d \in BootDrives, e \in good \ BootDrives : capacity[d] < capacity[e]

(* Free, but for the drives of some of the VDs. *)
FreeBut(free) == \E gone \in SUBSET vds : free = good \ UNION {v.drives : v \in gone}

InRole(run) ==
  /\ run.at = "volumes" => Listed(run.view) = Drives /\ FreeBut(run.view.free)
  /\ run.left # {} => Clear
  /\ \A i \in run.left : run.plan[i].name = Layout[i].name /\ run.plan[i].drives = RoleOf(Layout[i].name)

VdsInRole ==
  /\ vds # {} => Clear
  /\ \A v \in vds : v.name \in SpecNames /\ v.drives = RoleOf(v.name)

RolesInv ==
  /\ ~piecemeal
  /\ VdsInRole
  /\ pending # {} => Clear
  /\ \A q \in pending : q.drives = RoleOf(q.name)
  /\ \A r \in Runs : InRole(job[r])

(* A pick from as many drives or more has as many. *)
LEMMA PickEnough ==
  ASSUME NEW view, ViewTyped(view), NEW pool \in SUBSET Listed(view), NEW select, NEW n \in Nat,
         n <= Cardinality(pool)
  PROVE n <= Cardinality(Pick(view, pool, select, n))
<1> DEFINE pick == Pick(view, pool, select, n)
           ahead(d) == Ahead(view, pool, select, d)
           T == {Cardinality(ahead(d)) : d \in pool \ pick}
<1>1. CASE pool = pick
  BY <1>1
<1>2. CASE pool # pick
  <2>1. T \in SUBSET Nat /\ T # {}
    BY <1>2, AheadFinite, PickWithin
  <2>2. PICK d \in pool \ pick : \A e \in pool \ pick : Cardinality(ahead(d)) <= Cardinality(ahead(e))
    <3>1. PICK x \in T : \A y \in T : x <= y
      <4> HIDE DEF T
      <4> QED
        BY <2>1, Least
    <3> QED
      BY <3>1
  <2>3. ASSUME NEW e \in ahead(d) PROVE e \in pick
    <3>1. e \in pool /\ e \in Listed(view) /\ d \in Listed(view) /\ Prefers(view, select, e, d)
      BY <2>3 DEF Ahead
    <3>2. SUFFICES ASSUME e \notin pick PROVE FALSE
      OBVIOUS
    <3>3. ahead(e) \subseteq ahead(d) /\ e \notin ahead(e)
      BY <3>1, PrefersOrder DEF Ahead
    <3>4. IsFiniteSet(ahead(d)) /\ IsFiniteSet(ahead(e))
          /\ Cardinality(ahead(d)) \in Nat /\ Cardinality(ahead(e)) \in Nat
      BY AheadFinite
    <3>5. Cardinality(ahead(e)) <= Cardinality(ahead(d)) /\ ahead(e) # ahead(d)
      BY <2>3, <3>3, <3>4, FS_Subset
    <3> HIDE DEF ahead
    <3>6. Cardinality(ahead(e)) # Cardinality(ahead(d))
      BY <3>3, <3>4, <3>5, FS_Subset
    <3> QED
      BY <2>2, <3>1, <3>2, <3>4, <3>5, <3>6
  <2>4. ahead(d) \subseteq pick /\ pick \in SUBSET Listed(view)
    BY <2>3, PickWithin
  <2>5. ~(Cardinality(ahead(d)) < n)
    BY <2>2, PickAhead
  <2>6. IsFiniteSet(pick)
    BY <2>4, ListedFinite
  <2> HIDE DEF pick, ahead
  <2>7. Cardinality(ahead(d)) <= Cardinality(pick) /\ Cardinality(pick) \in Nat
    BY <2>4, <2>6, FS_Subset, FS_CardinalityType
  <2>8. Cardinality(ahead(d)) \in Nat
    BY AheadFinite DEF ahead
  <2> QED
    BY <2>5, <2>7, <2>8 DEF pick
<1> QED
  BY <1>1, <1>2

(* The drives as a run reads them once all have their capacities. *)
Sized(free) == [capacity |-> capacity, free |-> free, vds |-> vds]

LEMMA SizedSound ==
  ASSUME StorageInv, NEW free \in SUBSET good
  PROVE /\ ViewTyped(Sized(free))
        /\ Listed(Sized(free)) = Drives
        /\ Sized(free).free = free
        /\ Sized(free).vds = vds
        /\ Sized(free).capacity = capacity
        /\ \A d \in Drives : Capacity(Sized(free), d) = capacity[d]
        /\ \A pool \in SUBSET Drives : \A select, n :
             Pick(Sized(free), pool, select, n) = Pick(Sizes, pool, select, n)
<1>1. capacity \in [Drives -> Nat \ {0}] /\ good \subseteq Drives /\ vds \subseteq Vd /\ IsFiniteSet(vds)
  BY DEF StorageInv, AdapterTyped, VdsTyped
<1>2. Sized(free).free = free /\ Sized(free).vds = vds /\ Sized(free).capacity = capacity
  BY DEF Sized
<1>3. Listed(Sized(free)) = Drives
  BY <1>1, <1>2 DEF Listed
<1>4. ViewTyped(Sized(free))
  BY <1>1, <1>2, <1>3 DEF ViewTyped
<1>5. \A d \in Drives : Capacity(Sized(free), d) = capacity[d] /\ Capacity(Sizes, d) = capacity[d]
  BY <1>2 DEF Capacity, Sizes
<1>6. ASSUME NEW pool \in SUBSET Drives, NEW select, NEW n
      PROVE Pick(Sized(free), pool, select, n) = Pick(Sizes, pool, select, n)
  BY <1>5, SamePick
<1> QED
  BY <1>2, <1>3, <1>4, <1>5, <1>6

(* Two creations on an adapter without VDs take the drives of the roles.   *)
LEMMA ClearFirst ==
  ASSUME StorageInv, TwoRoles, NEW view, view = Sized(good), NEW acc0, NEW acc1,
         CreatesOne(acc0, Layout[1], view), acc0.free = good,
         CreatesOne(acc1, Layout[2], view), acc1.free = good \ BootDrives
  PROVE Clear /\ Pick(view, good \ BootDrives, "largest", Layout[2].count) = DataDrives
<1> DEFINE n == Layout[1].count
           m == Layout[2].count
           rest == good \ BootDrives
<1>1. /\ ViewTyped(view)
      /\ Listed(view) = Drives
      /\ \A d \in Drives : Capacity(view, d) = capacity[d]
      /\ \A pool \in SUBSET Drives : \A select, k : Pick(view, pool, select, k) = Pick(Sizes, pool, select, k)
  BY SizedSound
<1>2. n \in Nat \ {0} /\ m \in Nat \ {0}
  BY EntryTyped DEF TwoRoles
<1>3. good \in SUBSET Drives /\ good \in SUBSET Listed(view) /\ rest \in SUBSET Listed(view) /\ capacity \in [Drives -> Nat \ {0}]
  BY <1>1 DEF StorageInv, AdapterTyped
<1>4. BootDrives = Pick(view, good, "smallest", n) /\ DataDrives = Pick(view, good, "largest", m)
  BY <1>1, <1>3 DEF BootDrives, DataDrives
<1>5. BootDrives \subseteq good /\ DataDrives \subseteq good
  BY <1>4, PickWithin
<1>6. /\ ~(Cardinality(good) < n)
      /\ SameSize(view, BootDrives)
      /\ ~Ambiguous(view, good, BootDrives)
      /\ ~(Cardinality(rest) < m)
  BY <1>4 DEF CreatesOne, TwoRoles
<1> HIDE DEF n, m
<1>7. IsFiniteSet(good) /\ IsFiniteSet(rest) /\ IsFiniteSet(BootDrives)
  BY <1>1, <1>3, <1>5, ListedFinite, FS_Subset
<1>8. Cardinality(good) \in Nat /\ Cardinality(rest) \in Nat /\ Cardinality(rest) <= Cardinality(good)
  BY <1>7, FS_Subset, FS_CardinalityType
<1>9. n <= Cardinality(good) /\ m <= Cardinality(good) /\ m <= Cardinality(rest)
  BY <1>2, <1>6, <1>8
<1>10. n <= Cardinality(BootDrives) /\ m <= Cardinality(DataDrives)
  BY <1>1, <1>2, <1>3, <1>4, <1>9, PickEnough
<1>11. ASSUME NEW d \in BootDrives, NEW e \in rest PROVE capacity[d] < capacity[e]
  <2>1. d \in Drives /\ e \in Drives /\ d \in good /\ e \in good
    BY <1>3, <1>5
  <2>2. Capacity(view, d) <= Capacity(view, e)
    BY <1>1, <1>2, <1>3, <1>4, <1>11, PickBest
  <2>3. Capacity(view, d) # Capacity(view, e)
    <3>1. e \in good \ BootDrives
      BY <1>11
    <3> QED
      BY <1>6, <1>11, <3>1 DEF Ambiguous
  <2>4. capacity[d] \in Nat /\ capacity[e] \in Nat
    BY <1>3, <2>1
  <2> QED
    BY <1>1, <2>1, <2>2, <2>3, <2>4
<1>12. ASSUME NEW d \in BootDrives PROVE d \notin DataDrives
  <2>1. rest \subseteq Ahead(view, good, "largest", d)
    <3>1. ASSUME NEW e \in rest PROVE Prefers(view, "largest", e, d)
      <4>1. d \in Drives /\ e \in Drives /\ capacity[d] < capacity[e]
        BY <1>3, <1>5, <1>11
      <4>2. Capacity(view, d) < Capacity(view, e)
        BY <1>1, <4>1
      <4> QED
        BY <4>2 DEF Prefers, Before
    <3> QED
      BY <3>1 DEF Ahead
  <2>2. Cardinality(rest) <= Cardinality(Ahead(view, good, "largest", d))
    BY <1>1, <1>3, <2>1, AheadFinite, FS_Subset
  <2>3. Cardinality(Ahead(view, good, "largest", d)) \in Nat
    BY <1>1, <1>3, AheadFinite
  <2>4. ~(Cardinality(Ahead(view, good, "largest", d)) < m)
    BY <1>2, <1>8, <1>9, <2>2, <2>3
  <2> QED
    BY <1>4, <2>4, PickAhead
<1>13. DataDrives \subseteq rest
  BY <1>5, <1>12
<1>14. Clear
  BY <1>10, <1>11, <1>13 DEF Clear, n, m
<1>15. Pick(view, rest, "largest", m) = DataDrives
  <2>1. rest \in SUBSET good /\ Pick(view, good, "largest", m) \subseteq rest
    BY <1>4, <1>13
  <2>2. m <= Cardinality(Pick(view, good, "largest", m))
    BY <1>4, <1>10
  <2>3. Pick(view, rest, "largest", m) = Pick(view, good, "largest", m)
    BY <1>1, <1>2, <1>3, <2>1, <2>2, PickShrink
  <2> QED
    BY <1>4, <2>3
<1> QED
  BY <1>14, <1>15 DEF m

(* What is picked while some drives of the other role are in VDs.          *)
LEMMA ClearPick ==
  ASSUME StorageInv, TwoRoles, Clear, NEW free \in SUBSET good, NEW pool \in SUBSET good
  PROVE /\ BootDrives \subseteq pool => Pick(Sized(free), pool, "smallest", Layout[1].count) = BootDrives
        /\ DataDrives \subseteq pool => Pick(Sized(free), pool, "largest", Layout[2].count) = DataDrives
<1> DEFINE view == Sized(free)
<1>1. /\ ViewTyped(view)
      /\ Listed(view) = Drives
      /\ \A p \in SUBSET Drives : \A select, k : Pick(view, p, select, k) = Pick(Sizes, p, select, k)
  BY SizedSound
<1>2. Layout[1].count \in Nat /\ Layout[2].count \in Nat
  BY EntryTyped DEF TwoRoles
<1>3. good \in SUBSET Drives
  BY DEF StorageInv, AdapterTyped
<1>4. /\ BootDrives = Pick(view, good, "smallest", Layout[1].count)
      /\ DataDrives = Pick(view, good, "largest", Layout[2].count)
  BY <1>1, <1>3 DEF BootDrives, DataDrives
<1> HIDE DEF view
<1>5. Layout[1].count <= Cardinality(BootDrives) /\ Layout[2].count <= Cardinality(DataDrives)
  BY DEF Clear
<1>6. good \in SUBSET Listed(view) /\ pool \in SUBSET good
  BY <1>1, <1>3
<1>7. ASSUME BootDrives \subseteq pool PROVE Pick(view, pool, "smallest", Layout[1].count) = BootDrives
  BY <1>1, <1>2, <1>4, <1>5, <1>6, <1>7, PickShrink
<1>8. ASSUME DataDrives \subseteq pool PROVE Pick(view, pool, "largest", Layout[2].count) = DataDrives
  BY <1>1, <1>2, <1>4, <1>5, <1>6, <1>8, PickShrink
<1> QED
  BY <1>7, <1>8 DEF view

(* What a run that sees all capacities creates, on an adapter whose VDs are *)
(* those of the roles, and from drives that are free but for some of them.  *)
LEMMA FullRoles ==
  ASSUME StorageInv, TwoRoles, VdsInRole, NEW free \in SUBSET good, FreeBut(free), NEW view, view = Sized(free),
         ~Plan(view).refused, NEW i \in Creates(Plan(view).steps)
  PROVE /\ Clear
        /\ Plan(view).steps[i].name = Layout[i].name
        /\ Plan(view).steps[i].drives = RoleOf(Layout[i].name)
<1> DEFINE acc0 == Planned(view)[0]
           acc1 == Planned(view)[1]
           steps == Plan(view).steps
           pick(acc, n) == Pick(view, acc.free, Layout[n].select, Layout[n].count)
           creates(acc, n) == CreatesOne(acc, Layout[n], view) /\ steps[n] = CreateStep(Layout[n], pick(acc, n))
           keeps(acc, n) == \E v \in vds : KeepsOne(acc, Layout[n], view, v) /\ steps[n] = KeepStep(Layout[n], v)
<1>1. Len(Layout) = 2 /\ 1 \in 1..Len(Layout) /\ 2 \in 1..Len(Layout) /\ 1 - 1 = 0 /\ 2 - 1 = 1
  BY DEF TwoRoles
<1>2. ViewTyped(view) /\ Listed(view) = Drives /\ view.free = free /\ view.vds = vds
      /\ \A pool \in SUBSET Drives : \A select, n : Pick(view, pool, select, n) = Pick(Sizes, pool, select, n)
  BY SizedSound
<1>3. /\ acc0 = NothingPlanned(view)
      /\ acc1 = PlanOne(acc0, Layout[1], view)
  BY <1>1, Planning
<1>4. /\ DOMAIN steps = 1..2
      /\ acc0 \in Decisions(view) /\ (keeps(acc0, 1) \/ creates(acc0, 1))
      /\ acc1 \in Decisions(view) /\ (keeps(acc1, 2) \/ creates(acc1, 2))
  BY <1>1, <1>2, PlanStep
<1> HIDE DEF acc0, acc1
<1>5. acc0.free = free
  BY <1>2, <1>3 DEF NothingPlanned
<1>6. acc1.free = free \/ (creates(acc0, 1) /\ acc1.free = free \ pick(acc0, 1))
  <2>1. keeps(acc0, 1) => acc1.free = acc0.free
    BY <1>3, <1>4 DEF KeepsOne, Decisions
  <2>2. creates(acc0, 1) => acc1.free = acc0.free \ pick(acc0, 1)
    BY <1>3, <1>4 DEF CreatesOne, Decisions
  <2> HIDE DEF keeps, creates, pick
  <2> QED
    BY <1>4, <1>5, <2>1, <2>2
<1>7. \A acc, n : creates(acc, n) => steps[n].name = Layout[n].name /\ steps[n].drives = pick(acc, n)
                                     /\ \A v \in vds : v.name # Layout[n].name
  BY <1>2 DEF CreateStep, CreatesOne, Named
<1>8. \A acc, n : keeps(acc, n) => steps[n].action # "create" /\ vds # {}
  BY DEF KeepStep
<1>9. (i = 1 /\ creates(acc0, 1)) \/ (i = 2 /\ creates(acc1, 2))
  <2>1. i \in 1..2 /\ steps[i].action = "create"
    BY <1>4 DEF Creates
  <2> HIDE DEF keeps, creates, steps
  <2> QED
    BY <1>4, <1>8, <2>1
<1>10. Layout[1].name # Layout[2].name /\ SpecNames = {Layout[1].name, Layout[2].name}
  <2>1. DOMAIN Layout = 1..2
    BY <1>1, LayoutAssumption
  <2>2. Layout[1].name # Layout[2].name
    BY <2>1, LayoutAssumption
  <2> QED
    BY <2>1, <2>2 DEF SpecNames
<1>11. RoleOf(Layout[1].name) = BootDrives /\ RoleOf(Layout[2].name) = DataDrives
  BY <1>10 DEF RoleOf
<1>12. Layout[1].select = "smallest" /\ Layout[2].select = "largest" /\ free \in SUBSET good /\ good \in SUBSET Drives
  BY DEF TwoRoles, StorageInv, AdapterTyped
<1>13. BootDrives \subseteq good /\ DataDrives \subseteq good
  BY PickWithin DEF BootDrives, DataDrives
<1>14. PICK gone \in SUBSET vds : free = good \ UNION {v.drives : v \in gone}
  BY DEF FreeBut
<1>15. CASE vds = {}
  <2>1. creates(acc0, 1) /\ creates(acc1, 2)
    <3> HIDE DEF keeps, creates, steps
    <3> QED
      BY <1>4, <1>8, <1>15
  <2>2. free = good
    BY <1>14, <1>15
  <2>3. pick(acc0, 1) = BootDrives
    BY <1>2, <1>5, <1>12, <2>2 DEF BootDrives
  <2>4. acc1.free = good \ BootDrives
    <3>1. acc1.free = acc0.free \ pick(acc0, 1)
      BY <1>3, <1>4, <2>1 DEF CreatesOne, Decisions
    <3> QED
      BY <1>5, <2>2, <2>3, <3>1
  <2>5. Clear /\ Pick(view, good \ BootDrives, "largest", Layout[2].count) = DataDrives
    BY <1>5, <2>1, <2>2, <2>4, ClearFirst
  <2>6. pick(acc1, 2) = DataDrives
    BY <1>12, <2>4, <2>5
  <2> HIDE DEF pick, creates, steps
  <2> QED
    BY <1>7, <1>9, <1>11, <2>1, <2>3, <2>5, <2>6 DEF steps
<1>16. CASE vds # {}
  <2>1. Clear
    BY <1>16 DEF VdsInRole
  <2>2. DataDrives \subseteq good \ BootDrives
    BY <2>1 DEF Clear
  <2>3. \A v \in vds : /\ v.name # Layout[1].name => v.drives = DataDrives
                       /\ v.name # Layout[2].name => v.drives = BootDrives
    BY <1>10 DEF VdsInRole, RoleOf
  <2>4. ASSUME creates(acc0, 1) PROVE pick(acc0, 1) = BootDrives
    <3>1. \A v \in gone : v.drives = DataDrives
      BY <1>7, <2>3, <2>4
    <3>2. BootDrives \subseteq free
      BY <1>13, <1>14, <2>2, <3>1
    <3> QED
      BY <1>5, <1>12, <2>1, <3>2, ClearPick
  <2>5. ASSUME creates(acc1, 2) PROVE pick(acc1, 2) = DataDrives
    <3>1. \A v \in gone : v.drives = BootDrives
      BY <1>7, <2>3, <2>5
    <3>2. DataDrives \subseteq free
      BY <1>13, <1>14, <2>2, <3>1
    <3>3. DataDrives \subseteq acc1.free /\ acc1.free \in SUBSET good
      <4> HIDE DEF pick, creates
      <4> QED
        BY <1>6, <1>12, <2>2, <2>4, <3>2
    <3> QED
      BY <1>12, <2>1, <3>3, ClearPick
  <2> HIDE DEF pick, creates, steps
  <2> QED
    BY <1>7, <1>9, <1>11, <2>1, <2>4, <2>5 DEF steps
<1> QED
  BY <1>15, <1>16

(* The same of a run that was not told some of the capacities. *)
LEMMA PlanRoles ==
  ASSUME StorageInv, TwoRoles, VdsInRole, NEW view, ReadSoundly(view), view.vds = vds, Listed(view) = Drives,
         FreeBut(view.free), ~Plan(view).refused, NEW i \in Creates(Plan(view).steps)
  PROVE /\ Clear
        /\ Plan(view).steps[i].name = Layout[i].name
        /\ Plan(view).steps[i].drives = RoleOf(Layout[i].name)
<1>1. PICK full : full = Sized(view.free)
  OBVIOUS
<1>2. view.free \in SUBSET good /\ ViewTyped(view)
  BY DEF ReadSoundly
<1>3. ViewTyped(full) /\ Listed(full) = Drives /\ full.free = view.free /\ full.vds = vds /\ full.capacity = capacity
  BY <1>1, <1>2, SizedSound
<1>4. Partly(view, full)
  BY <1>2, <1>3 DEF Partly, ReadSoundly
<1>5. Plan(full) = Plan(view)
  BY <1>4, PlanSized
<1> QED
  BY <1>1, <1>2, <1>5, FullRoles

(* Clear and the roles are of what never changes. *)
LEMMA RolesSame ==
  ASSUME UNCHANGED <<capacity, good>>
  PROVE Clear' = Clear /\ \A name : RoleOf(name)' = RoleOf(name)
<1>1. BootDrives' = BootDrives /\ DataDrives' = DataDrives
  BY DEF BootDrives, DataDrives, Sizes
<1> QED
  BY <1>1 DEF Clear, RoleOf

LEMMA InRoleStays ==
  ASSUME NEW run, InRole(run), UNCHANGED <<capacity, good>>, run.at = "volumes" => vds \subseteq vds'
  PROVE InRole(run)'
<1>1. Clear' = Clear /\ \A name : RoleOf(name)' = RoleOf(name)
  BY RolesSame
<1>2. run.at = "volumes" => FreeBut(run.view.free)'
  BY DEF InRole, FreeBut
<1> QED
  BY <1>1, <1>2 DEF InRole

LEMMA RolesFrame ==
  ASSUME StorageInv, RolesInv, UNCHANGED <<capacity, good, piecemeal, vds, pending>>, NEW r \in Runs, NEW run,
         InRole(run), job' = [job EXCEPT ![r] = run]
  PROVE RolesInv'
<1>1. job \in [Runs -> RunRecords]
  BY DEF StorageInv, RunsSound
<1>2. ASSUME NEW q \in Runs PROVE InRole(job[q])'
  <2>1. PICK new : new = job'[q]
    OBVIOUS
  <2>2. new = run \/ new = job[q]
    BY <1>1, <2>1
  <2>3. InRole(new)
    BY <2>2 DEF RolesInv
  <2>4. InRole(new)'
    BY <2>3, InRoleStays
  <2> QED
    BY <2>1, <2>4 DEF InRole
<1>3. Clear' = Clear /\ \A name : RoleOf(name)' = RoleOf(name)
  BY RolesSame
<1>4. VdsInRole' /\ (pending' # {} => Clear') /\ \A q \in pending' : q.drives = RoleOf(q.name)'
  BY <1>3 DEF RolesInv, VdsInRole
<1> QED
  BY <1>2, <1>4 DEF RolesInv

LEMMA RolesGoes ==
  ASSUME StorageInv, RolesInv, NEW r \in Runs,
         Start(r) \/ ControllerReady(r) \/ AppearTimeout(r) \/ CheckBoot(r) \/ RunFails(r)
  PROVE RolesInv'
<1>1. UNCHANGED <<capacity, good, piecemeal, vds, pending>>
  BY DEF Start, ControllerReady, AppearTimeout, CheckBoot, RunFails, AdapterSame
<1>2. PICK at \in {"wait", "drives", "failed", "boots", "refused"} : Goto(r, at)
  BY DEF Start, ControllerReady, AppearTimeout, CheckBoot, RunFails
<1>3. PICK run : run = [job[r] EXCEPT !.at = at]
  OBVIOUS
<1>4. /\ job' = [job EXCEPT ![r] = run]
      /\ run.at = at
      /\ run.left = job[r].left
      /\ run.plan = job[r].plan
      /\ InRole(job[r])
  BY <1>2, <1>3 DEF Goto, StorageInv, RunsSound, RunRecords, RolesInv
<1>5. InRole(run)
  BY <1>4 DEF InRole
<1> QED
  BY <1>1, <1>4, <1>5, RolesFrame

LEMMA RolesReads ==
  ASSUME StorageInv, RolesInv, NEW r \in Runs, ReadDrives(r)
  PROVE RolesInv'
<1>1. PICK view \in DriveReadings : job' = [job EXCEPT ![r].at = "volumes", ![r].view = view]
  BY DEF ReadDrives
<1>2. UNCHANGED <<capacity, good, piecemeal, vds, pending>>
  BY DEF ReadDrives, AdapterSame
<1>3. \E sized \in SUBSET Drives : view = Readings(Drives, sized)
  BY ApplyAssumption DEF DriveReadings, RolesInv
<1>4. Listed(view) = Drives /\ view.free = FreeDrives(Drives)
  BY <1>3 DEF Listed, Readings
<1>5. FreeBut(FreeDrives(Drives))
  <2>1. FreeDrives(Drives) = good \ UNION {v.drives : v \in vds}
    BY DEF FreeDrives, InVd, StorageInv, AdapterTyped
  <2> QED
    BY <2>1 DEF FreeBut
<1>6. PICK run : run = [job[r] EXCEPT !.at = "volumes", !.view = view]
  OBVIOUS
<1>7. job[r] \in RunRecords /\ InRole(job[r]) /\ job' = [job EXCEPT ![r] = run]
  BY <1>1, <1>6 DEF StorageInv, RunsSound, RolesInv
<1>8. run.at = "volumes" /\ run.view = view /\ run.left = job[r].left /\ run.plan = job[r].plan
  BY <1>6, <1>7 DEF RunRecords
<1>9. InRole(run)
  BY <1>4, <1>5, <1>7, <1>8 DEF InRole
<1> QED
  BY <1>2, <1>7, <1>9, RolesFrame

LEMMA RolesPlans ==
  ASSUME TwoRoles, StorageInv, RolesInv, NEW r \in Runs, ReadVolumes(r)
  PROVE RolesInv'
<1>1. UNCHANGED <<capacity, good, piecemeal, vds, pending>>
  BY DEF ReadVolumes, AdapterSame
<1>2. /\ VdsTyped
      /\ job[r] \in RunRecords
      /\ RunSound(job[r])
      /\ InRole(job[r])
      /\ job[r].at = "volumes"
      /\ ~piecemeal
      /\ VdsInRole
  BY DEF StorageInv, RunsSound, RolesInv, ReadVolumes, At
<1>3. job[r].view \in ViewRecords /\ ReadSoundly(job[r].view) /\ vds \in VdReadings
  BY <1>2 DEF RunRecords, RunSound, VdReadings
<1> DEFINE view == [job[r].view EXCEPT !.vds = vds]
           plan == Plan(view)
           todo == Creates(plan.steps)
           failed == [Idle EXCEPT !.at = "failed"]
<1>4. PICK run : run = [at |-> Then(todo), view |-> NoView, plan |-> plan.steps, left |-> todo,
                        boot |-> plan.steps[1].id]
  OBVIOUS
<1>5. job' = [job EXCEPT ![r] = IF plan.refused THEN failed ELSE run]
  BY <1>2, <1>4 DEF ReadVolumes, VdReadings
<1>6. ReadSoundly(view) /\ view.vds = vds /\ Listed(view) = Drives /\ FreeBut(view.free)
  BY <1>2, <1>3, SeenSound DEF InRole
<1>7. CASE plan.refused
  <2>1. InRole(failed)
    BY DEF InRole, Idle
  <2> HIDE DEF failed, plan
  <2>2. job' = [job EXCEPT ![r] = failed]
    BY <1>5, <1>7
  <2> QED
    BY <1>1, <2>1, <2>2, RolesFrame
<1>8. CASE ~plan.refused
  <2>1. run.left = todo /\ run.plan = plan.steps /\ run.at = Then(todo)
    BY <1>4
  <2> HIDE DEF view
  <2>2. ASSUME NEW i \in todo
        PROVE Clear /\ plan.steps[i].name = Layout[i].name /\ plan.steps[i].drives = RoleOf(Layout[i].name)
    BY <1>2, <1>6, <1>8, PlanRoles
  <2> HIDE DEF plan, todo
  <2>3. InRole(run)
    BY <2>1, <2>2 DEF InRole, Then
  <2>4. job' = [job EXCEPT ![r] = run]
    BY <1>5, <1>8
  <2> QED
    BY <1>1, <2>3, <2>4, RolesFrame
<1> QED
  BY <1>7, <1>8

LEMMA RolesRequests ==
  ASSUME StorageInv, RolesInv, NEW r \in Runs, RequestVolume(r)
  PROVE RolesInv'
<1>1. UNCHANGED <<capacity, good, piecemeal, vds>>
  BY DEF RequestVolume
<1>2. /\ job \in [Runs -> RunRecords]
      /\ job[r] \in RunRecords
      /\ RunSound(job[r])
      /\ InRole(job[r])
      /\ job[r].at = "create"
  BY DEF StorageInv, RunsSound, RolesInv, RequestVolume, At
<1> DEFINE step == StepOf(r)
           q == [name |-> step.name, raid |-> step.raid, drives |-> step.drives]
<1>3. Clear /\ step.drives = RoleOf(step.name)
  <2>1. job[r].left \in SUBSET Nat /\ job[r].left # {}
    BY <1>2 DEF RunRecords, RunSound
  <2>2. Earliest(job[r].left) \in job[r].left
    BY <2>1, EarliestIn
  <2> QED
    BY <1>2, <2>2 DEF StepOf, InRole
<1>4. PICK at \in {"failed", "appear"} : Goto(r, at)
  BY DEF RequestVolume
<1>5. UNCHANGED pending \/ pending' = pending \union {q}
  BY DEF RequestVolume
<1>6. q.drives = RoleOf(q.name)
  BY <1>3
<1> HIDE DEF q
<1>7. \A p \in pending' : p.drives = RoleOf(p.name)
  BY <1>5, <1>6 DEF RolesInv
<1>8. Clear' /\ \A name : RoleOf(name)' = RoleOf(name)
  BY <1>1, <1>3, RolesSame
<1>9. ASSUME NEW p \in Runs PROVE InRole(job[p])'
  <2>1. PICK new : new = job'[p]
    OBVIOUS
  <2>2. (new.at = job[p].at \/ new.at # "volumes") /\ new.view = job[p].view /\ new.left = job[p].left /\ new.plan = job[p].plan
    BY <1>2, <1>4, <2>1 DEF Goto, RunRecords
  <2>3. InRole(new)
    BY <2>2 DEF RolesInv, InRole
  <2>4. InRole(new)'
    BY <1>1, <2>3, InRoleStays
  <2> QED
    BY <2>1, <2>4 DEF InRole
<1>10. VdsInRole' /\ ~piecemeal'
  BY <1>1, <1>3, <1>8 DEF RolesInv, VdsInRole
<1> QED
  BY <1>7, <1>8, <1>9, <1>10 DEF RolesInv

LEMMA RolesAppears ==
  ASSUME StorageInv, RolesInv, NEW r \in Runs, Appeared(r)
  PROVE RolesInv'
<1>1. UNCHANGED <<capacity, good, piecemeal, vds, pending>>
  BY DEF Appeared, AdapterSame
<1>2. \E boot : job' = [job EXCEPT ![r].at = Then(Rest(r)), ![r].left = Rest(r), ![r].boot = boot]
  BY DEF Appeared
<1>3. PICK boot : job' = [job EXCEPT ![r].at = Then(Rest(r)), ![r].left = Rest(r), ![r].boot = boot]
  BY <1>2
<1>4. PICK run : run = [job[r] EXCEPT !.at = Then(Rest(r)), !.left = Rest(r), !.boot = boot]
  OBVIOUS
<1>5. job[r] \in RunRecords /\ InRole(job[r]) /\ job' = [job EXCEPT ![r] = run]
  BY <1>3, <1>4 DEF StorageInv, RunsSound, RolesInv
<1>6. run.at = Then(Rest(r)) /\ run.left = Rest(r) /\ run.plan = job[r].plan
  BY <1>4, <1>5 DEF RunRecords
<1>7. run.left \subseteq job[r].left /\ run.at # "volumes"
  BY <1>6 DEF Rest, Then
<1>8. InRole(run)
  BY <1>5, <1>6, <1>7 DEF InRole
<1> QED
  BY <1>1, <1>5, <1>8, RolesFrame

(* The adapter's own steps, and a VD's deletion between runs. *)
LEMMA RolesJobFrame ==
  ASSUME RolesInv, UNCHANGED <<capacity, good, piecemeal, job>>, pending' \subseteq pending, VdsInRole',
         \A r \in Runs : At(r, "volumes") => vds \subseteq vds'
  PROVE RolesInv'
<1>1. ASSUME NEW r \in Runs PROVE InRole(job[r])'
  <2>1. PICK run : run = job[r]
    OBVIOUS
  <2>2. InRole(run)'
    BY <2>1, InRoleStays DEF RolesInv, At
  <2> QED
    BY <2>1, <2>2 DEF InRole
<1>2. Clear' = Clear /\ \A name : RoleOf(name)' = RoleOf(name)
  BY RolesSame
<1> QED
  BY <1>1, <1>2 DEF RolesInv

LEMMA RolesCompletes ==
  ASSUME StorageInv, RolesInv, NEW q \in pending, CompleteRequest(q)
  PROVE RolesInv'
<1>1. UNCHANGED <<capacity, good, piecemeal, job>> /\ pending' \subseteq pending
  BY DEF CompleteRequest
<1>2. q.name \in SpecNames /\ q.drives = RoleOf(q.name) /\ Clear
  BY DEF StorageInv, PendingTyped, RolesInv
<1>3. Clear' = Clear /\ \A name : RoleOf(name)' = RoleOf(name)
  BY <1>1, RolesSame
<1> DEFINE w == [id |-> LowestTarget, name |-> q.name, raid |-> q.raid, drives |-> q.drives]
<1>4. UNCHANGED vds \/ vds' = vds \union {w}
  BY DEF CompleteRequest
<1>5. w.name = q.name /\ w.drives = q.drives
  OBVIOUS
<1> HIDE DEF w
<1>6. VdsInRole' /\ vds \subseteq vds'
  BY <1>2, <1>3, <1>4, <1>5 DEF RolesInv, VdsInRole
<1> QED
  BY <1>1, <1>6, RolesJobFrame

LEMMA RolesStep ==
  ASSUME TwoRoles, StorageInv, RolesInv, [Next]_vars
  PROVE RolesInv'
<1>1. CASE Settle \/ UNCHANGED vars
  <2>1. UNCHANGED <<capacity, good, piecemeal, vds, pending, job>>
    BY <1>1 DEF Settle, vars
  <2>2. VdsInRole'
    BY <2>1, RolesSame DEF RolesInv, VdsInRole
  <2> QED
    BY <2>1, <2>2, RolesJobFrame
<1>2. ASSUME NEW v \in vds, DeleteByHand(v) PROVE RolesInv'
  <2>1. UNCHANGED <<capacity, good, piecemeal, job, pending>> /\ vds' = vds \ {v}
    BY <1>2 DEF DeleteByHand
  <2>2. VdsInRole'
    BY <2>1, RolesSame DEF RolesInv, VdsInRole
  <2>3. \A r \in Runs : ~At(r, "volumes")
    BY <1>2 DEF DeleteByHand, Running, At, Steps
  <2> QED
    BY <2>1, <2>2, <2>3, RolesJobFrame
<1> QED
  BY <1>1, <1>2, RolesGoes, RolesReads, RolesPlans, RolesRequests, RolesAppears, RolesCompletes DEF Next

LEMMA RolesInit ==
  ASSUME NewUnits, Init
  PROVE RolesInv
<1>1. ~piecemeal /\ vds = {} /\ pending = {}
  BY DEF NewUnits, Init
<1>2. InRole(Idle)
  BY DEF InRole, Idle
<1> QED
  BY <1>1, <1>2 DEF Init, RolesInv, VdsInRole

(* On a new unit the entries of a layout of two, boot on the smallest       *)
(* drives and data on the largest, never swap sizes: whatever drives the    *)
(* unit has, whichever runs overlap, fail, die or act on a request that     *)
(* comes true late, and whichever of the VDs are deleted between runs.      *)
THEOREM RolesApartHolds ==
  ASSUME NewUnits, TwoRoles
  PROVE Spec => []RolesApart
<1>1. Init => RolesInv
  BY RolesInit
<1>2. StorageInv /\ RolesInv /\ [Next]_vars => RolesInv'
  BY RolesStep
<1>3. StorageInv /\ RolesInv => RolesApart
  <2> SUFFICES ASSUME StorageInv, RolesInv, NEW v \in vds, NEW w \in vds,
                      v.name = Layout[1].name, w.name # v.name,
                      NEW d \in v.drives, NEW e \in w.drives
               PROVE capacity[d] < capacity[e]
    BY DEF RolesApart
  <2>1. Clear /\ v.drives = BootDrives /\ w.drives = DataDrives
    BY DEF RolesInv, VdsInRole, RoleOf
  <2> QED
    BY <2>1 DEF Clear
<1> QED
  BY <1>1, <1>2, <1>3, StorageInvHolds, PTL DEF Spec

=============================================================================
