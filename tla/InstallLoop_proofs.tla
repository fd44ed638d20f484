--------------------------- MODULE InstallLoop_proofs ---------------------------
(***************************************************************************)
(* The key store, for any set of threads and machines and any bound on the *)
(* keys: what one-time means survives every interleaving of issue_key,     *)
(* peek_key and consume_key, restarts and unreadable files, and the store  *)
(* implements OneTimeKeys.                                                 *)
(*                                                                         *)
(* The install loop for any machines, threads, attempts and faults: the    *)
(* handlers and the machines use the key store as KeyStore has it, so that *)
(* what is proved of the store holds in the loop; a key is spent only      *)
(* after its step's effect; a Device names only what exists; the operator  *)
(* alone opens the gate of an installed disk, and a disk that was written  *)
(* closes it;                                                              *)
(* and a script that has completed left its node's token in the store.     *)
(***************************************************************************)
EXTENDS InstallLoop, TLAPS

(* The lock, the file and the copies keep their types on every step.       *)
LEMMA KeyTypeStep == KeyTypeOK /\ [KeyNext]_keyVars => KeyTypeOK'
<1> SUFFICES ASSUME KeyTypeOK, [KeyNext]_keyVars PROVE KeyTypeOK'
  OBVIOUS
<1> USE KeyStoreAssumption DEF KeyTypeOK, Entry, Keys, Unexpired
<1>1. ASSUME NEW t \in Threads, LoadKeys(t) PROVE KeyTypeOK'
  <2>1. PICK entries \in {store} \union (IF ReadFaults THEN {{}} ELSE {}) :
          loaded' = [loaded EXCEPT ![t] = entries]
    BY <1>1 DEF LoadKeys
  <2>2. entries \in SUBSET Entry
    BY <2>1
  <2> QED
    BY <1>1, <2>1, <2>2 DEF LoadKeys
<1>2. ASSUME NEW t \in Threads, LeaveSection(t) PROVE KeyTypeOK'
  BY <1>2 DEF LeaveSection
<1>3. ASSUME NEW t \in Threads, NEW s \in Serials, NEW p \in Purposes, SaveIssued(t, s, p)
      PROVE KeyTypeOK'
  <2>1. issued + 1 \in 1..MaxKeys
    BY <1>3 DEF SaveIssued
  <2>2. [key |-> issued + 1, serial |-> s, purpose |-> p] \in Entry
    BY <2>1
  <2>3. store' \in SUBSET Entry
    BY <1>3, <2>2 DEF SaveIssued
  <2> QED
    BY <1>3, <2>1, <2>3 DEF SaveIssued
<1>4. ASSUME NEW t \in Threads, NEW s \in Serials, NEW p \in Purposes, NEW k \in Keys,
             SaveConsumed(t, k, s, p)
      PROVE KeyTypeOK'
  BY <1>4 DEF SaveConsumed
<1>5. ASSUME NEW k \in Keys, Elapse(k) PROVE KeyTypeOK'
  BY <1>5 DEF Elapse
<1>6. CASE KeyRestart
  BY <1>6 DEF KeyRestart
<1>7. CASE UNCHANGED keyVars
  BY <1>7 DEF keyVars
<1> QED
  BY <1>1, <1>2, <1>3, <1>4, <1>5, <1>6, <1>7 DEF KeyNext

LEMMA KeyTypeInit == KeyInit => KeyTypeOK
BY KeyStoreAssumption DEF KeyInit, KeyTypeOK, Keys

(* KeyTypeOK is an invariant of the store.                                 *)
THEOREM KeyTypeCorrect == KeySpec => []KeyTypeOK
<1>1. QED
  BY KeyTypeInit, KeyTypeStep, PTL DEF KeySpec

-----------------------------------------------------------------------------
(* What the lock is for: one step of the store keeps every conjunct of     *)
(* KeyIInv, because the copy that a section publishes is never ahead of    *)
(* the file it replaces.                                                   *)
LEMMA KeyIInvStep == KeyIInv /\ [KeyNext]_keyVars => KeyIInv'
<1> SUFFICES ASSUME KeyIInv, [KeyNext]_keyVars PROVE KeyIInv'
  OBVIOUS
<1> USE DEF KeyIInv, SpentNeverReturns, SectionReadsStore, EntriesMinted, Held
<1>t. KeyTypeOK /\ KeyTypeOK'
  BY KeyTypeStep
<1> USE <1>t, KeyStoreAssumption DEF KeyTypeOK, Entry, Keys, Unexpired
<1>1. ASSUME NEW t \in Threads, LoadKeys(t) PROVE KeyIInv'
  <2>1. loaded'[t] \subseteq store'
    BY <1>1 DEF LoadKeys
  <2>2. SectionReadsStore'
    BY <1>1, <2>1 DEF LoadKeys
  <2> QED
    BY <1>1, <2>2 DEF LoadKeys
<1>2. ASSUME NEW t \in Threads, LeaveSection(t) PROVE KeyIInv'
  BY <1>2 DEF LeaveSection
<1>3. ASSUME NEW t \in Threads, NEW s \in Serials, NEW p \in Purposes, SaveIssued(t, s, p)
      PROVE KeyIInv'
  <2> DEFINE new == [key |-> issued + 1, serial |-> s, purpose |-> p]
  <2>1. store' \subseteq store \union {new}
    BY <1>3 DEF SaveIssued
  <2>2. new.key = issued + 1 /\ \A k \in spent : k # issued + 1
    BY <1>3
  <2>3. SpentNeverReturns'
    BY <1>3, <2>1, <2>2 DEF SaveIssued
  <2>4. EntriesMinted'
    <3>1. issued' = issued + 1 /\ spent' = spent /\ elapsed' = elapsed
      BY <1>3 DEF SaveIssued
    <3>2. \A e \in store' : e.key <= issued'
      BY <2>1, <2>2, <3>1
    <3> QED
      BY <3>1, <3>2
  <2>5. SectionReadsStore'
    BY <1>3 DEF SaveIssued
  <2> QED
    BY <2>3, <2>4, <2>5
<1>4. ASSUME NEW t \in Threads, NEW s \in Serials, NEW p \in Purposes, NEW k \in Keys,
             SaveConsumed(t, k, s, p)
      PROVE KeyIInv'
  <2>1. store' \subseteq {e \in store : e.key # k}
    BY <1>4 DEF SaveConsumed
  <2>2. k <= issued
    <3>1. [key |-> k, serial |-> s, purpose |-> p] \in store
      BY <1>4 DEF SaveConsumed, Valid
    <3> QED
      BY <3>1
  <2>3. SpentNeverReturns'
    BY <1>4, <2>1 DEF SaveConsumed
  <2>4. EntriesMinted'
    BY <1>4, <2>1, <2>2 DEF SaveConsumed
  <2>5. SectionReadsStore'
    BY <1>4 DEF SaveConsumed
  <2> QED
    BY <2>3, <2>4, <2>5
<1>5. ASSUME NEW k \in Keys, Elapse(k) PROVE KeyIInv'
  BY <1>5 DEF Elapse
<1>6. CASE KeyRestart
  BY <1>6 DEF KeyRestart
<1>7. CASE UNCHANGED keyVars
  BY <1>7 DEF keyVars
<1> QED
  BY <1>1, <1>2, <1>3, <1>4, <1>5, <1>6, <1>7 DEF KeyNext

LEMMA KeyIInvInit == KeyInit => KeyIInv
BY KeyTypeInit, KeyStoreAssumption
   DEF KeyInit, KeyIInv, SpentNeverReturns, SectionReadsStore, EntriesMinted, Held

(* The inductive invariant holds in every reachable state.                 *)
THEOREM KeysSafe == KeySpec => []KeyIInv
<1>1. QED
  BY KeyIInvInit, KeyIInvStep, PTL DEF KeySpec

(* A consumed key never again validates: SpentNeverReturns holds always.   *)
THEOREM SpentStaysSpent == KeySpec => []SpentNeverReturns
<1>1. KeyIInv => SpentNeverReturns
  BY DEF KeyIInv
<1>2. QED
  BY <1>1, KeysSafe, PTL

-----------------------------------------------------------------------------
(* With a readable file, a section under the lock has read the file as it  *)
(* is, so its write drops nothing but the key it consumes and what is past *)
(* its TTL.                                                                *)
LEMMA KeyLossStep == KeyLossInv /\ [KeyNext]_keyVars => KeyLossInv'
<1> SUFFICES ASSUME KeyLossInv, [KeyNext]_keyVars PROVE KeyLossInv'
  OBVIOUS
<1>i. KeyIInv /\ KeyIInv'
  BY KeyIInvStep DEF KeyLossInv
<1> SUFFICES ASSUME ~ReadFaults PROVE NoKeyLost' /\ SectionIsStore'
  BY <1>i DEF KeyLossInv
<1>l. NoKeyLost /\ SectionIsStore
  BY DEF KeyLossInv
<1>t. KeyTypeOK /\ KeyTypeOK'
  BY <1>i DEF KeyIInv
<1> USE <1>l, <1>t, KeyStoreAssumption
    DEF KeyTypeOK, Entry, Keys, Unexpired, NoKeyLost, SectionIsStore, Held
<1>1. ASSUME NEW t \in Threads, LoadKeys(t) PROVE NoKeyLost' /\ SectionIsStore'
  <2>1. loaded' = [loaded EXCEPT ![t] = store]
    BY <1>1 DEF LoadKeys
  <2> QED
    BY <1>1, <2>1 DEF LoadKeys
<1>2. ASSUME NEW t \in Threads, LeaveSection(t) PROVE NoKeyLost' /\ SectionIsStore'
  BY <1>2 DEF LeaveSection
<1>3. ASSUME NEW t \in Threads, NEW s \in Serials, NEW p \in Purposes, SaveIssued(t, s, p)
      PROVE NoKeyLost' /\ SectionIsStore'
  <2> DEFINE new == [key |-> issued + 1, serial |-> s, purpose |-> p]
  <2>0. new.key = issued + 1
    OBVIOUS
  <2>1. store' = {e \in store \union {new} : e.key \notin elapsed}
    BY <1>3 DEF SaveIssued
  <2>2. issued' = issued + 1 /\ spent' = spent /\ elapsed' = elapsed
    BY <1>3 DEF SaveIssued
  <2>3. ASSUME NEW k \in 1..issued'
        PROVE (\E e \in store' : e.key = k) \/ k \in spent' \/ k \in elapsed'
    <3>1. CASE k = issued + 1
      BY <3>1, <2>0, <2>1, <2>2
    <3>2. CASE k # issued + 1
      <4>1. k \in 1..issued
        BY <3>2, <2>2
      <4>2. CASE \E e \in store : e.key = k
        BY <4>2, <2>1, <2>2
      <4> QED
        BY <4>1, <4>2, <2>2
    <3> QED
      BY <3>1, <3>2
  <2>4. SectionIsStore'
    BY <1>3 DEF SaveIssued
  <2> QED
    BY <2>3, <2>4
<1>4. ASSUME NEW t \in Threads, NEW s \in Serials, NEW p \in Purposes, NEW k \in Keys,
             SaveConsumed(t, k, s, p)
      PROVE NoKeyLost' /\ SectionIsStore'
  BY <1>4 DEF SaveConsumed
<1>5. ASSUME NEW k \in Keys, Elapse(k) PROVE NoKeyLost' /\ SectionIsStore'
  BY <1>5 DEF Elapse
<1>6. CASE KeyRestart
  BY <1>6 DEF KeyRestart
<1>7. CASE UNCHANGED keyVars
  BY <1>7 DEF keyVars
<1> QED
  BY <1>1, <1>2, <1>3, <1>4, <1>5, <1>6, <1>7 DEF KeyNext

(* No issued key is lost while the file can be read: KeyLossInv always.    *)
THEOREM KeysDurable == KeySpec => []KeyLossInv
<1>1. KeyInit => KeyLossInv
  BY KeyIInvInit, KeyStoreAssumption
     DEF KeyInit, KeyLossInv, NoKeyLost, SectionIsStore
<1>2. QED
  BY <1>1, KeyLossStep, PTL DEF KeySpec

-----------------------------------------------------------------------------
(* What a step of the store may do to a key, in the terms of the mapping. *)
StepFacts ==
  /\ issued' \in {issued, issued + 1}
  /\ spent \subseteq spent'
  /\ elapsed \subseteq elapsed'
  /\ \A k \in Keys : Held(k)' => Held(k) \/ (k = issued + 1 /\ issued' = issued + 1)
  /\ \A k \in Keys : k = issued + 1 /\ issued' = issued + 1 =>
                       Held(k)' /\ k \notin spent' /\ k \notin elapsed'
  /\ \A k \in spent' : k \notin spent => Held(k) /\ k \notin elapsed
  /\ \A k, l \in spent' : k \notin spent /\ l \notin spent => k = l

LEMMA KeyStepFacts == KeyIInv /\ [KeyNext]_keyVars => StepFacts
<1> SUFFICES ASSUME KeyIInv, [KeyNext]_keyVars PROVE StepFacts
  OBVIOUS
<1>t. KeyTypeOK
  BY DEF KeyIInv
<1> USE <1>t, KeyStoreAssumption
    DEF KeyIInv, KeyTypeOK, Entry, Keys, Unexpired, EntriesMinted, SectionReadsStore,
        Held, StepFacts
<1>1. ASSUME NEW t \in Threads, LoadKeys(t) PROVE StepFacts
  BY <1>1 DEF LoadKeys
<1>2. ASSUME NEW t \in Threads, LeaveSection(t) PROVE StepFacts
  BY <1>2 DEF LeaveSection
<1>3. ASSUME NEW t \in Threads, NEW s \in Serials, NEW p \in Purposes, SaveIssued(t, s, p)
      PROVE StepFacts
  <2> DEFINE new == [key |-> issued + 1, serial |-> s, purpose |-> p]
  <2>0. new.key = issued + 1
    OBVIOUS
  <2>1. store' = {e \in loaded[t] \union {new} : e.key \notin elapsed}
    BY <1>3 DEF SaveIssued
  <2>2. issued' = issued + 1 /\ spent' = spent /\ elapsed' = elapsed
    BY <1>3 DEF SaveIssued
  <2>3. issued + 1 \notin elapsed /\ issued + 1 \notin spent
    OBVIOUS
  <2>4. new \in store'
    BY <2>0, <2>1, <2>3
  <2>5. loaded[t] \subseteq store
    BY <1>3 DEF SaveIssued
  <2>6. ASSUME NEW k \in Keys, Held(k)' PROVE Held(k) \/ k = issued + 1
    BY <2>0, <2>1, <2>5, <2>6
  <2> QED
    BY <2>0, <2>2, <2>3, <2>4, <2>6
<1>4. ASSUME NEW t \in Threads, NEW s \in Serials, NEW p \in Purposes, NEW k \in Keys,
             SaveConsumed(t, k, s, p)
      PROVE StepFacts
  <2>1. /\ store' = {e \in loaded[t] : e.key # k /\ e.key \notin elapsed}
        /\ spent' = spent \union {k}
        /\ issued' = issued /\ elapsed' = elapsed
    BY <1>4 DEF SaveConsumed
  <2>2. loaded[t] \subseteq store
    BY <1>4 DEF SaveConsumed
  <2>3. Held(k) /\ k \notin elapsed
    <3>1. [key |-> k, serial |-> s, purpose |-> p] \in loaded[t] /\ k \notin elapsed
      BY <1>4 DEF SaveConsumed, Valid
    <3> QED
      BY <3>1, <2>2
  <2> QED
    BY <2>1, <2>2, <2>3
<1>5. ASSUME NEW k \in Keys, Elapse(k) PROVE StepFacts
  BY <1>5 DEF Elapse
<1>6. CASE KeyRestart
  BY <1>6 DEF KeyRestart
<1>7. CASE UNCHANGED keyVars
  BY <1>7 DEF keyVars
<1> QED
  BY <1>1, <1>2, <1>3, <1>4, <1>5, <1>6, <1>7 DEF KeyNext

(* Every step of the store is a step of the abstract keys under the        *)
(* mapping KeyStateOf.                                                     *)
LEMMA PromiseStep == KeyIInv /\ [KeyNext]_keyVars => Promise!AbsNext
<1> SUFFICES ASSUME KeyIInv, [KeyNext]_keyVars PROVE Promise!AbsNext
  OBVIOUS
<1>f. StepFacts
  BY KeyStepFacts
<1>t. issued \in Nat /\ issued' \in Nat /\ (\A k \in spent : k <= issued)
  BY <1>f, KeyStoreAssumption DEF KeyIInv, KeyTypeOK, EntriesMinted, StepFacts
<1> DEFINE abs == [k \in Keys |-> KeyStateOf(k)]
<1>1. \A k \in Keys : abs[k] = KeyStateOf(k) /\ abs'[k] = KeyStateOf(k)'
  OBVIOUS
<1>2. abs' \in [Keys -> Promise!KeyStates]
  <2>1. \A k \in Keys : KeyStateOf(k)' \in Promise!KeyStates
    BY DEF KeyStateOf, Promise!KeyStates
  <2> QED
    BY <2>1
<1>3. ASSUME NEW k \in Keys
      PROVE KeyStateOf(k)' \in Promise!Successors(KeyStateOf(k))
  <2>k. k \in Nat
    BY KeyStoreAssumption DEF Keys
  <2> USE <1>t, <2>k DEF KeyStateOf, Promise!Successors
  <2>1. CASE k > issued
    <3>1. CASE k > issued'
      BY <2>1, <3>1
    <3>2. CASE ~(k > issued')
      <4>1. k = issued + 1 /\ issued' = issued + 1
        BY <2>1, <3>2, <1>f DEF StepFacts
      <4> QED
        BY <2>1, <3>2, <4>1, <1>f DEF StepFacts
    <3> QED
      BY <3>1, <3>2
  <2>2. CASE ~(k > issued)
    <3>1. ~(k > issued')
      BY <2>2, <1>f DEF StepFacts
    <3>2. k # issued + 1
      BY <2>2
    <3>3. CASE k \in spent
      BY <2>2, <3>1, <3>3, <1>f DEF StepFacts
    <3>4. CASE k \notin spent /\ Held(k) /\ k \notin elapsed
      BY <2>2, <3>1, <3>4, <1>f DEF StepFacts
    <3>5. CASE k \notin spent /\ ~(Held(k) /\ k \notin elapsed)
      <4>1. k \notin spent'
        BY <3>5, <1>f DEF StepFacts
      <4>2. ~(Held(k)' /\ k \notin elapsed')
        BY <3>5, <3>2, <1>f DEF StepFacts
      <4> QED
        BY <2>2, <3>1, <3>5, <4>1, <4>2
    <3> QED
      BY <3>3, <3>4, <3>5
  <2> QED
    BY <2>1, <2>2
<1>4. ASSUME NEW k \in Keys, NEW l \in Keys,
             abs[k] = "live", abs'[k] = "spent", abs[l] = "live", abs'[l] = "spent"
      PROVE k = l
  <2>1. k \in spent' /\ k \notin spent /\ l \in spent' /\ l \notin spent
    BY <1>1, <1>4 DEF KeyStateOf
  <2> QED
    BY <2>1, <1>f DEF StepFacts
<1> QED
  BY <1>1, <1>2, <1>3, <1>4 DEF Promise!AbsNext, Promise!Spends, Promise!Keys, Keys

(* The store implements the promise: a key is live once and is never       *)
(* brought back, and one step spends at most one key.                      *)
THEOREM StoreKeepsPromise == KeySpec => KeepsPromise
<1>1. KeyInit => Promise!AbsInit
  <2> SUFFICES ASSUME KeyInit, NEW k \in Keys PROVE KeyStateOf(k) = "fresh"
    BY DEF Promise!AbsInit, Promise!Keys, Keys
  <2> QED
    BY KeyStoreAssumption DEF KeyInit, KeyStateOf, Keys
<1>2. KeyIInv /\ [KeyNext]_keyVars => [Promise!AbsNext]_([k \in Keys |-> KeyStateOf(k)])
  BY PromiseStep
<1>3. QED
  BY <1>1, <1>2, KeysSafe, PTL DEF KeySpec, KeepsPromise, Promise!AbsSpec

-----------------------------------------------------------------------------
(* How the shapes change a request. *)
Only(t) == req' \in [Threads -> Request] /\ \A u \in Threads \ {t} : req'[u] = req[u]

Same(t) ==
  /\ req'[t].serial = req[t].serial /\ req'[t].key = req[t].key
  /\ req'[t].token = req[t].token /\ req'[t].cf = req[t].cf

LEMMA Going ==
  ASSUME req \in [Threads -> Request], NEW t \in Threads,
         NEW step \in Steps \union {"free", "replied"}, Goto(t, step)
  PROVE  Only(t) /\ Same(t) /\ req'[t].at = step
BY DEF Goto, Only, Same, Request

LEMMA Replying ==
  ASSUME req \in [Threads -> Request], NEW t \in Threads, NEW o \in Outcomes, Reply(t, o)
  PROVE  Only(t) /\ Same(t) /\ req'[t].at = "replied"
BY DEF Reply, Only, Same, Request

LEMMA FreeTyped ==
  /\ FreeRequest \in Request
  /\ FreeRequest.at = "free" /\ ~FreeRequest.cf.group
<1>1. (CHOOSE s \in Serials : TRUE) \in Serials
  BY AnswerServiceAssumption
<1>2. 0 \in KeyOrNone /\ 0 \in TokenOrNone
  BY KeyStoreAssumption, AnswerServiceAssumption DEF KeyOrNone, TokenOrNone
<1>3. NewDevice \in CustomFields /\ ~NewDevice.group
  BY DEF NewDevice, CustomFields, States
<1> QED
  BY <1>1, <1>2, <1>3 DEF FreeRequest, Request, Outcomes

LEMMA Freeing ==
  ASSUME req \in [Threads -> Request], NEW t \in Threads, Free(t)
  PROVE  Only(t) /\ req'[t] = FreeRequest
BY FreeTyped DEF Free, Only

LEMMA Arriving ==
  ASSUME req \in [Threads -> Request], NEW t \in Threads, NEW first \in Steps,
         NEW s \in Serials, NEW k \in KeyOrNone, NEW tok \in TokenOrNone, Arrive(t, first, s, k, tok)
  PROVE  /\ Only(t)
         /\ req'[t].at = first /\ req'[t].serial = s /\ req'[t].token = tok
         /\ req'[t].cf = FreeRequest.cf
<1> DEFINE q == [FreeRequest EXCEPT !.at = first, !.serial = s, !.key = k, !.token = tok]
<1>1. /\ q \in Request
      /\ q.at = first /\ q.serial = s /\ q.token = tok /\ q.cf = FreeRequest.cf
  BY FreeTyped DEF Request
<1>2. req' = [req EXCEPT ![t] = q]
  BY DEF Arrive
<1> HIDE DEF q
<1> QED
  BY <1>1, <1>2 DEF Only

-----------------------------------------------------------------------------
(* The token files and the records that name them. *)
Stored(s) == vault[s].recorded /\ vault[s].token # 0

SpendSteps == {"fb_spend", "fb_spend_save", "cr_spend", "cr_spend_save", "wh_spend", "wh_spend_save"}

(* What a handler has done before its next step: the effect of a key that  *)
(* it is about to spend, and what the group that it will write stands for. *)
Earned(t) ==
  /\ req[t].at \in SpendSteps => req[t].key \in done
  /\ req[t].at \in CredSteps => req[t].token # 0
  /\ req[t].at = "cr_records" => vault[req[t].serial].token # 0
  /\ req[t].at = "cr_patch" => Stored(req[t].serial)
  /\ req[t].cf.group => Stored(req[t].serial)

SvcTypes ==
  /\ req \in [Threads -> Request]
  /\ device \in [Serials -> CustomFields]
  /\ vault \in [Serials -> Vault]
  /\ faults \in 0..MaxFaults
  /\ done \in SUBSET KeyOrNone

SvcIInv ==
  /\ SvcTypes
  /\ \A t \in Threads : Earned(t)
  /\ SpentAfterEffect
  /\ NamedGroupExists

(* What is stored stays. *)
Grows ==
  /\ \A s \in Serials : (vault[s].token # 0 => vault'[s].token # 0) /\ (Stored(s) => Stored(s)')
  /\ done \subseteq done'

LEMMA EarnedKept ==
  ASSUME SvcTypes, NEW t \in Threads, Only(t), Grows, \A u \in Threads : Earned(u), Earned(t)'
  PROVE  \A u \in Threads : Earned(u)'
<1> SUFFICES ASSUME NEW u \in Threads, u # t PROVE Earned(u)'
  OBVIOUS
<1>1. req'[u] = req[u] /\ req[u].serial \in Serials
  BY DEF Only, SvcTypes, Request
<1> QED
  BY <1>1 DEF Grows, Earned, Stored

LEMMA Faulty == SvcTypes /\ Fault => faults' \in 0..MaxFaults
BY AnswerServiceAssumption DEF SvcTypes, Fault

(* A step that changes no more than one request, and spends nothing new.   *)
LEMMA RequestStep ==
  ASSUME SvcIInv, NEW t \in Threads, Only(t), Earned(t)',
         UNCHANGED <<device, vault, done>>, faults' \in 0..MaxFaults, spent' \subseteq done
  PROVE  SvcIInv' /\ Grows
<1>1. Grows
  BY DEF Grows, Stored
<1>2. SvcTypes'
  BY DEF SvcIInv, SvcTypes, Only
<1>3. \A u \in Threads : Earned(u)'
  BY <1>1, EarnedKept DEF SvcIInv
<1>4. SpentAfterEffect' /\ NamedGroupExists'
  BY DEF SvcIInv, SpentAfterEffect, NamedGroupExists
<1> QED
  BY <1>1, <1>2, <1>3, <1>4 DEF SvcIInv

(* A request that ends, or goes on to a step that relies on nothing new.   *)
LEMMA GoesOn ==
  ASSUME SvcIInv, NEW t \in Threads, Same(t), UNCHANGED <<vault, done>>,
         req'[t].at \notin {"cr_records", "cr_patch"},
         req'[t].at \in SpendSteps => req[t].at \in SpendSteps,
         req'[t].at \in CredSteps => req[t].at \in CredSteps
  PROVE  Earned(t)'
BY DEF SvcIInv, Earned, Same, Stored

LEMMA Ending ==
  ASSUME SvcIInv, NEW t \in Threads, NEW o \in Outcomes, Reply(t, o),
         UNCHANGED <<device, vault, done>>, faults' \in 0..MaxFaults, spent' \subseteq done
  PROVE  SvcIInv' /\ Grows
<1>1. Only(t) /\ Same(t) /\ req'[t].at = "replied"
  BY Replying DEF SvcIInv, SvcTypes
<1>2. Earned(t)'
  BY <1>1, GoesOn DEF SpendSteps, CredSteps
<1> QED
  BY <1>1, <1>2, RequestStep

LEMMA MovingOn ==
  ASSUME SvcIInv, NEW t \in Threads, NEW next \in Steps, Goto(t, next),
         UNCHANGED <<device, vault, done>>, faults' \in 0..MaxFaults, spent' \subseteq done,
         next \notin {"cr_records", "cr_patch"},
         next \in SpendSteps => req[t].at \in SpendSteps,
         next \in CredSteps => req[t].at \in CredSteps
  PROVE  SvcIInv' /\ Grows
<1>1. Only(t) /\ Same(t) /\ req'[t].at = next
  BY Going DEF SvcIInv, SvcTypes
<1>2. Earned(t)'
  BY <1>1, GoesOn
<1> QED
  BY <1>1, <1>2, RequestStep

LEMMA Peeking ==
  ASSUME SvcIInv, NEW t \in Threads, NEW step, NEW purpose, NEW next \in Steps,
         PeekKey(t, step, purpose, next),
         next \notin SpendSteps \union {"cr_records", "cr_patch"},
         next \in CredSteps => step \in CredSteps
  PROVE  SvcIInv' /\ Grows
<1>1. /\ UNCHANGED <<device, vault, done>> /\ faults' \in 0..MaxFaults /\ spent' \subseteq done
      /\ req[t].at = step
  BY DEF PeekKey, keyVars, SvcIInv, SvcTypes, SpentAfterEffect, At
<1>2. CASE Goto(t, next)
  BY <1>1, <1>2, MovingOn
<1>3. CASE Reply(t, "refused")
  BY <1>1, <1>3, Ending DEF Outcomes
<1> QED
  BY <1>2, <1>3 DEF PeekKey

LEMMA Entering ==
  ASSUME SvcIInv, NEW t \in Threads, NEW step, NEW next \in Steps, EnterSection(t, step, next),
         next \notin {"cr_records", "cr_patch"},
         next \in SpendSteps => step \in SpendSteps,
         next \in CredSteps => step \in CredSteps
  PROVE  SvcIInv' /\ Grows
<1>1. /\ UNCHANGED <<device, vault, done>> /\ faults' \in 0..MaxFaults /\ spent' \subseteq done
      /\ req[t].at = step /\ Goto(t, next)
  BY DEF EnterSection, LoadKeys, SvcIInv, SvcTypes, SpentAfterEffect, At
<1> QED
  BY <1>1, MovingOn

LEMMA Reading ==
  ASSUME SvcIInv, NEW t \in Threads, NEW step, NEW next \in Steps, ReadDevice(t, step, next),
         next \notin SpendSteps \union {"cr_records", "cr_patch"},
         next \in CredSteps => step \in CredSteps
  PROVE  SvcIInv' /\ Grows
<1>1. /\ UNCHANGED <<device, vault, done>> /\ faults' \in 0..MaxFaults /\ spent' \subseteq done
      /\ req[t].at = step
  BY DEF ReadDevice, keyVars, SvcIInv, SvcTypes, SpentAfterEffect, At
<1>2. req[t].serial \in Serials /\ device[req[t].serial] \in CustomFields
  BY DEF SvcIInv, SvcTypes, Request
<1> DEFINE q == [req[t] EXCEPT !.at = next, !.cf = device[req[t].serial]]
<1>3. /\ q \in Request /\ q.at = next /\ q.serial = req[t].serial /\ q.key = req[t].key
      /\ q.token = req[t].token /\ q.cf = device[req[t].serial]
  BY <1>2 DEF SvcIInv, SvcTypes, Request
<1>4. req' = [req EXCEPT ![t] = q]
  BY DEF ReadDevice, SvcIInv, SvcTypes
<1> HIDE DEF q
<1>5. Only(t) /\ req'[t] = q
  BY <1>3, <1>4 DEF Only, SvcIInv, SvcTypes
<1>6. Earned(t)'
  BY <1>1, <1>2, <1>3, <1>5 DEF Earned, Stored, SvcIInv, NamedGroupExists
<1> QED
  BY <1>1, <1>5, <1>6, RequestStep

LEMMA Spending ==
  ASSUME SvcIInv, NEW t \in Threads, NEW step \in SpendSteps, NEW purpose, SpendKey(t, step, purpose)
  PROVE  SvcIInv' /\ Grows
<1>1. req[t].key \in done
  BY DEF SvcIInv, Earned, SpendKey, At
<1>2. UNCHANGED <<device, vault, done>> /\ faults' \in 0..MaxFaults /\ spent' \subseteq done /\ Reply(t, "ok")
  BY <1>1 DEF SpendKey, SaveConsumed, LeaveSection, SvcIInv, SvcTypes, SpentAfterEffect
<1> QED
  BY <1>2, Ending DEF Outcomes

-----------------------------------------------------------------------------
(* The handlers. *)
LEMMA Minted ==
  ASSUME KeyTypeOK, NEW t \in Threads, NEW s, NEW p, SaveIssued(t, s, p)
  PROVE  issued + 1 \in KeyOrNone /\ spent' = spent
BY KeyStoreAssumption DEF KeyTypeOK, SaveIssued, KeyOrNone

LEMMA AnswerStep ==
  ASSUME KeyTypeOK, SvcIInv, NEW t \in Threads, Answer(t)
  PROVE  SvcIInv' /\ Grows
<1>1. CASE AnswerRead(t)
  <2>1. /\ UNCHANGED <<device, vault, done>> /\ faults' \in 0..MaxFaults /\ spent' \subseteq done
        /\ Goto(t, "ans_fb") \/ Reply(t, "refused")
    BY <1>1 DEF AnswerRead, keyVars, SvcIInv, SvcTypes, SpentAfterEffect
  <2>2. "ans_fb" \in Steps /\ "ans_fb" \notin SpendSteps \union CredSteps /\ "refused" \in Outcomes
    BY DEF Steps, AnswerSteps, SpendSteps, CredSteps, Outcomes
  <2> QED
    BY <2>1, <2>2, MovingOn, Ending DEF CredSteps
<1>2. CASE EnterSection(t, "ans_fb", "ans_fb_save") \/ EnterSection(t, "ans_wh", "ans_wh_save")
  BY <1>2, Entering DEF Steps, AnswerSteps, SpendSteps, CredSteps
<1>3. CASE /\ SaveIssued(t, req[t].serial, "firstboot")
           /\ req' = [req EXCEPT ![t].at = "ans_wh", ![t].key = issued + 1]
           /\ UNCHANGED <<device, vault, faults, done>>
  <2>1. issued + 1 \in KeyOrNone /\ spent' = spent
    BY <1>3, Minted
  <2>2. /\ Only(t) /\ req'[t].at = "ans_wh" /\ req'[t].cf = req[t].cf /\ req'[t].serial = req[t].serial
    BY <1>3, <2>1 DEF Only, SvcIInv, SvcTypes, Request, Steps, AnswerSteps
  <2>3. Earned(t)'
    BY <1>3, <2>2 DEF Earned, Stored, SvcIInv, SpendSteps, CredSteps
  <2> QED
    BY <1>3, <2>1, <2>2, <2>3, RequestStep DEF SvcIInv, SvcTypes, SpentAfterEffect
<1>4. CASE /\ SaveIssued(t, req[t].serial, "webhook")
           /\ req' = [req EXCEPT ![t].at = "replied", ![t].out = "ok", ![t].new = issued + 1]
           /\ UNCHANGED <<device, vault, faults, done>>
  <2>1. issued + 1 \in KeyOrNone /\ spent' = spent
    BY <1>4, Minted
  <2> DEFINE q == [req[t] EXCEPT !.at = "replied", !.out = "ok", !.new = issued + 1]
  <2>q. /\ q \in Request /\ q.at = "replied" /\ q.cf = req[t].cf /\ q.serial = req[t].serial
        /\ req' = [req EXCEPT ![t] = q]
    BY <1>4, <2>1 DEF SvcIInv, SvcTypes, Request, Outcomes
  <2> HIDE DEF q
  <2>2. /\ Only(t) /\ req'[t].at = "replied" /\ req'[t].cf = req[t].cf /\ req'[t].serial = req[t].serial
    BY <2>q DEF Only, SvcIInv, SvcTypes
  <2>3. Earned(t)'
    BY <1>4, <2>2 DEF Earned, Stored, SvcIInv, SpendSteps, CredSteps
  <2> QED
    BY <1>4, <2>1, <2>2, <2>3, RequestStep DEF SvcIInv, SvcTypes, SpentAfterEffect
<1> QED
  BY <1>1, <1>2, <1>3, <1>4 DEF Answer, AnswerFirstbootKey, AnswerWebhookKey

LEMMA FirstbootStep ==
  ASSUME KeyTypeOK, SvcIInv, NEW t \in Threads, Firstboot(t)
  PROVE  SvcIInv' /\ Grows
<1> USE DEF Steps, ScriptSteps, SpendSteps, CredSteps
<1>1. CASE PeekKey(t, "fb_peek", "firstboot", "fb_read")
  BY <1>1, Peeking
<1>2. CASE ReadDevice(t, "fb_read", "fb_cred")
  BY <1>2, Reading
<1>3. CASE EnterSection(t, "fb_cred", "fb_cred_save") \/ EnterSection(t, "fb_spend", "fb_spend_save")
  BY <1>3, Entering
<1>4. CASE /\ SaveIssued(t, req[t].serial, "credentials")
           /\ req' = [req EXCEPT ![t].at = "fb_spend", ![t].new = issued + 1]
           /\ done' = done \union {req[t].key}
           /\ UNCHANGED <<device, vault, faults>>
  <2>1. issued + 1 \in KeyOrNone /\ spent' = spent
    BY <1>4, Minted
  <2>2. /\ Only(t) /\ req'[t].at = "fb_spend" /\ req'[t].cf = req[t].cf
        /\ req'[t].serial = req[t].serial /\ req'[t].key = req[t].key
    BY <1>4, <2>1 DEF Only, SvcIInv, SvcTypes, Request
  <2>3. req[t].key \in KeyOrNone
    BY DEF SvcIInv, SvcTypes, Request
  <2>4. Grows
    BY <1>4 DEF Grows, Stored
  <2>5. Earned(t)'
    BY <1>4, <2>2 DEF Earned, Stored, SvcIInv
  <2>6. \A u \in Threads : Earned(u)'
    BY <2>2, <2>4, <2>5, EarnedKept DEF SvcIInv
  <2>7. SvcTypes'
    BY <1>4, <2>2, <2>3 DEF SvcIInv, SvcTypes, Only
  <2> QED
    BY <1>4, <2>1, <2>4, <2>6, <2>7 DEF SvcIInv, SpentAfterEffect, NamedGroupExists
<1>5. CASE SpendKey(t, "fb_spend_save", "firstboot")
  BY <1>5, Spending
<1> QED
  BY <1>1, <1>2, <1>3, <1>4, <1>5 DEF Firstboot, FirstbootCredentialsKey, FirstbootSpend

(* A step with an effect: the token files, the records, the Device. *)
LEMMA StoreStep ==
  ASSUME SvcIInv, NEW t \in Threads, Only(t), Grows, Earned(t)',
         vault' \in [Serials -> Vault], spent' = spent, UNCHANGED <<device, faults, done>>
  PROVE  SvcIInv' /\ Grows
<1>1. SvcTypes'
  BY DEF SvcIInv, SvcTypes, Only
<1>2. \A u \in Threads : Earned(u)'
  BY EarnedKept DEF SvcIInv
<1>3. SpentAfterEffect'
  BY DEF SvcIInv, SpentAfterEffect
<1>4. NamedGroupExists'
  BY DEF SvcIInv, NamedGroupExists, Grows, Stored
<1> QED
  BY <1>1, <1>2, <1>3, <1>4 DEF SvcIInv

(* The Device is written, and the key's step has had its effect. *)
LEMMA PatchStep ==
  ASSUME SvcIInv, NEW t \in Threads, NEW cf \in CustomFields,
         device' = [device EXCEPT ![req[t].serial] = cf] \/ device' = device,
         cf.group => Stored(req[t].serial),
         done' = done \union {req[t].key},
         UNCHANGED <<vault, spent>>,
         \/ Goto(t, "cr_spend") /\ UNCHANGED faults
         \/ Goto(t, "wh_spend") /\ UNCHANGED faults
         \/ Reply(t, "error") /\ Fault,
         req[t].at \in CredSteps \union WebhookSteps,
         Goto(t, "cr_spend") => req[t].at \in CredSteps
  PROVE  SvcIInv' /\ Grows
<1>1. /\ req \in [Threads -> Request] /\ req[t].serial \in Serials /\ req[t].key \in KeyOrNone
      /\ device \in [Serials -> CustomFields] /\ faults' \in 0..MaxFaults
  BY Faulty DEF SvcIInv, SvcTypes, Request
<1>2. /\ Only(t) /\ Same(t)
      /\ \/ req'[t].at = "cr_spend" /\ req[t].at \in CredSteps
         \/ req'[t].at \in {"wh_spend", "replied"}
  <2>1. CASE Goto(t, "cr_spend")
    BY <1>1, <2>1, Going DEF Steps, CredSteps
  <2>2. CASE Goto(t, "wh_spend")
    BY <1>1, <2>2, Going DEF Steps, WebhookSteps
  <2>3. CASE Reply(t, "error")
    BY <1>1, <2>3, Replying DEF Outcomes
  <2> QED
    BY <2>1, <2>2, <2>3
<1>3. Grows
  BY DEF Grows, Stored
<1>4. Earned(t)'
  BY <1>2 DEF SvcIInv, Earned, Same, Stored, CredSteps
<1>5. \A u \in Threads : Earned(u)'
  BY <1>2, <1>3, <1>4, EarnedKept DEF SvcIInv
<1>6. SvcTypes'
  <2>1. device' \in [Serials -> CustomFields]
    BY <1>1
  <2> QED
    BY <1>1, <1>2, <2>1 DEF SvcIInv, SvcTypes, Only
<1>7. SpentAfterEffect'
  BY DEF SvcIInv, SpentAfterEffect
<1>8. NamedGroupExists'
  <2> SUFFICES ASSUME NEW s \in Serials, device'[s].group PROVE Stored(s)
    BY DEF NamedGroupExists, Stored
  <2>1. CASE device'[s] = device[s]
    BY <2>1 DEF SvcIInv, NamedGroupExists, Stored
  <2>2. CASE device'[s] # device[s]
    BY <1>1, <2>2
  <2> QED
    BY <2>1, <2>2
<1> QED
  BY <1>3, <1>5, <1>6, <1>7, <1>8 DEF SvcIInv

LEMMA FieldsTyped ==
  ASSUME NEW cf \in CustomFields
  PROVE  /\ CredentialsFields(cf) \in CustomFields
         /\ WebhookFields(cf) \in CustomFields
         /\ WebhookFields(cf).group => cf.group
         /\ CredentialsFields(cf).state # "awaiting_install"
         /\ WebhookFields(cf).state # "awaiting_install"
BY DEF CredentialsFields, WebhookFields, CustomFields, States

LEMMA CredentialsStep ==
  ASSUME KeyTypeOK, SvcIInv, NEW t \in Threads, Credentials(t)
  PROVE  SvcIInv' /\ Grows
<1> USE DEF Steps, SpendSteps, CredSteps
<1>t. /\ req \in [Threads -> Request] /\ req[t].serial \in Serials /\ req[t].token \in TokenOrNone
      /\ vault \in [Serials -> Vault] /\ req[t].cf \in CustomFields
  BY DEF SvcIInv, SvcTypes, Request
<1>e. Earned(t)
  BY DEF SvcIInv
<1>1. CASE PeekKey(t, "cr_peek", "credentials", "cr_read")
  BY <1>1, Peeking
<1>2. CASE ReadDevice(t, "cr_read", "cr_files")
  BY <1>2, Reading
<1>3. CASE WriteTokenFiles(t)
  <2>1. /\ Only(t) /\ Same(t) /\ req'[t].at = "cr_records" /\ req[t].at = "cr_files"
        /\ UNCHANGED <<device, faults, done>> /\ spent' = spent
    BY <1>3, <1>t, Going DEF WriteTokenFiles, keyVars, At
  <2>2. req[t].token # 0
    BY <1>e, <2>1 DEF Earned
  <2>3. /\ vault' \in [Serials -> Vault]
        /\ vault'[req[t].serial].token # 0
        /\ vault'[req[t].serial].recorded = vault[req[t].serial].recorded
        /\ \A s \in Serials \ {req[t].serial} : vault'[s] = vault[s]
    BY <1>3, <1>t, <2>2 DEF WriteTokenFiles, Vault
  <2>4. Grows
    BY <2>1, <2>3 DEF Grows, Stored
  <2>5. Earned(t)'
    BY <1>t, <1>e, <2>1, <2>2, <2>3, <2>4 DEF Earned, Same, Grows, Stored
  <2> QED
    BY <2>1, <2>3, <2>4, <2>5, StoreStep
<1>4. CASE WriteSecretRecords(t)
  <2>1. /\ Only(t) /\ Same(t) /\ req'[t].at = "cr_patch" /\ req[t].at = "cr_records"
        /\ UNCHANGED <<device, faults, done>> /\ spent' = spent
    BY <1>4, <1>t, Going DEF WriteSecretRecords, keyVars, At
  <2>2. req[t].token # 0 /\ vault[req[t].serial].token # 0
    BY <1>e, <2>1 DEF Earned
  <2>3. /\ vault' \in [Serials -> Vault]
        /\ vault'[req[t].serial].token = vault[req[t].serial].token
        /\ vault'[req[t].serial].recorded
        /\ \A s \in Serials \ {req[t].serial} : vault'[s] = vault[s]
    BY <1>4, <1>t DEF WriteSecretRecords, Vault
  <2>4. Grows
    BY <2>1, <2>3 DEF Grows, Stored
  <2>5. Earned(t)'
    BY <1>t, <1>e, <2>1, <2>2, <2>3, <2>4 DEF Earned, Same, Grows, Stored
  <2> QED
    BY <2>1, <2>3, <2>4, <2>5, StoreStep
<1>5. CASE PatchCredentials(t)
  <2>1. Stored(req[t].serial) /\ req[t].at \in CredSteps
    BY <1>5, <1>e DEF PatchCredentials, At, Earned
  <2>2. CredentialsFields(req[t].cf) \in CustomFields
    BY <1>t, FieldsTyped
  <2> QED
    BY <1>5, <2>1, <2>2, PatchStep DEF PatchCredentials, keyVars
<1>6. CASE EnterSection(t, "cr_spend", "cr_spend_save")
  BY <1>6, Entering
<1>7. CASE SpendKey(t, "cr_spend_save", "credentials")
  BY <1>7, Spending
<1> QED
  BY <1>1, <1>2, <1>3, <1>4, <1>5, <1>6, <1>7 DEF Credentials, CredentialsSpend

LEMMA WebhookStep ==
  ASSUME KeyTypeOK, SvcIInv, NEW t \in Threads, Webhook(t)
  PROVE  SvcIInv' /\ Grows
<1> USE DEF Steps, SpendSteps, CredSteps, WebhookSteps
<1>t. req[t].cf \in CustomFields /\ (req[t].cf.group => Stored(req[t].serial))
  BY DEF SvcIInv, SvcTypes, Request, Earned
<1>1. CASE PeekKey(t, "wh_peek", "webhook", "wh_read")
  BY <1>1, Peeking
<1>2. CASE ReadDevice(t, "wh_read", "wh_patch")
  BY <1>2, Reading
<1>3. CASE PatchWebhook(t)
  <2>1. /\ WebhookFields(req[t].cf) \in CustomFields
        /\ WebhookFields(req[t].cf).group => Stored(req[t].serial)
    BY <1>t, FieldsTyped
  <2>2. req[t].at = "wh_patch" /\ ~Goto(t, "cr_spend")
    BY <1>3, Going, Replying DEF PatchWebhook, At, SvcIInv, SvcTypes, Outcomes
  <2> QED
    BY <1>3, <2>1, <2>2, PatchStep DEF PatchWebhook, keyVars
<1>4. CASE WebhookAlreadyKnown(t)
  <2>1. req[t].at = "wh_patch" /\ ~Goto(t, "cr_spend")
    BY <1>4, Going DEF WebhookAlreadyKnown, At, SvcIInv, SvcTypes
  <2> QED
    BY <1>4, <1>t, <2>1, PatchStep DEF WebhookAlreadyKnown, keyVars
<1>5. CASE EnterSection(t, "wh_spend", "wh_spend_save")
  BY <1>5, Entering
<1>6. CASE SpendKey(t, "wh_spend_save", "webhook")
  BY <1>6, Spending
<1> QED
  BY <1>1, <1>2, <1>3, <1>4, <1>5, <1>6 DEF Webhook, WebhookSpend

(* Failures end a request, or all of them. *)
LEMMA BreakStep ==
  ASSUME SvcIInv, NEW t \in Threads, Breaks(t)
  PROVE  SvcIInv' /\ Grows
<1>1. /\ Reply(t, "error") \/ Reply(t, "refused")
      /\ Fault /\ UNCHANGED <<device, vault, done>> /\ spent' = spent
  BY DEF Breaks, NautobotFails, SotRefuses, KeyWriteFails, LeaveSection, keyVars
<1>2. faults' \in 0..MaxFaults /\ spent' \subseteq done
  BY <1>1, Faulty DEF SvcIInv, SpentAfterEffect
<1> QED
  BY <1>1, <1>2, Ending DEF Outcomes

LEMMA RestartStep ==
  ASSUME SvcIInv, Restart \/ TtlElapses
  PROVE  SvcIInv' /\ Grows
<1>1. /\ Fault /\ UNCHANGED <<device, vault, done>> /\ spent' = spent
      /\ req' = [t \in Threads |-> FreeRequest] \/ req' = req
  BY DEF Restart, TtlElapses, KeyRestart, Elapse
<1>2. Grows
  BY <1>1 DEF Grows, Stored
<1>3. SvcTypes'
  BY <1>1, Faulty, FreeTyped DEF SvcIInv, SvcTypes
<1>4. \A t \in Threads : Earned(t)'
  <2>1. CASE req' = req
    BY <1>1, <2>1 DEF SvcIInv, Earned, Stored
  <2>2. CASE req' = [t \in Threads |-> FreeRequest]
    BY <2>2, FreeTyped DEF Earned, SpendSteps, CredSteps
  <2> QED
    BY <1>1, <2>1, <2>2
<1> QED
  BY <1>1, <1>2, <1>3, <1>4 DEF SvcIInv, SpentAfterEffect, NamedGroupExists

-----------------------------------------------------------------------------
(* The machines: one that phones home has a token, and a job that runs     *)
(* holds a Device that names what exists.                                  *)
MachineTypes ==
  /\ node \in [Serials -> Node]
  /\ disk \in [Serials -> Disk]
  /\ tokens \in TokenOrNone
  /\ arms \in [Serials -> 1..MaxArms]
  /\ installed \in [Serials -> 0..MaxArms]
  /\ job \in [Serials -> CustomFields \union {NoJob}]
  /\ nested \in [Serials -> Install]

MachineIInv ==
  /\ MachineTypes
  /\ \A s \in Serials : node[s].phase = "phoning" => disk[s].token # 0
  /\ \A s \in Serials : node[s].phase \in {"booted", "phoning"} => disk[s].script = "pending"
  /\ \A s \in Serials : job[s].group => Stored(s)
  /\ \A s \in Serials : nested[s].cf.group => Stored(s)
  /\ \A s \in Serials : nested[s].cf.state = "awaiting_install"
  /\ \A s \in Serials : nested[s].at = "save" => disk[s].script = "none"

(* What a client's request, or the end of one, does to the service. *)
LEMMA Posting ==
  ASSUME SvcIInv, NEW s \in Serials, NEW t \in Threads, NEW k \in KeyOrNone, NEW tok \in TokenOrNone,
         NEW first \in {"ans_read", "fb_peek", "wh_peek", "cr_peek"}, first = "cr_peek" => tok # 0,
         Post(s, t, first, k, tok), UNCHANGED faults
  PROVE  SvcIInv' /\ Grows
<1>1. first \in Steps
  BY DEF Steps, AnswerSteps, ScriptSteps, CredSteps, WebhookSteps
<1>2. /\ Only(t) /\ req'[t].at = first /\ req'[t].token = tok /\ req'[t].cf = FreeRequest.cf
  BY <1>1, Arriving DEF Post, SvcIInv, SvcTypes
<1>3. Earned(t)'
  BY <1>2, FreeTyped DEF Earned, SpendSteps, CredSteps
<1>4. UNCHANGED <<device, vault, done>> /\ faults' \in 0..MaxFaults /\ spent' \subseteq done
  BY DEF Post, Arrive, keyVars, SvcIInv, SvcTypes, SpentAfterEffect
<1> QED
  BY <1>2, <1>3, <1>4, RequestStep

LEMMA Taking ==
  ASSUME SvcIInv, NEW t \in Threads, Free(t)
  PROVE  SvcIInv' /\ Grows
<1>1. Only(t) /\ req'[t] = FreeRequest
  BY Freeing DEF SvcIInv, SvcTypes
<1>2. Earned(t)'
  BY <1>1, FreeTyped DEF Earned, SpendSteps, CredSteps
<1>3. UNCHANGED <<device, vault, done>> /\ faults' \in 0..MaxFaults /\ spent' \subseteq done
  BY DEF Free, keyVars, SvcIInv, SvcTypes, SpentAfterEffect
<1> QED
  BY <1>1, <1>2, <1>3, RequestStep

LEMMA Elsewhere ==
  ASSUME SvcIInv, UNCHANGED <<req, vault, done, spent>>, faults' \in 0..MaxFaults,
         \/ device' = device
         \/ \E s \in Serials, cf \in CustomFields :
              device' = [device EXCEPT ![s] = cf] /\ (cf.group => Stored(s))
  PROVE  SvcIInv' /\ Grows
<1>1. Grows
  BY DEF Grows, Stored
<1>2. /\ device' \in [Serials -> CustomFields]
      /\ \A s \in Serials : device'[s].group => Stored(s)
  <2>1. CASE device' = device
    BY <2>1 DEF SvcIInv, SvcTypes, NamedGroupExists, Stored
  <2>2. ASSUME NEW s \in Serials, NEW cf \in CustomFields,
               device' = [device EXCEPT ![s] = cf], cf.group => Stored(s)
        PROVE  /\ device' \in [Serials -> CustomFields]
               /\ \A z \in Serials : device'[z].group => Stored(z)
    <3>1. device \in [Serials -> CustomFields] /\ \A z \in Serials : device[z].group => Stored(z)
      BY DEF SvcIInv, SvcTypes, NamedGroupExists, Stored
    <3> QED
      BY <2>2, <3>1
  <2> QED
    BY <2>1, <2>2
<1>3. SvcTypes'
  BY <1>2 DEF SvcIInv, SvcTypes
<1>4. \A t \in Threads : Earned(t)'
  BY DEF SvcIInv, Earned, Stored
<1> QED
  BY <1>1, <1>2, <1>3, <1>4 DEF SvcIInv, SpentAfterEffect, NamedGroupExists, Stored

(* The machines while the service alone moves. *)
LEMMA MachinesRest ==
  ASSUME MachineIInv, Grows, UNCHANGED loopVars
  PROVE  MachineIInv'
BY DEF MachineIInv, MachineTypes, Grows, Stored, loopVars

LEMMA Installing ==
  ASSUME MachineIInv, SvcIInv, NEW s \in Serials, NEW t \in Threads,
         \/ AskAnswer(s, t) \/ GetAnswer(s, t)
         \/ FetchScript(s, t) \/ GetScript(s, t)
         \/ PostWebhook(s, t) \/ LeaveInstaller(s, t)
  PROVE  SvcIInv' /\ Grows /\ MachineIInv'
<1>t. /\ node[s] \in Node /\ node[s].fbKey \in KeyOrNone /\ node[s].whKey \in KeyOrNone
      /\ 0 \in KeyOrNone /\ 0 \in TokenOrNone
      /\ req[t].key \in KeyOrNone /\ req[t].new \in KeyOrNone
  BY KeyStoreAssumption, AnswerServiceAssumption
     DEF MachineIInv, MachineTypes, Node, KeyOrNone, TokenOrNone, SvcIInv, SvcTypes, Request
<1>1. SvcIInv' /\ Grows
  <2>1. CASE AskAnswer(s, t)
    BY <1>t, <2>1, Posting DEF AskAnswer
  <2>2. CASE FetchScript(s, t)
    BY <1>t, <2>2, Posting DEF FetchScript
  <2>3. CASE PostWebhook(s, t)
    BY <1>t, <2>3, Posting DEF PostWebhook
  <2>4. CASE GetAnswer(s, t) \/ GetScript(s, t) \/ LeaveInstaller(s, t)
    BY <2>4, Taking DEF GetAnswer, GetScript, LeaveInstaller
  <2> QED
    BY <2>1, <2>2, <2>3, <2>4
<1>2. UNCHANGED <<disk, tokens, arms, installed, job, nested>>
  BY DEF AskAnswer, GetAnswer, FetchScript, GetScript, PostWebhook, LeaveInstaller, WithoutReply
<1>3. \E q \in Node : node' = [node EXCEPT ![s] = q] /\ q.phase \notin {"booted", "phoning"}
  <2> USE DEF Node, Phases
  <2>1. CASE AskAnswer(s, t) \/ FetchScript(s, t) \/ PostWebhook(s, t)
    <3> DEFINE q == [node[s] EXCEPT !.on = t]
    <3>1. q \in Node /\ q.phase \notin {"booted", "phoning"} /\ node' = [node EXCEPT ![s] = q]
      BY <1>t, <2>1 DEF AskAnswer, FetchScript, PostWebhook
    <3> QED
      BY <3>1
  <2>2. CASE GetAnswer(s, t)
    <3> DEFINE q == [node[s] EXCEPT !.on = NoThread,
                       !.phase = IF req[t].out = "ok" THEN "answered" ELSE "off",
                       !.fbKey = req[t].key, !.whKey = req[t].new]
    <3>1. q \in Node /\ q.phase \notin {"booted", "phoning"} /\ node' = [node EXCEPT ![s] = q]
      BY <1>t, <2>2 DEF GetAnswer
    <3> QED
      BY <3>1
  <2>3. CASE GetScript(s, t)
    <3> DEFINE q == [node[s] EXCEPT !.on = NoThread,
                       !.phase = IF req[t].out = "ok" THEN "fetched" ELSE "off",
                       !.credKey = req[t].new]
    <3>1. q \in Node /\ q.phase \notin {"booted", "phoning"} /\ node' = [node EXCEPT ![s] = q]
      BY <1>t, <2>3 DEF GetScript
    <3> QED
      BY <3>1
  <2>4. CASE LeaveInstaller(s, t)
    <3> DEFINE q == [node[s] EXCEPT !.on = NoThread, !.phase = AfterInstall(s)]
    <3>1. q \in Node /\ q.phase \notin {"booted", "phoning"} /\ node' = [node EXCEPT ![s] = q]
      BY <1>t, <2>4 DEF LeaveInstaller, WithoutReply, AfterInstall
    <3> QED
      BY <3>1
  <2> QED
    BY <2>1, <2>2, <2>3, <2>4
<1>4. MachineIInv'
  BY <1>1, <1>2, <1>3 DEF MachineIInv, MachineTypes, Grows, Stored
<1> QED
  BY <1>1, <1>4

LEMMA PhoningHome ==
  ASSUME MachineIInv, SvcIInv, NEW s \in Serials, NEW t \in Threads, PhoneHome(s, t) \/ PhoneHomeReply(s, t)
  PROVE  SvcIInv' /\ Grows /\ MachineIInv'
<1>t. /\ node[s] \in Node /\ disk[s] \in Disk
      /\ disk[s].credKey \in KeyOrNone /\ disk[s].token \in TokenOrNone
      /\ node \in [Serials -> Node] /\ disk \in [Serials -> Disk]
  BY DEF MachineIInv, MachineTypes, Disk
<1>1. node[s].phase = "phoning" /\ disk[s].token # 0
  BY DEF PhoneHome, PhoneHomeReply, MachineIInv
<1>2. SvcIInv' /\ Grows
  <2>1. CASE PhoneHome(s, t)
    BY <1>t, <1>1, <2>1, Posting DEF PhoneHome
  <2>2. CASE PhoneHomeReply(s, t)
    BY <2>2, Taking DEF PhoneHomeReply
  <2> QED
    BY <2>1, <2>2
<1>3. UNCHANGED <<tokens, arms, installed, job, nested>>
  BY DEF PhoneHome, PhoneHomeReply
<1>4. \E q \in Node : /\ node' = [node EXCEPT ![s] = q]
                      /\ q.phase = "off" \/ (q.phase = "phoning" /\ disk' = disk)
  <2> USE DEF Node, Phases
  <2>1. CASE PhoneHome(s, t)
    <3> DEFINE q == [node[s] EXCEPT !.on = t, !.tries = @ + 1]
    <3>1. node[s].tries + 1 \in 0..Attempts
      BY <1>t, <2>1, InstallLoopAssumption DEF PhoneHome
    <3>2. q \in Node /\ node' = [node EXCEPT ![s] = q] /\ q.phase = "phoning" /\ disk' = disk
      BY <1>t, <1>1, <2>1, <3>1 DEF PhoneHome
    <3> QED
      BY <3>2
  <2>2. CASE PhoneHomeReply(s, t)
    <3> DEFINE q == [node[s] EXCEPT !.on = NoThread, !.phase = "off"]
               p == [node[s] EXCEPT !.on = NoThread]
    <3>1. q \in Node /\ p \in Node /\ q.phase = "off" /\ p.phase = "phoning"
      BY <1>t, <1>1
    <3>2. node' = [node EXCEPT ![s] = q] \/ (node' = [node EXCEPT ![s] = p] /\ disk' = disk)
      BY <2>2 DEF PhoneHomeReply
    <3> HIDE DEF q, p
    <3> QED
      BY <3>1, <3>2
  <2> QED
    BY <2>1, <2>2
<1>5. /\ disk' \in [Serials -> Disk]
      /\ \A z \in Serials : disk'[z].token = disk[z].token /\ (z # s => disk'[z] = disk[z])
  <2>1. CASE disk' = disk
    BY <1>t, <2>1
  <2>2. CASE disk' = [disk EXCEPT ![s].script = "complete"]
    BY <1>t, <2>2 DEF Disk
  <2> QED
    BY <2>1, <2>2 DEF PhoneHome, PhoneHomeReply
<1>6. \A z \in Serials :
        /\ node'[z].phase = "phoning" => disk'[z].token # 0
        /\ node'[z].phase \in {"booted", "phoning"} => disk'[z].script = "pending"
        /\ nested[z].at = "save" => disk'[z].script = "none"
  <2>1. nested[s].at # "save"
    BY <1>1 DEF MachineIInv
  <2>2. PICK q \in Node : /\ node' = [node EXCEPT ![s] = q]
                          /\ q.phase = "off" \/ (q.phase = "phoning" /\ disk' = disk)
    BY <1>4
  <2>3. node'[s].phase = q.phase /\ \A z \in Serials : z # s => node'[z] = node[z]
    <3>1. node \in [Serials -> Node] /\ node' = [node EXCEPT ![s] = q]
      BY <1>t, <2>2
    <3> QED
      BY <3>1
  <2>4. TAKE z \in Serials
  <2>5. CASE z = s
    BY <1>1, <1>5, <2>1, <2>2, <2>3, <2>5 DEF MachineIInv
  <2>6. CASE z # s
    BY <1>5, <2>3, <2>6 DEF MachineIInv
  <2> QED
    BY <2>5, <2>6
<1>7. MachineTypes'
  BY <1>t, <1>3, <1>4, <1>5 DEF MachineIInv, MachineTypes
<1>8. \A z \in Serials : (job'[z].group => Stored(z)') /\ (nested'[z].cf.group => Stored(z)')
  BY <1>2, <1>3 DEF MachineIInv, Grows
<1> QED
  BY <1>2, <1>3, <1>6, <1>7, <1>8 DEF MachineIInv

(* The steps of a machine that leave the service alone. *)
LEMMA OnItsOwn ==
  ASSUME MachineIInv, SvcIInv, NEW s \in Serials,
         \/ WriteDisk(s) \/ BootSystem(s) \/ RotateToken(s) \/ ScriptFails(s)
         \/ ConnectionReset(s) /\ WithoutReply(s)
         \/ ClientTimeout(s) \/ PowerLoss(s) \/ BootInstaller(s) \/ PowerOn(s)
  PROVE  SvcIInv' /\ Grows /\ MachineIInv'
<1>t. /\ node[s] \in Node /\ disk[s] \in Disk
      /\ node \in [Serials -> Node] /\ disk \in [Serials -> Disk]
      /\ 0 \in KeyOrNone /\ 0 \in TokenOrNone
  BY KeyStoreAssumption, AnswerServiceAssumption DEF MachineIInv, MachineTypes, KeyOrNone, TokenOrNone
<1>1. UNCHANGED <<req, device, vault, done, spent>> /\ (faults' = faults \/ Fault)
  BY DEF WriteDisk, BootSystem, RotateToken, ScriptFails, ConnectionReset, ClientTimeout, TimesOut,
         PowerLoss, BootInstaller, PowerOn, keyVars, svcVars
<1>2. SvcIInv' /\ Grows
  BY <1>1, Faulty, Elsewhere DEF SvcIInv, SvcTypes
<1>3. UNCHANGED <<arms, job, nested>>
  BY DEF WriteDisk, BootSystem, RotateToken, ScriptFails, ClientTimeout, PowerLoss, BootInstaller, PowerOn,
         WithoutReply
<1>4. /\ node' \in [Serials -> Node] /\ disk' \in [Serials -> Disk]
      /\ tokens' \in TokenOrNone /\ installed' \in [Serials -> 0..MaxArms]
      /\ \A z \in Serials : node'[z].phase = "phoning" => disk'[z].token # 0
      /\ \A z \in Serials : node'[z].phase \in {"booted", "phoning"} => disk'[z].script = "pending"
      /\ \A z \in Serials : nested[z].at = "save" => disk'[z].script = "none"
  <2> USE DEF Node, Phases
  <2>0. /\ tokens \in TokenOrNone /\ installed \in [Serials -> 0..MaxArms]
        /\ \A z \in Serials : node[z].phase = "phoning" => disk[z].token # 0
        /\ \A z \in Serials : node[z].phase \in {"booted", "phoning"} => disk[z].script = "pending"
        /\ \A z \in Serials : nested[z].at = "save" => disk[z].script = "none"
    BY DEF MachineIInv, MachineTypes
  <2>1. CASE WriteDisk(s)
    <3> DEFINE q == [node[s] EXCEPT !.phase = "written"]
               d == [credKey |-> node[s].credKey, token |-> 0, script |-> "pending"]
    <3>1. q \in Node /\ q.phase = "written" /\ d \in Disk /\ arms[s] \in 0..MaxArms
      BY <1>t, InstallLoopAssumption DEF Disk, MachineIInv, MachineTypes
    <3>2. /\ node' = [node EXCEPT ![s] = q] /\ disk' = [disk EXCEPT ![s] = d]
          /\ installed' = [installed EXCEPT ![s] = arms[s]] /\ tokens' = tokens
          /\ nested[s].at # "save"
      BY <2>1 DEF WriteDisk
    <3> HIDE DEF q, d
    <3> QED
      BY <1>t, <2>0, <3>1, <3>2
  <2>2. CASE RotateToken(s)
    <3> DEFINE q == [node[s] EXCEPT !.phase = "phoning", !.tries = 0]
               d == [disk[s] EXCEPT !.token = tokens + 1]
    <3>1. tokens + 1 \in TokenOrNone /\ tokens + 1 # 0
      BY <2>0, <2>2, AnswerServiceAssumption DEF RotateToken, TokenOrNone
    <3>2. q \in Node /\ d \in Disk /\ d.token = tokens + 1 /\ d.script = "pending"
      <4>1. 0 \in 0..Attempts
        BY InstallLoopAssumption
      <4>2. q \in Node
        BY <1>t, <4>1
      <4>3. d \in Disk /\ d.token = tokens + 1 /\ d.script = "pending"
        BY <1>t, <2>0, <2>2, <3>1 DEF Disk, RotateToken
      <4> QED
        BY <4>2, <4>3
    <3>3. /\ node' = [node EXCEPT ![s] = q] /\ disk' = [disk EXCEPT ![s] = d]
          /\ installed' = installed /\ tokens' = tokens + 1
          /\ nested[s].at # "save"
      BY <2>0, <2>2 DEF RotateToken
    <3> HIDE DEF q, d
    <3> QED
      BY <1>t, <2>0, <3>1, <3>2, <3>3
  <2>3. CASE BootSystem(s) \/ ScriptFails(s) \/ PowerLoss(s) \/ PowerOn(s)
    <3>1. /\ UNCHANGED <<disk, tokens, installed>>
          /\ \E p \in {"booted", "off", "rebooting"} :
               /\ node' = [node EXCEPT ![s].phase = p]
               /\ p = "booted" => disk[s].script = "pending"
      BY <2>3 DEF BootSystem, ScriptFails, PowerLoss, PowerOn
    <3>2. PICK p \in {"booted", "off", "rebooting"} :
            node' = [node EXCEPT ![s].phase = p] /\ (p = "booted" => disk[s].script = "pending")
      BY <3>1
    <3> DEFINE q == [node[s] EXCEPT !.phase = p]
    <3>3. q \in Node /\ q.phase = p /\ node' = [node EXCEPT ![s] = q]
      BY <1>t, <3>2
    <3> HIDE DEF q
    <3> QED
      BY <1>t, <2>0, <3>1, <3>3
  <2>4. CASE BootInstaller(s)
    <3> DEFINE q == [node[s] EXCEPT !.phase = "installer", !.boots = @ + 1]
    <3>1. node[s].boots + 1 \in 0..MaxBoots
      BY <1>t, <2>4, InstallLoopAssumption DEF BootInstaller
    <3>2. q \in Node /\ q.phase = "installer" /\ node' = [node EXCEPT ![s] = q]
      BY <1>t, <2>4, <3>1 DEF BootInstaller
    <3> HIDE DEF q
    <3> QED
      BY <1>t, <2>0, <2>4, <3>2 DEF BootInstaller
  <2>5. CASE WithoutReply(s)
    <3> DEFINE p == IF node[s].phase = "phoning" THEN "phoning"
                    ELSE IF node[s].phase = "written" THEN AfterInstall(s) ELSE "off"
               q == [node[s] EXCEPT !.on = NoThread, !.phase = p]
    <3>0. p \in {node[s].phase, "off", "rebooting"}
      BY DEF AfterInstall
    <3>1. q \in Node /\ q.phase \in {node[s].phase, "off", "rebooting"}
      BY <1>t, <3>0
    <3>2. node' = [node EXCEPT ![s] = q] /\ UNCHANGED <<disk, tokens, installed>>
      BY <2>5 DEF WithoutReply
    <3> HIDE DEF q
    <3> QED
      BY <1>t, <2>0, <3>1, <3>2
  <2> QED
    BY <2>1, <2>2, <2>3, <2>4, <2>5 DEF ClientTimeout
<1>5. MachineTypes'
  BY <1>3, <1>4 DEF MachineIInv, MachineTypes
<1>6. \A z \in Serials : (job'[z].group => Stored(z)') /\ (nested'[z].cf.group => Stored(z)')
  BY <1>2, <1>3 DEF MachineIInv, Grows
<1> QED
  BY <1>2, <1>3, <1>4, <1>5, <1>6 DEF MachineIInv

(* The Install Node job of a nested VM. *)
LEMMA NewTyped ==
  /\ NewDevice \in CustomFields /\ ~NewDevice.group /\ NewDevice.state = "awaiting_install"
  /\ NoInstall \in Install /\ NoInstall.at = "none" /\ NoInstall.cf = NewDevice
  /\ NewDisk \in Disk /\ NewDisk.script = "none"
  /\ \A p \in Phases, b \in 0..MaxBoots :
       NewNode(p, b) \in Node /\ NewNode(p, b).phase = p /\ NewNode(p, b).on = NoThread
<1>0. 0 \in KeyOrNone /\ 0 \in TokenOrNone /\ 0 \in 0..Attempts
  BY KeyStoreAssumption, AnswerServiceAssumption, InstallLoopAssumption DEF KeyOrNone, TokenOrNone
<1>1. NewDevice \in CustomFields /\ ~NewDevice.group /\ NewDevice.state = "awaiting_install"
  BY DEF NewDevice, CustomFields, States
<1>2. NoInstall \in Install /\ NoInstall.at = "none" /\ NoInstall.cf = NewDevice
  BY <1>1 DEF NoInstall, Install
<1>3. NewDisk \in Disk /\ NewDisk.script = "none"
  BY <1>0 DEF NewDisk, Disk
<1>4. ASSUME NEW p \in Phases, NEW b \in 0..MaxBoots
      PROVE  NewNode(p, b) \in Node /\ NewNode(p, b).phase = p /\ NewNode(p, b).on = NoThread
  BY <1>0, <1>4 DEF NewNode, Node
<1> QED
  BY <1>1, <1>2, <1>3, <1>4

LEMMA Delivering ==
  ASSUME MachineIInv, SvcIInv, NEW s \in Serials,
         StartNested(s) \/ RecreateVm(s) \/ SaveVmid(s) \/ NestedDies(s)
  PROVE  SvcIInv' /\ Grows /\ MachineIInv'
<1>t. /\ device[s] \in CustomFields /\ (device[s].group => Stored(s))
      /\ nested \in [Serials -> Install] /\ nested[s].cf \in CustomFields
      /\ (nested[s].cf.group => Stored(s))
      /\ node \in [Serials -> Node] /\ disk \in [Serials -> Disk]
      /\ node[s].boots \in 0..MaxBoots
  BY DEF MachineIInv, MachineTypes, SvcIInv, SvcTypes, NamedGroupExists, Stored, Install, Node
<1>1. UNCHANGED <<req, vault, done, spent, faults, tokens, arms, installed, job>>
  BY DEF StartNested, RecreateVm, SaveVmid, NestedDies, keyVars, svcVars
<1>2. \/ device' = device
      \/ \E cf \in CustomFields : device' = [device EXCEPT ![s] = cf] /\ (cf.group => Stored(s))
  BY <1>t DEF StartNested, RecreateVm, SaveVmid, NestedDies, svcVars
<1>3. SvcIInv' /\ Grows
  BY <1>1, <1>2, Elsewhere DEF SvcIInv, SvcTypes
<1>4. \E i \in Install : /\ nested' = [nested EXCEPT ![s] = i]
                         /\ (i.cf.group => Stored(s)) /\ i.cf.state = "awaiting_install"
                         /\ i.at = "save" => disk'[s].script = "none"
  <2>1. CASE StartNested(s)
    <3> DEFINE i == [at |-> "deliver", cf |-> device[s]]
    <3>1. i \in Install /\ i.at # "save" /\ nested' = [nested EXCEPT ![s] = i]
      BY <1>t, <2>1 DEF Install, StartNested
    <3> QED
      BY <1>t, <2>1, <3>1 DEF StartNested
  <2>2. CASE RecreateVm(s)
    <3> DEFINE i == [nested[s] EXCEPT !.at = "save"]
    <3>1. i \in Install /\ i.cf = nested[s].cf
      BY <1>t DEF Install
    <3>2. /\ disk'[s].script = "none"
          /\ nested' = [nested EXCEPT ![s] = i] \/ nested' = [nested EXCEPT ![s] = NoInstall]
      BY <1>t, <2>2, NewTyped DEF RecreateVm
    <3>3. nested[s].cf.state = "awaiting_install"
      BY DEF MachineIInv
    <3> HIDE DEF i
    <3> QED
      BY <1>t, <3>1, <3>2, <3>3, NewTyped
  <2>3. CASE SaveVmid(s) \/ NestedDies(s)
    <3>1. nested' = [nested EXCEPT ![s] = NoInstall]
      BY <2>3 DEF SaveVmid, NestedDies
    <3> QED
      BY <3>1, NewTyped
  <2> QED
    BY <2>1, <2>2, <2>3
<1>5. \/ node' = node /\ disk' = disk
      \/ \E q \in Node : /\ node' = [node EXCEPT ![s] = q] /\ q.phase \in {"installer", "off"}
                         /\ disk' = [disk EXCEPT ![s] = NewDisk]
  <2>1. CASE RecreateVm(s)
    <3>1. PICK p \in {"installer", "off"}, b \in 0..MaxBoots : node' = [node EXCEPT ![s] = NewNode(p, b)]
      <4>1. node[s].boots < MaxBoots => node[s].boots + 1 \in 0..MaxBoots
        BY <1>t, InstallLoopAssumption
      <4> QED
        BY <1>t, <2>1, <4>1 DEF RecreateVm
    <3>2. p \in Phases
      BY DEF Phases
    <3>3. NewNode(p, b) \in Node /\ NewNode(p, b).phase = p
      BY <3>2, NewTyped
    <3> QED
      BY <2>1, <3>1, <3>3 DEF RecreateVm
  <2> QED
    BY <2>1 DEF StartNested, SaveVmid, NestedDies
<1>6. MachineTypes'
  <2>1. nested' \in [Serials -> Install]
    <3>1. nested \in [Serials -> Install] /\ \E i \in Install : nested' = [nested EXCEPT ![s] = i]
      BY <1>t, <1>4
    <3> QED
      BY <3>1
  <2>2. node' \in [Serials -> Node] /\ disk' \in [Serials -> Disk]
    BY <1>t, <1>5, NewTyped
  <2> QED
    BY <1>1, <2>1, <2>2 DEF MachineIInv, MachineTypes
<1>7. \A z \in Serials : /\ node'[z].phase = "phoning" => disk'[z].token # 0
                         /\ node'[z].phase \in {"booted", "phoning"} => disk'[z].script = "pending"
  BY <1>t, <1>5 DEF MachineIInv
<1>8. \A z \in Serials : z # s => disk'[z] = disk[z]
  BY <1>t, <1>5
<1>9. \A z \in Serials : /\ nested'[z].cf.group => Stored(z)
                         /\ nested'[z].cf.state = "awaiting_install"
                         /\ nested'[z].at = "save" => disk'[z].script = "none"
  <2>1. PICK i \in Install : /\ nested' = [nested EXCEPT ![s] = i]
                             /\ (i.cf.group => Stored(s)) /\ i.cf.state = "awaiting_install"
                             /\ i.at = "save" => disk'[s].script = "none"
    BY <1>4
  <2>2. nested'[s] = i /\ \A z \in Serials : z # s => nested'[z] = nested[z]
    <3>1. nested \in [Serials -> Install] /\ nested' = [nested EXCEPT ![s] = i]
      BY <1>t, <2>1
    <3> QED
      BY <3>1
  <2>3. TAKE z \in Serials
  <2>4. CASE z = s
    BY <2>1, <2>2, <2>4
  <2>5. CASE z # s
    BY <1>8, <2>2, <2>5 DEF MachineIInv
  <2> QED
    BY <2>4, <2>5
<1> QED
  BY <1>1, <1>3, <1>6, <1>7, <1>9 DEF MachineIInv, Grows, Stored

(* The operator, and the Host Baseline job. *)
LEMMA NoJobs == NoJob \notin CustomFields /\ ~NoJob.group
BY DEF NoJob, CustomFields, States

LEMMA Operating ==
  ASSUME MachineIInv, SvcIInv, NEW s \in Serials, Arm(s) \/ StartBaseline(s) \/ EndBaseline(s)
  PROVE  SvcIInv' /\ Grows /\ MachineIInv'
<1>t. /\ device \in [Serials -> CustomFields] /\ job \in [Serials -> CustomFields \union {NoJob}]
      /\ device[s] \in CustomFields /\ (device[s].group => Stored(s)) /\ (job[s].group => Stored(s))
  BY DEF MachineIInv, MachineTypes, SvcIInv, SvcTypes, NamedGroupExists, Stored
<1>1. UNCHANGED <<req, vault, done, spent, faults, node, disk, tokens, installed, nested>>
  BY DEF Arm, StartBaseline, EndBaseline, keyVars, svcVars
<1>2. \/ device' = device
      \/ \E cf \in CustomFields : device' = [device EXCEPT ![s] = cf] /\ (cf.group => Stored(s))
  <2>1. CASE Arm(s)
    <3> DEFINE cf == [device[s] EXCEPT !.state = "awaiting_install"]
    <3>1. cf \in CustomFields /\ (cf.group => device[s].group)
      BY <1>t DEF CustomFields, States
    <3>2. device' = [device EXCEPT ![s] = cf]
      BY <1>t, <2>1 DEF Arm
    <3> HIDE DEF cf
    <3> QED
      BY <1>t, <3>1, <3>2
  <2>2. CASE EndBaseline(s)
    <3> DEFINE cf == [job[s] EXCEPT !.state = "baseline_done"]
    <3>1. cf \in CustomFields /\ (cf.group => job[s].group)
      BY <1>t, <2>2 DEF EndBaseline, CustomFields, States
    <3>2. device' = device \/ device' = [device EXCEPT ![s] = cf]
      BY <2>2 DEF EndBaseline
    <3> HIDE DEF cf
    <3> QED
      BY <1>t, <3>1, <3>2
  <2>3. CASE StartBaseline(s)
    BY <2>3 DEF StartBaseline, svcVars
  <2> QED
    BY <2>1, <2>2, <2>3
<1>3. SvcIInv' /\ Grows
  BY <1>1, <1>2, Elsewhere DEF SvcIInv, SvcTypes
<1>4. arms' \in [Serials -> 1..MaxArms]
  <2>1. arms \in [Serials -> 1..MaxArms]
    BY DEF MachineIInv, MachineTypes
  <2> QED
    BY <2>1, InstallLoopAssumption DEF Arm, StartBaseline, EndBaseline
<1>5. /\ job' \in [Serials -> CustomFields \union {NoJob}]
      /\ \A z \in Serials : job'[z].group => Stored(z)
  <2>1. \/ job' = job
        \/ \E cf \in {NoJob, device[s]} : job' = [job EXCEPT ![s] = cf]
    BY DEF Arm, StartBaseline, EndBaseline
  <2>2. \A z \in Serials : job[z].group => Stored(z)
    BY DEF MachineIInv
  <2> QED
    BY <1>t, <2>1, <2>2, NoJobs
<1>6. MachineTypes'
  BY <1>1, <1>4, <1>5 DEF MachineIInv, MachineTypes
<1> QED
  BY <1>1, <1>3, <1>5, <1>6 DEF MachineIInv, Grows, Stored

-----------------------------------------------------------------------------
(* The loop uses the key store as it is specified. *)
LEMMA SaveKeys ==
  ASSUME KeyTypeOK, SvcTypes, NEW t \in Threads, NEW step, NEW purpose \in Purposes, SpendKey(t, step, purpose)
  PROVE  KeyNext
<1>1. req[t].serial \in Serials
  BY DEF SvcTypes, Request
<1>2. CASE LeaveSection(t)
  BY <1>2 DEF KeyNext
<1>3. CASE SaveConsumed(t, req[t].key, req[t].serial, purpose)
  <2>1. req[t].key \in Keys
    <3>1. [key |-> req[t].key, serial |-> req[t].serial, purpose |-> purpose] \in Entry
      BY <1>3 DEF SaveConsumed, Valid, KeyTypeOK
    <3> QED
      BY <3>1 DEF Entry
  <2> QED
    BY <1>1, <1>3, <2>1 DEF KeyNext
<1> QED
  BY <1>2, <1>3 DEF SpendKey

LEMMA ServeKeys ==
  ASSUME KeyTypeOK, SvcTypes, NEW t \in Threads, Serve(t)
  PROVE  [KeyNext]_keyVars
<1>t. req[t].serial \in Serials /\ \A p \in {"firstboot", "credentials", "webhook"} : p \in Purposes
  BY DEF SvcTypes, Request, Purposes
<1>1. ASSUME NEW p \in Purposes, SaveIssued(t, req[t].serial, p) PROVE KeyNext
  BY <1>t, <1>1 DEF KeyNext
<1>2. ASSUME LoadKeys(t) PROVE KeyNext
  BY <1>2 DEF KeyNext
<1>3. CASE Answer(t)
  BY <1>t, <1>1, <1>2, <1>3
     DEF Answer, AnswerRead, AnswerFirstbootKey, AnswerWebhookKey, EnterSection
<1>4. CASE Firstboot(t)
  BY <1>t, <1>1, <1>2, <1>4, SaveKeys
     DEF Firstboot, PeekKey, ReadDevice, FirstbootCredentialsKey, FirstbootSpend, EnterSection
<1>5. CASE Credentials(t)
  BY <1>t, <1>2, <1>5, SaveKeys
     DEF Credentials, PeekKey, ReadDevice, WriteTokenFiles, WriteSecretRecords, PatchCredentials,
         CredentialsSpend, EnterSection
<1>6. CASE Webhook(t)
  BY <1>t, <1>2, <1>6, SaveKeys
     DEF Webhook, PeekKey, ReadDevice, PatchWebhook, WebhookAlreadyKnown, WebhookSpend, EnterSection
<1> QED
  BY <1>3, <1>4, <1>5, <1>6 DEF Serve

LEMMA LoopKeys == KeyTypeOK /\ SvcTypes /\ [Next]_vars => [KeyNext]_keyVars
<1> SUFFICES ASSUME KeyTypeOK, SvcTypes, [Next]_vars PROVE [KeyNext]_keyVars
  OBVIOUS
<1>1. CASE UNCHANGED vars
  BY <1>1 DEF vars
<1>2. ASSUME NEW t \in Threads, Service(t) \/ DropReply(t) PROVE [KeyNext]_keyVars
  BY <1>2, ServeKeys DEF Service, DropReply, Free
<1>3. ASSUME NEW s \in Serials, Machine(s) PROVE UNCHANGED keyVars
  BY <1>3 DEF Machine, AskAnswer, GetAnswer, FetchScript, GetScript, PostWebhook, LeaveInstaller,
              PhoneHome, PhoneHomeReply, Post, Arrive, Free, WriteDisk, BootSystem, RotateToken,
              ScriptFails, ConnectionReset
<1>4. ASSUME NEW s \in Serials,
             \/ ClientTimeout(s) \/ PowerLoss(s) \/ PowerOn(s)
             \/ BootInstaller(s) \/ Arm(s) \/ StartBaseline(s) \/ EndBaseline(s)
             \/ StartNested(s) \/ RecreateVm(s) \/ SaveVmid(s) \/ NestedDies(s)
      PROVE  UNCHANGED keyVars
  BY <1>4 DEF ClientTimeout, TimesOut, PowerLoss, PowerOn, BootInstaller, Arm, StartBaseline, EndBaseline,
              StartNested, RecreateVm, SaveVmid, NestedDies
<1>5. ASSUME ServiceFault PROVE [KeyNext]_keyVars
  BY <1>5 DEF ServiceFault, Breaks, NautobotFails, SotRefuses, KeyWriteFails, Restart, TtlElapses, KeyNext
<1> QED
  BY <1>1, <1>2, <1>3, <1>4, <1>5 DEF Next

-----------------------------------------------------------------------------
(* The inductive invariant of the loop, beside that of the store. *)
LoopIInv == KeyTypeOK /\ SvcIInv /\ MachineIInv

LEMMA LoopIInvInit == LoopInit => LoopIInv
<1> SUFFICES ASSUME LoopInit PROVE LoopIInv
  OBVIOUS
<1>0. 0 \in KeyOrNone /\ 0 \in TokenOrNone
  BY KeyStoreAssumption, AnswerServiceAssumption DEF KeyOrNone, TokenOrNone
<1>1. KeyTypeOK
  BY KeyTypeInit DEF LoopInit, SvcInit
<1>2. SvcTypes
  <2>1. NewDevice \in CustomFields
    BY DEF NewDevice, CustomFields, States
  <2>2. [token |-> 0, recorded |-> FALSE] \in Vault
    BY <1>0 DEF Vault
  <2> QED
    BY <2>1, <2>2, FreeTyped, AnswerServiceAssumption DEF LoopInit, SvcInit, SvcTypes
<1>3. \A t \in Threads : Earned(t)
  BY FreeTyped DEF LoopInit, SvcInit, Earned, SpendSteps, CredSteps
<1>4. SpentAfterEffect /\ NamedGroupExists
  BY DEF LoopInit, SvcInit, KeyInit, SpentAfterEffect, NamedGroupExists, NewDevice
<1>5. MachineTypes
  <2>1. NewNode("off", 0) \in Node
    BY NewTyped, InstallLoopAssumption DEF Phases
  <2>3. 1 \in 1..MaxArms /\ 0 \in 0..MaxArms
    BY InstallLoopAssumption
  <2> QED
    BY <1>0, <2>1, <2>3, NewTyped DEF LoopInit, MachineTypes
<1>6. \A s \in Serials : node[s].phase \notin {"booted", "phoning"} /\ ~job[s].group /\ nested[s] = NoInstall
  <2>1. \A s \in Serials : node[s].phase = "off"
    BY NewTyped, InstallLoopAssumption DEF LoopInit, Phases
  <2> QED
    BY <2>1, NoJobs DEF LoopInit
<1> QED
  BY <1>1, <1>2, <1>3, <1>4, <1>5, <1>6, NewTyped DEF LoopIInv, SvcIInv, MachineIInv

LEMMA LoopIInvStep == LoopIInv /\ [Next]_vars => LoopIInv'
<1> SUFFICES ASSUME LoopIInv, [Next]_vars PROVE LoopIInv'
  OBVIOUS
<1>k. KeyTypeOK'
  BY LoopKeys, KeyTypeStep DEF LoopIInv, SvcIInv
<1>i. KeyTypeOK /\ SvcIInv /\ MachineIInv
  BY DEF LoopIInv
<1>1. CASE UNCHANGED vars
  <2>1. SvcIInv'
    BY <1>1, <1>i DEF vars, keyVars, svcVars, SvcIInv, SvcTypes, Earned, Stored, SpentAfterEffect, NamedGroupExists
  <2>2. MachineIInv'
    BY <1>1, <1>i DEF vars, svcVars, loopVars, MachineIInv, MachineTypes, Stored
  <2> QED
    BY <1>k, <2>1, <2>2 DEF LoopIInv
<1>2. ASSUME NEW t \in Threads, Service(t) PROVE SvcIInv' /\ MachineIInv'
  BY <1>i, <1>2, AnswerStep, FirstbootStep, CredentialsStep, WebhookStep, MachinesRest DEF Service, Serve
<1>3. ASSUME NEW t \in Threads, DropReply(t) PROVE SvcIInv' /\ MachineIInv'
  BY <1>i, <1>3, Taking, MachinesRest DEF DropReply
<1>4. ASSUME NEW s \in Serials, Machine(s) PROVE SvcIInv' /\ MachineIInv'
  BY <1>i, <1>4, Installing, PhoningHome, OnItsOwn DEF Machine
<1>5. ASSUME NEW s \in Serials,
             \/ ClientTimeout(s) \/ PowerLoss(s) \/ PowerOn(s)
             \/ BootInstaller(s) \/ Arm(s) \/ StartBaseline(s) \/ EndBaseline(s)
             \/ StartNested(s) \/ RecreateVm(s) \/ SaveVmid(s) \/ NestedDies(s)
      PROVE  SvcIInv' /\ MachineIInv'
  BY <1>i, <1>5, OnItsOwn, Operating, Delivering
<1>6. ASSUME ServiceFault PROVE SvcIInv' /\ MachineIInv'
  BY <1>i, <1>6, BreakStep, RestartStep, MachinesRest DEF ServiceFault
<1> QED
  BY <1>k, <1>1, <1>2, <1>3, <1>4, <1>5, <1>6 DEF LoopIInv, Next

-----------------------------------------------------------------------------
(* Types, of the store, the service and the machines. *)
THEOREM LoopTypeOKHolds == Spec => []LoopTypeOK
<1>1. LoopIInv => LoopTypeOK
  BY DEF LoopIInv, SvcIInv, SvcTypes, MachineIInv, MachineTypes, LoopTypeOK, SvcTypeOK
<1> QED
  BY <1>1, LoopIInvInit, LoopIInvStep, PTL DEF Spec

(* The handlers, failures and restarts of the service, with the machines   *)
(* that send the requests, are a behaviour of the key store.               *)
THEOREM LoopUsesStore == Spec => KeySpec
<1>1. LoopInit => KeyInit
  BY DEF LoopInit, SvcInit
<1>2. LoopIInv /\ [Next]_vars => [KeyNext]_keyVars
  BY LoopKeys DEF LoopIInv, SvcIInv
<1> QED
  BY <1>1, <1>2, LoopIInvInit, LoopIInvStep, PTL DEF Spec, KeySpec

(* A key that went out in an answer or a script is lost by no concurrent   *)
(* write and no restart, as long as the file can be read; a spent one      *)
(* never returns.                                                          *)
THEOREM LoopKeysDurable == Spec => []KeyLossInv
BY LoopUsesStore, KeysDurable, PTL

(* "Everything durable - only now is the one-time key spent" (app.py:1092): *)
(* a key is spent only after its step's effect.                            *)
THEOREM SpentAfterEffectHolds == Spec => []SpentAfterEffect
<1>1. LoopIInv => SpentAfterEffect
  BY DEF LoopIInv, SvcIInv
<1> QED
  BY <1>1, LoopIInvInit, LoopIInvStep, PTL DEF Spec

(* A Device whose secrets_group is set names a group that exists, over     *)
(* token files that were written (the files, then the Secrets and their    *)
(* group, then the PATCH of the Device: app.py:1035-1090), whoever writes  *)
(* its own copy of the fields back.                                        *)
THEOREM NamedGroupExistsHolds == Spec => []NamedGroupExists
<1>1. LoopIInv => NamedGroupExists
  BY DEF LoopIInv, SvcIInv
<1> QED
  BY <1>1, LoopIInvInit, LoopIInvStep, PTL DEF Spec

(* Who writes a Device, and with which state. *)
LEMMA StateChanges ==
  ASSUME LoopIInv, [Next]_vars, NEW s \in Serials, device'[s].state = "awaiting_install"
  PROVE  device'[s].state = device[s].state \/ Arm(s) \/ SaveVmid(s)
<1>t. device \in [Serials -> CustomFields]
  BY DEF LoopIInv, SvcIInv, SvcTypes
<1>1. CASE UNCHANGED device
  BY <1>1
<1>2. ASSUME NEW t \in Threads, PatchCredentials(t) \/ PatchWebhook(t)
      PROVE  device'[s].state = device[s].state
  <2>1. req[t].cf \in CustomFields /\ req[t].serial \in Serials
    BY DEF LoopIInv, SvcIInv, SvcTypes, Request
  <2>2. \E cf \in CustomFields :
          device' = [device EXCEPT ![req[t].serial] = cf] /\ cf.state # "awaiting_install"
    BY <1>2, <2>1, FieldsTyped DEF PatchCredentials, PatchWebhook
  <2> QED
    BY <1>t, <2>1, <2>2
<1>3. ASSUME NEW z \in Serials, Arm(z) PROVE device'[s].state = device[s].state \/ Arm(s)
  BY <1>t, <1>3 DEF Arm
<1>4. ASSUME NEW z \in Serials, EndBaseline(z) PROVE device'[s].state = device[s].state
  <2>1. CASE UNCHANGED device
    BY <2>1
  <2>2. CASE job[z].state = "bm_installed" /\ device' = [device EXCEPT ![z] = [job[z] EXCEPT !.state = "baseline_done"]]
    <3>1. job[z] \in CustomFields
      BY <1>4 DEF EndBaseline, LoopIInv, MachineIInv, MachineTypes
    <3>2. [job[z] EXCEPT !.state = "baseline_done"].state = "baseline_done"
      BY <3>1 DEF CustomFields
    <3> QED
      BY <1>t, <2>2, <3>2
  <2> QED
    BY <1>4, <2>1, <2>2 DEF EndBaseline
<1>5. ASSUME NEW t \in Threads, Service(t) PROVE UNCHANGED device \/ PatchCredentials(t) \/ PatchWebhook(t)
  BY <1>5 DEF Service, Serve, Answer, AnswerRead, AnswerFirstbootKey, AnswerWebhookKey, EnterSection,
     Firstboot, PeekKey, ReadDevice, FirstbootCredentialsKey, FirstbootSpend, SpendKey,
     Credentials, WriteTokenFiles, WriteSecretRecords, CredentialsSpend,
     Webhook, WebhookAlreadyKnown, WebhookSpend
<1>10. ASSUME NEW z \in Serials, SaveVmid(z) PROVE device'[s].state = device[s].state \/ SaveVmid(s)
  BY <1>t, <1>10 DEF SaveVmid
<1>6. ASSUME NEW z \in Serials,
             \/ Machine(z) \/ ClientTimeout(z) \/ PowerLoss(z) \/ BootInstaller(z) \/ StartBaseline(z)
             \/ PowerOn(z) \/ StartNested(z) \/ RecreateVm(z) \/ NestedDies(z)
      PROVE  UNCHANGED device
  BY <1>6 DEF Machine, AskAnswer, GetAnswer, FetchScript, GetScript, PostWebhook, LeaveInstaller,
     PhoneHome, PhoneHomeReply, Post, Arrive, Free, WriteDisk, BootSystem, RotateToken,
     ScriptFails, ConnectionReset, ClientTimeout, TimesOut, PowerLoss, BootInstaller, StartBaseline,
     PowerOn, StartNested, RecreateVm, NestedDies, svcVars
<1>7. ASSUME ServiceFault PROVE UNCHANGED device
  BY <1>7 DEF ServiceFault, Breaks, NautobotFails, SotRefuses, KeyWriteFails, Restart, TtlElapses
<1>8. ASSUME NEW t \in Threads, DropReply(t) PROVE UNCHANGED device
  BY <1>8 DEF DropReply, Free
<1>9. CASE UNCHANGED vars
  BY <1>9 DEF vars, svcVars
<1> QED
  BY <1>1, <1>2, <1>3, <1>4, <1>5, <1>6, <1>7, <1>8, <1>9, <1>10 DEF Next

(* The gate of a machine that has been installed is opened by the operator *)
(* alone; the Install Node job's save of a vmid opens it too, but only     *)
(* over a nested VM that the job has just made, with an empty disk.        *)
THEOREM InstalledStaysClosedHolds == Spec => InstalledStaysClosed
<1>1. LoopIInv /\ [Next]_vars =>
        [\A s \in Serials :
           device[s].state # "awaiting_install" /\ device'[s].state = "awaiting_install"
             => Arm(s) \/ (SaveVmid(s) /\ disk[s].script = "none")]_vars
  BY StateChanges DEF SaveVmid, LoopIInv, MachineIInv
<1> QED
  BY <1>1, LoopIInvInit, LoopIInvStep, PTL DEF Spec, InstalledStaysClosed

-----------------------------------------------------------------------------
(* Where a request is, and what it has.  A handler goes through its own    *)
(* steps, in order.                                                        *)
TokenSteps == {"cr_peek", "cr_read", "cr_files"}

Ok(t) == At(t, "replied") /\ req[t].out = "ok"

Moves(t) ==
  /\ req'[t].serial = req[t].serial /\ req'[t].token = req[t].token
  /\ req[t].at \in CredSteps => req'[t].at \in CredSteps \union {"replied"}
  /\ req'[t].at \in CredSteps \union WebhookSteps => req[t].at \in CredSteps \union WebhookSteps
  /\ req'[t].at \in CredSteps => req[t].at \in CredSteps
  /\ req'[t].at \in TokenSteps => req[t].at \in TokenSteps
  /\ req'[t].at = "cr_records" => WriteTokenFiles(t)
  /\ req'[t].at = "cr_patch" => WriteSecretRecords(t)
  /\ req'[t].at = "cr_spend" => PatchCredentials(t)
  /\ req'[t].at = "cr_spend_save" => At(t, "cr_spend")
  /\ Ok(t)' /\ req[t].at \in CredSteps => At(t, "cr_spend_save")
  /\ req[t].at \notin Steps => req'[t].at = "replied" /\ ~Ok(t)'

LEMMA Stepping ==
  ASSUME req \in [Threads -> Request], NEW t \in Threads, NEW b \in Steps \union {"free", "replied"},
         Goto(t, b) \/ \E o \in Outcomes : Reply(t, o) /\ b = "replied"
  PROVE  /\ Only(t) /\ req'[t].at = b
         /\ req'[t].serial = req[t].serial /\ req'[t].token = req[t].token
BY Going, Replying DEF Same

LEMMA Outcome ==
  ASSUME req \in [Threads -> Request], NEW t \in Threads, NEW o \in Outcomes, Reply(t, o)
  PROVE  req'[t].out = o
BY DEF Reply, Request

(* A key is minted, and the request goes on with it. *)
LEMMA Minting ==
  ASSUME KeyTypeOK, req \in [Threads -> Request], NEW t \in Threads, NEW s, NEW p, SaveIssued(t, s, p),
         NEW b \in Steps \union {"replied"},
         \/ req' = [req EXCEPT ![t].at = b, ![t].key = issued + 1]
         \/ req' = [req EXCEPT ![t].at = b, ![t].new = issued + 1]
         \/ req' = [req EXCEPT ![t].at = b, ![t].out = "ok", ![t].new = issued + 1]
  PROVE  /\ Only(t) /\ req'[t].at = b
         /\ req'[t].serial = req[t].serial /\ req'[t].token = req[t].token
<1>1. issued + 1 \in KeyOrNone /\ req[t] \in Request
  BY Minted
<1> DEFINE k == [req[t] EXCEPT !.at = b, !.key = issued + 1]
           n == [req[t] EXCEPT !.at = b, !.new = issued + 1]
           o == [req[t] EXCEPT !.at = b, !.out = "ok", !.new = issued + 1]
           Fits(q) == q \in Request /\ q.at = b /\ q.serial = req[t].serial /\ q.token = req[t].token
<1>k. Fits(k)
  BY <1>1 DEF Request
<1>n. Fits(n)
  BY <1>1 DEF Request
<1>o. Fits(o)
  BY <1>1 DEF Request, Outcomes
<1>3. req' = [req EXCEPT ![t] = k] \/ req' = [req EXCEPT ![t] = n] \/ req' = [req EXCEPT ![t] = o]
  OBVIOUS
<1> HIDE DEF k, n, o
<1> QED
  BY <1>k, <1>n, <1>o, <1>3 DEF Only

LEMMA ServiceMoves ==
  ASSUME KeyTypeOK, SvcTypes, NEW t \in Threads, Serve(t) \/ Breaks(t)
  PROVE  Only(t) /\ Moves(t)
<1>t. req \in [Threads -> Request]
  BY DEF SvcTypes
<1> DEFINE To(b) == Only(t) /\ req'[t].at = b /\ req'[t].serial = req[t].serial /\ req'[t].token = req[t].token
<1>g. ASSUME NEW b \in Steps, Goto(t, b) PROVE To(b)
  BY <1>t, <1>g, Stepping
<1>r. ASSUME NEW o \in Outcomes, Reply(t, o) PROVE To("replied") /\ req'[t].out = o
  BY <1>t, <1>r, Stepping, Outcome
<1>o. "ok" \in Outcomes /\ "error" \in Outcomes /\ "refused" \in Outcomes /\ "ok" # "error" /\ "ok" # "refused"
  BY DEF Outcomes
<1>p. ASSUME NEW step, NEW purpose, NEW next \in Steps, PeekKey(t, step, purpose, next)
      PROVE  req[t].at = step /\ (To(next) \/ (To("replied") /\ req'[t].out # "ok"))
  BY <1>p, <1>g, <1>r, <1>o DEF PeekKey, At
<1>d. ASSUME NEW step, NEW next \in Steps, ReadDevice(t, step, next) PROVE req[t].at = step /\ To(next)
  <2>1. req[t].serial \in Serials /\ device[req[t].serial] \in CustomFields
    BY DEF SvcTypes, Request
  <2> DEFINE q == [req[t] EXCEPT !.at = next, !.cf = device[req[t].serial]]
  <2>2. /\ q \in Request /\ q.at = next /\ q.serial = req[t].serial /\ q.token = req[t].token
    BY <1>t, <2>1 DEF Request
  <2>3. req' = [req EXCEPT ![t] = q]
    BY <1>d, <1>t DEF ReadDevice
  <2> HIDE DEF q
  <2> QED
    BY <1>d, <1>t, <2>2, <2>3 DEF Only, ReadDevice, At
<1>e. ASSUME NEW step, NEW next \in Steps, EnterSection(t, step, next) PROVE req[t].at = step /\ To(next)
  BY <1>e, <1>g DEF EnterSection, At
<1>s. ASSUME NEW step, NEW purpose, SpendKey(t, step, purpose) PROVE req[t].at = step /\ To("replied")
  BY <1>s, <1>r, <1>o DEF SpendKey, At
<1> USE DEF Steps, AnswerSteps, ScriptSteps, CredSteps, WebhookSteps
<1>1. CASE Answer(t)
  <2>1. CASE AnswerRead(t)
    <3>1. req[t].at = "ans_read" /\ (Goto(t, "ans_fb") \/ Reply(t, "refused"))
      BY <2>1 DEF AnswerRead, At
    <3>2. req[t].at \in AnswerSteps /\ (To("ans_fb") \/ To("replied"))
      BY <1>g, <1>r, <1>o, <3>1
    <3> QED
      BY <3>2 DEF Moves, TokenSteps
  <2>2. CASE EnterSection(t, "ans_fb", "ans_fb_save") \/ EnterSection(t, "ans_wh", "ans_wh_save")
    <3>1. req[t].at \in AnswerSteps /\ (To("ans_fb_save") \/ To("ans_wh_save"))
      BY <1>e, <2>2
    <3> QED
      BY <3>1 DEF Moves, TokenSteps
  <2>3. CASE ~AnswerRead(t) /\ ~EnterSection(t, "ans_fb", "ans_fb_save") /\ ~EnterSection(t, "ans_wh", "ans_wh_save")
    <3>1. req[t].at \in AnswerSteps /\ (To("ans_wh") \/ To("replied"))
      BY <1>1, <1>t, <2>3, Minting DEF Answer, AnswerFirstbootKey, AnswerWebhookKey, At
    <3> QED
      BY <3>1 DEF Moves, TokenSteps
  <2> QED
    BY <2>1, <2>2, <2>3
<1>2. CASE Firstboot(t)
  <2>1. /\ req[t].at \in ScriptSteps
        /\ \E b \in ScriptSteps \union {"replied"} : To(b)
    <3>1. CASE PeekKey(t, "fb_peek", "firstboot", "fb_read")
      BY <1>p, <3>1
    <3>2. CASE ReadDevice(t, "fb_read", "fb_cred")
      BY <1>d, <3>2
    <3>3. CASE EnterSection(t, "fb_cred", "fb_cred_save") \/ EnterSection(t, "fb_spend", "fb_spend_save")
      BY <1>e, <3>3
    <3>4. CASE SpendKey(t, "fb_spend_save", "firstboot")
      BY <1>s, <3>4
    <3>5. CASE At(t, "fb_cred_save") /\ SaveIssued(t, req[t].serial, "credentials")
               /\ req' = [req EXCEPT ![t].at = "fb_spend", ![t].new = issued + 1]
      BY <1>t, <3>5, Minting DEF At
    <3> QED
      BY <1>2, <3>1, <3>2, <3>3, <3>4, <3>5 DEF Firstboot, FirstbootCredentialsKey, FirstbootSpend
  <2> QED
    BY <2>1 DEF Moves, TokenSteps
<1>3. CASE Credentials(t)
  <2> USE DEF Moves, TokenSteps, Ok, At
  <2>1. CASE PeekKey(t, "cr_peek", "credentials", "cr_read")
    BY <1>p, <2>1
  <2>2. CASE ReadDevice(t, "cr_read", "cr_files")
    BY <1>d, <2>2
  <2>3. CASE WriteTokenFiles(t)
    <3>1. req[t].at = "cr_files" /\ To("cr_records")
      BY <1>g, <2>3 DEF WriteTokenFiles
    <3> QED
      BY <2>3, <3>1
  <2>4. CASE WriteSecretRecords(t)
    <3>1. req[t].at = "cr_records" /\ To("cr_patch")
      BY <1>g, <2>4 DEF WriteSecretRecords
    <3> QED
      BY <2>4, <3>1
  <2>5. CASE PatchCredentials(t)
    <3>1. req[t].at = "cr_patch" /\ (To("cr_spend") \/ (To("replied") /\ req'[t].out # "ok"))
      BY <1>g, <1>r, <1>o, <2>5 DEF PatchCredentials
    <3> QED
      BY <2>5, <3>1
  <2>6. CASE EnterSection(t, "cr_spend", "cr_spend_save")
    BY <1>e, <2>6
  <2>7. CASE SpendKey(t, "cr_spend_save", "credentials")
    BY <1>s, <2>7
  <2> QED
    BY <1>3, <2>1, <2>2, <2>3, <2>4, <2>5, <2>6, <2>7 DEF Credentials, CredentialsSpend
<1>4. CASE Webhook(t)
  <2>1. /\ req[t].at \in WebhookSteps
        /\ \E b \in WebhookSteps \union {"replied"} : To(b)
    <3>1. CASE PeekKey(t, "wh_peek", "webhook", "wh_read")
      BY <1>p, <3>1
    <3>2. CASE ReadDevice(t, "wh_read", "wh_patch")
      BY <1>d, <3>2
    <3>3. CASE PatchWebhook(t)
      BY <1>g, <1>r, <1>o, <3>3 DEF PatchWebhook, At
    <3>4. CASE WebhookAlreadyKnown(t)
      BY <1>g, <3>4 DEF WebhookAlreadyKnown, At
    <3>5. CASE EnterSection(t, "wh_spend", "wh_spend_save")
      BY <1>e, <3>5
    <3>6. CASE SpendKey(t, "wh_spend_save", "webhook")
      BY <1>s, <3>6
    <3> QED
      BY <1>4, <3>1, <3>2, <3>3, <3>4, <3>5, <3>6 DEF Webhook, WebhookSpend
  <2> QED
    BY <2>1 DEF Moves, TokenSteps
<1>5. CASE Breaks(t)
  <2>1. Reply(t, "error") \/ Reply(t, "refused")
    BY <1>5 DEF Breaks, NautobotFails, SotRefuses, KeyWriteFails
  <2>2. To("replied") /\ req'[t].out # "ok"
    BY <1>r, <1>o, <2>1
  <2> QED
    BY <2>2 DEF Moves, TokenSteps, Ok, At
<1> QED
  BY <1>1, <1>2, <1>3, <1>4, <1>5 DEF Serve

(* What a handler does to what outlives it. *)
LEMMA ServeEffects ==
  ASSUME SvcTypes, NEW t \in Threads, Serve(t) \/ Breaks(t), NEW s \in Serials
  PROVE  /\ \/ vault'[s].token = vault[s].token
            \/ s = req[t].serial /\ req[t].at = "cr_files" /\ vault'[s].token = req[t].token
         /\ vault[s].recorded => vault'[s].recorded
         /\ WriteTokenFiles(t) /\ s = req[t].serial => vault'[s].token = req[t].token
         /\ WriteSecretRecords(t) => vault'[s].token = vault[s].token
         /\ WriteSecretRecords(t) /\ s = req[t].serial => vault'[s].recorded
         /\ ~WriteTokenFiles(t) /\ ~WriteSecretRecords(t) => vault' = vault
         /\ \/ device'[s].state = device[s].state
            \/ /\ s = req[t].serial /\ req[t].at \in CredSteps \union WebhookSteps
               /\ device'[s].state # "awaiting_install"
         /\ PatchCredentials(t) /\ s = req[t].serial => device'[s].state # "awaiting_install"
<1>t. /\ device \in [Serials -> CustomFields] /\ vault \in [Serials -> Vault]
      /\ req[t].cf \in CustomFields /\ req[t].serial \in Serials
  BY DEF SvcTypes, Request
<1>1. CASE WriteTokenFiles(t)
  <2>1. req[t].at = "cr_files" /\ device' = device
    BY <1>1 DEF WriteTokenFiles, At
  <2>2. /\ s = req[t].serial => vault'[s].token = req[t].token
        /\ s # req[t].serial => vault'[s] = vault[s]
        /\ vault'[s].recorded = vault[s].recorded
    BY <1>1, <1>t DEF WriteTokenFiles, Vault
  <2> QED
    BY <1>1, <2>1, <2>2 DEF WriteSecretRecords, PatchCredentials, At
<1>2. CASE WriteSecretRecords(t)
  <2>1. req[t].at = "cr_records" /\ device' = device
    BY <1>2 DEF WriteSecretRecords, At
  <2>2. /\ s = req[t].serial => vault'[s].recorded
        /\ s # req[t].serial => vault'[s] = vault[s]
        /\ vault'[s].token = vault[s].token
    BY <1>2, <1>t DEF WriteSecretRecords, Vault
  <2> QED
    BY <1>2, <2>1, <2>2 DEF WriteTokenFiles, PatchCredentials, At
<1>3. CASE PatchCredentials(t) \/ PatchWebhook(t)
  <2>1. req[t].at \in {"cr_patch", "wh_patch"} /\ vault' = vault
    BY <1>3 DEF PatchCredentials, PatchWebhook, At
  <2>2. \E cf \in CustomFields :
          device' = [device EXCEPT ![req[t].serial] = cf] /\ cf.state # "awaiting_install"
    BY <1>3, <1>t, FieldsTyped DEF PatchCredentials, PatchWebhook
  <2>3. /\ s = req[t].serial => device'[s].state # "awaiting_install"
        /\ s # req[t].serial => device'[s].state = device[s].state
    BY <1>t, <2>2
  <2> QED
    BY <2>1, <2>3 DEF WriteTokenFiles, WriteSecretRecords, CredSteps, WebhookSteps, At
<1>4. CASE ~WriteTokenFiles(t) /\ ~WriteSecretRecords(t) /\ ~PatchCredentials(t) /\ ~PatchWebhook(t)
  <2>1. UNCHANGED <<device, vault>>
    BY <1>4 DEF Serve, Answer, AnswerRead, AnswerFirstbootKey, AnswerWebhookKey, EnterSection,
       Firstboot, PeekKey, ReadDevice, FirstbootCredentialsKey, FirstbootSpend, SpendKey,
       Credentials, CredentialsSpend, Webhook, WebhookAlreadyKnown, WebhookSpend,
       Breaks, NautobotFails, SotRefuses, KeyWriteFails
  <2> QED
    BY <1>4, <2>1
<1> QED
  BY <1>1, <1>2, <1>3, <1>4

(* What a client's step does to the requests: posts one, or frees one. *)
LEMMA ClientSteps ==
  ASSUME LoopIInv, NEW s \in Serials, NEW t \in Threads,
         \/ AskAnswer(s, t) \/ GetAnswer(s, t) \/ FetchScript(s, t) \/ GetScript(s, t)
         \/ PostWebhook(s, t) \/ LeaveInstaller(s, t) \/ PhoneHome(s, t) \/ PhoneHomeReply(s, t)
  PROVE  /\ Only(t)
         /\ \/ req'[t] = FreeRequest /\ node[s].on = t
            \/ /\ req'[t].at \in {"ans_read", "fb_peek", "wh_peek", "cr_peek"}
               /\ req'[t].serial = s /\ Unattended(t)
               /\ req'[t].at = "wh_peek" => node[s].phase = "written"
               /\ req'[t].at = "cr_peek" => node[s].phase = "phoning" /\ req'[t].token = disk[s].token
<1>t. /\ req \in [Threads -> Request] /\ node[s].fbKey \in KeyOrNone /\ node[s].whKey \in KeyOrNone
      /\ disk[s].credKey \in KeyOrNone /\ disk[s].token \in TokenOrNone
      /\ 0 \in KeyOrNone /\ 0 \in TokenOrNone
  BY KeyStoreAssumption, AnswerServiceAssumption
     DEF LoopIInv, SvcIInv, SvcTypes, MachineIInv, MachineTypes, Node, Disk, KeyOrNone, TokenOrNone
<1>1. ASSUME NEW first \in {"ans_read", "fb_peek", "wh_peek", "cr_peek"},
             NEW k \in KeyOrNone, NEW tok \in TokenOrNone, Post(s, t, first, k, tok)
      PROVE  /\ Only(t) /\ req'[t].at = first /\ req'[t].serial = s /\ req'[t].token = tok /\ Unattended(t)
  <2>1. first \in Steps
    BY DEF Steps, AnswerSteps, ScriptSteps, CredSteps, WebhookSteps
  <2> QED
    BY <1>1, <1>t, <2>1, Arriving DEF Post
<1>2. CASE AskAnswer(s, t)
  BY <1>1, <1>2, <1>t DEF AskAnswer
<1>3. CASE FetchScript(s, t)
  BY <1>1, <1>3, <1>t DEF FetchScript
<1>4. CASE PostWebhook(s, t)
  BY <1>1, <1>4, <1>t DEF PostWebhook
<1>5. CASE PhoneHome(s, t)
  BY <1>1, <1>5, <1>t DEF PhoneHome
<1>6. CASE GetAnswer(s, t) \/ GetScript(s, t) \/ LeaveInstaller(s, t) \/ PhoneHomeReply(s, t)
  BY <1>6, <1>t, Freeing DEF GetAnswer, GetScript, LeaveInstaller, PhoneHomeReply, TakesReply
<1> QED
  BY <1>2, <1>3, <1>4, <1>5, <1>6

-----------------------------------------------------------------------------
(* What a machine does to itself. *)
OwnStep(s) ==
  \/ Machine(s) \/ ClientTimeout(s) \/ PowerLoss(s)
  \/ BootInstaller(s) \/ PowerOn(s) \/ RecreateVm(s)

LEMMA OthersRest ==
  ASSUME LoopIInv, [Next]_vars, NEW s \in Serials, ~OwnStep(s)
  PROVE  node'[s] = node[s] /\ disk'[s] = disk[s] /\ installed'[s] = installed[s]
<1>t. /\ node \in [Serials -> Node] /\ disk \in [Serials -> Disk]
      /\ installed \in [Serials -> 0..MaxArms]
  BY DEF LoopIInv, MachineIInv, MachineTypes
<1>1. ASSUME NEW z \in Serials, z # s, OwnStep(z)
      PROVE  node'[s] = node[s] /\ disk'[s] = disk[s] /\ installed'[s] = installed[s]
  BY <1>1, <1>t DEF OwnStep, Machine, AskAnswer, GetAnswer, FetchScript, GetScript, PostWebhook,
     LeaveInstaller, PhoneHome, PhoneHomeReply, WriteDisk, BootSystem, RotateToken, ScriptFails,
     WithoutReply, ClientTimeout, PowerLoss, BootInstaller, PowerOn, RecreateVm
<1>2. CASE \/ \E t \in Threads : Service(t) \/ DropReply(t)
           \/ \E z \in Serials : \/ Arm(z) \/ StartBaseline(z) \/ EndBaseline(z)
                                \/ StartNested(z) \/ SaveVmid(z) \/ NestedDies(z)
           \/ ServiceFault \/ UNCHANGED vars
  BY <1>2 DEF Service, DropReply, Arm, StartBaseline, EndBaseline, StartNested, SaveVmid, NestedDies,
     ServiceFault, vars, loopVars
<1> QED
  BY <1>1, <1>2 DEF Next, OwnStep

LEMMA OwnMoves ==
  ASSUME LoopIInv, NEW s \in Serials, OwnStep(s)
  PROVE  /\ UNCHANGED <<device, vault, arms, job>>
         /\ \/ /\ disk'[s] = disk[s] /\ installed'[s] = installed[s]
               /\ node'[s].phase \notin {"written", "booted", "phoning"}
               /\ node'[s].phase \in {"off", "rebooting"} => node'[s].on = NoThread
            \/ /\ disk'[s] = disk[s] /\ installed'[s] = installed[s]
               /\ node[s].phase = "off" /\ node'[s].phase = "rebooting" /\ node'[s].on = node[s].on
            \/ /\ disk'[s] = NewDisk /\ installed'[s] = installed[s]
               /\ node'[s].phase \in {"installer", "off"} /\ node'[s].on = NoThread
            \/ /\ disk'[s] = disk[s] /\ installed'[s] = installed[s]
               /\ node[s].phase \in {"written", "phoning"} /\ node'[s].phase = node[s].phase
               /\ \/ node'[s].on = NoThread
                  \/ \E t \in Threads : node'[s].on = t /\ (PostWebhook(s, t) \/ PhoneHome(s, t))
            \/ /\ disk'[s].script = "pending" /\ installed'[s] = arms[s] /\ node'[s].phase = "written"
            \/ /\ disk'[s] = disk[s] /\ installed'[s] = installed[s] /\ disk[s].script = "pending"
               /\ node[s].phase = "rebooting" /\ node'[s].phase = "booted" /\ node'[s].on = node[s].on
               /\ Settled(s) /\ req' = req
            \/ /\ disk'[s].script = disk[s].script /\ installed'[s] = installed[s]
               /\ node[s].phase = "booted" /\ node'[s].phase = "phoning" /\ node'[s].on = node[s].on
               /\ req' = req
            \/ /\ disk'[s].token = disk[s].token /\ disk'[s].script = "complete" /\ installed'[s] = installed[s]
               /\ node[s].phase = "phoning" /\ node'[s].phase = "off" /\ node'[s].on = NoThread
               /\ \E t \in Threads : node[s].on = t /\ Ok(t)
<1>t. /\ node \in [Serials -> Node] /\ disk \in [Serials -> Disk]
      /\ installed \in [Serials -> 0..MaxArms]
      /\ node[s] \in Node /\ disk[s] \in Disk
  BY DEF LoopIInv, MachineIInv, MachineTypes
<1> USE DEF Node, Phases, Disk
<1>1. ASSUME NEW t \in Threads, AskAnswer(s, t) \/ FetchScript(s, t)
      PROVE  /\ UNCHANGED <<device, vault, disk, installed, arms, job>>
             /\ node'[s].phase \in {"installer", "answered"}
  BY <1>1, <1>t DEF AskAnswer, FetchScript, Post, Arrive
<1>2. ASSUME NEW t \in Threads, GetAnswer(s, t) \/ GetScript(s, t) \/ LeaveInstaller(s, t)
      PROVE  /\ UNCHANGED <<device, vault, disk, installed, arms, job>>
             /\ node'[s].phase \in {"answered", "fetched", "off", "rebooting"} /\ node'[s].on = NoThread
  BY <1>2, <1>t DEF GetAnswer, GetScript, LeaveInstaller, WithoutReply, AfterInstall, Free
<1>3. ASSUME NEW t \in Threads, PostWebhook(s, t) \/ PhoneHome(s, t)
      PROVE  /\ UNCHANGED <<device, vault, disk, installed, arms, job>>
             /\ node'[s].phase = node[s].phase /\ node[s].phase \in {"written", "phoning"} /\ node'[s].on = t
  BY <1>3, <1>t DEF PostWebhook, PhoneHome, Post, Arrive
<1>4. ASSUME NEW t \in Threads, PhoneHomeReply(s, t)
      PROVE  /\ UNCHANGED <<device, vault, installed, arms, job>>
             /\ node[s].phase = "phoning" /\ node'[s].on = NoThread
             /\ \/ node'[s].phase = "phoning" /\ disk' = disk
                \/ /\ node[s].on = t /\ Ok(t) /\ node'[s].phase = "off"
                   /\ disk'[s].token = disk[s].token /\ disk'[s].script = "complete"
  BY <1>4, <1>t DEF PhoneHomeReply, TakesReply, Free, Ok
<1>5. CASE WriteDisk(s)
  BY <1>5, <1>t DEF WriteDisk, svcVars
<1>6. CASE BootSystem(s)
  BY <1>6, <1>t DEF BootSystem, svcVars
<1>7. CASE RotateToken(s)
  BY <1>7, <1>t DEF RotateToken, svcVars
<1>8. CASE ScriptFails(s) \/ PowerLoss(s) \/ BootInstaller(s)
  BY <1>8, <1>t DEF ScriptFails, PowerLoss, BootInstaller, Waiting, svcVars
<1>9. CASE (ConnectionReset(s) /\ WithoutReply(s)) \/ ClientTimeout(s)
  <2>1. UNCHANGED <<device, vault, disk, installed, arms, job>>
    BY <1>9 DEF ConnectionReset, ClientTimeout, TimesOut, WithoutReply, svcVars
  <2>2. /\ node'[s].on = NoThread
        /\ \/ node'[s].phase \in {"off", "rebooting"}
           \/ node[s].phase = "phoning" /\ node'[s].phase = "phoning"
    BY <1>9, <1>t DEF ClientTimeout, WithoutReply, AfterInstall
  <2> QED
    BY <2>1, <2>2
<1>10. ASSUME NEW t \in Threads, LeaveInstaller(s, t) \/ AskAnswer(s, t) \/ FetchScript(s, t)
               \/ GetAnswer(s, t) \/ GetScript(s, t)
       PROVE  /\ UNCHANGED <<device, vault, disk, installed, arms, job>>
              /\ node'[s].phase \in {"installer", "answered", "fetched", "off", "rebooting"}
              /\ node'[s].phase \in {"off", "rebooting"} => node'[s].on = NoThread
  BY <1>1, <1>2, <1>10
<1>11. CASE \E t \in Threads : LeaveInstaller(s, t) \/ AskAnswer(s, t) \/ FetchScript(s, t)
               \/ GetAnswer(s, t) \/ GetScript(s, t)
  BY <1>10, <1>11
<1>12. CASE \E t \in Threads : PostWebhook(s, t) \/ PhoneHome(s, t)
  BY <1>3, <1>12
<1>13. CASE \E t \in Threads : PhoneHomeReply(s, t)
  BY <1>4, <1>13
<1>14. CASE PowerOn(s)
  BY <1>14, <1>t DEF PowerOn, svcVars
<1>15. CASE RecreateVm(s)
  <2>1. \E p \in {"installer", "off"}, b \in Nat : node'[s] = NewNode(p, b)
    <3>1. node[s].boots \in Nat /\ node[s].boots + 1 \in Nat
      BY <1>t, InstallLoopAssumption
    <3> QED
      BY <1>15, <1>t, <3>1 DEF RecreateVm
  <2>2. node'[s].phase \in {"installer", "off"} /\ node'[s].on = NoThread
    BY <2>1 DEF NewNode
  <2>3. UNCHANGED <<device, vault, arms, job, installed>> /\ disk'[s] = NewDisk
    BY <1>15, <1>t DEF RecreateVm, svcVars
  <2> QED
    BY <2>2, <2>3
<1> QED
  BY <1>5, <1>6, <1>7, <1>8, <1>9, <1>14, <1>15, <1>11, <1>12, <1>13 DEF OwnStep, Machine

ClientStep(s, t) ==
  \/ AskAnswer(s, t) \/ GetAnswer(s, t) \/ FetchScript(s, t) \/ GetScript(s, t)
  \/ PostWebhook(s, t) \/ LeaveInstaller(s, t) \/ PhoneHome(s, t) \/ PhoneHomeReply(s, t)

(* Who changes a request. *)
LEMMA RequestSteps ==
  ASSUME LoopIInv, [Next]_vars
  PROVE  \/ req' = req
         \/ \E u \in Threads : (Serve(u) \/ Breaks(u)) /\ UNCHANGED loopVars
         \/ \E u \in Threads : DropReply(u)
         \/ \E z \in Serials, u \in Threads : ClientStep(z, u)
         \/ req' = [t \in Threads |-> FreeRequest] /\ UNCHANGED loopVars
<1>1. CASE UNCHANGED vars
  BY <1>1 DEF vars, svcVars
<1>2. CASE ServiceFault
  BY <1>2 DEF ServiceFault, Restart, TtlElapses
<1>3. ASSUME NEW s \in Serials,
             \/ ClientTimeout(s) \/ PowerLoss(s) \/ PowerOn(s)
             \/ BootInstaller(s) \/ Arm(s) \/ StartBaseline(s) \/ EndBaseline(s)
             \/ StartNested(s) \/ RecreateVm(s) \/ SaveVmid(s) \/ NestedDies(s)
      PROVE  req' = req
  BY <1>3 DEF ClientTimeout, TimesOut, PowerLoss, PowerOn, BootInstaller, Arm, StartBaseline, EndBaseline,
              StartNested, RecreateVm, SaveVmid, NestedDies, svcVars
<1>4. ASSUME NEW s \in Serials, Machine(s)
      PROVE  req' = req \/ \E u \in Threads : ClientStep(s, u)
  BY <1>4 DEF Machine, ClientStep, WriteDisk, BootSystem, RotateToken, ScriptFails, ConnectionReset, svcVars
<1> QED
  BY <1>1, <1>2, <1>3, <1>4 DEF Next, Service

LEMMA Confirmers ==
  ASSUME LoopIInv, [Next]_vars, NEW s \in Serials, NEW t \in Threads,
         req'[t].serial = s, req'[t].at \in CredSteps \union WebhookSteps
  PROVE  \/ req[t].serial = s /\ req[t].at \in CredSteps \union WebhookSteps
         \/ node[s].phase \in {"written", "phoning"}
<1> USE DEF CredSteps, WebhookSteps
<1>t. KeyTypeOK /\ SvcTypes /\ req \in [Threads -> Request]
  BY DEF LoopIInv, SvcIInv, SvcTypes
<1>1. CASE req' = req
  BY <1>1
<1>2. ASSUME NEW u \in Threads, Serve(u) \/ Breaks(u)
      PROVE  req[t].serial = s /\ req[t].at \in CredSteps \union WebhookSteps
  BY <1>2, <1>t, ServiceMoves DEF Only, Moves
<1>3. ASSUME NEW u \in Threads, DropReply(u)
      PROVE  req[t].serial = s /\ req[t].at \in CredSteps \union WebhookSteps
  BY <1>3, <1>t, Freeing, FreeTyped DEF Only, DropReply
<1>4. ASSUME NEW z \in Serials, NEW u \in Threads, ClientStep(z, u)
      PROVE  \/ req[t].serial = s /\ req[t].at \in CredSteps \union WebhookSteps
             \/ node[s].phase \in {"written", "phoning"}
  BY <1>4, ClientSteps, FreeTyped DEF Only, ClientStep
<1>5. CASE req' = [r \in Threads |-> FreeRequest]
  BY <1>5, FreeTyped
<1> QED
  BY <1>1, <1>2, <1>3, <1>4, <1>5, RequestSteps

(* Who confirms an install, and whose copy says that it is confirmed. *)
LEMMA Confirmations ==
  ASSUME LoopIInv, [Next]_vars, NEW s \in Serials
  PROVE  /\ device'[s].state # "awaiting_install" =>
              \/ device[s].state # "awaiting_install"
              \/ job[s].state = "bm_installed"
              \/ \E t \in Threads : req[t].serial = s /\ req[t].at \in CredSteps \union WebhookSteps
         /\ job'[s].state = "bm_installed" =>
              job[s].state = "bm_installed" \/ device[s].state # "awaiting_install"
<1>t. /\ SvcTypes /\ device \in [Serials -> CustomFields]
      /\ job \in [Serials -> CustomFields \union {NoJob}]
  BY DEF LoopIInv, SvcIInv, SvcTypes, MachineIInv, MachineTypes
<1>1. ASSUME NEW u \in Threads, Serve(u) \/ Breaks(u), UNCHANGED loopVars
      PROVE  /\ job' = job
             /\ device'[s].state # device[s].state =>
                  req[u].serial = s /\ req[u].at \in CredSteps \union WebhookSteps
  BY <1>1, <1>t, ServeEffects DEF loopVars
<1>2. CASE UNCHANGED <<device, job>>
  BY <1>2
<1>3. ASSUME NEW z \in Serials, OwnStep(z) PROVE UNCHANGED <<device, job>>
  BY <1>3, OwnMoves
<1>4. ASSUME NEW z \in Serials, Arm(z)
      PROVE  job' = job /\ (device'[s].state = "awaiting_install" \/ device'[s] = device[s])
  BY <1>4, <1>t DEF Arm, CustomFields
<1>5. ASSUME NEW z \in Serials, StartBaseline(z)
      PROVE  device' = device /\ (job'[s] = job[s] \/ job'[s] = device[s])
  BY <1>5, <1>t DEF StartBaseline, svcVars
<1>6. ASSUME NEW z \in Serials, EndBaseline(z)
      PROVE  /\ job'[s] = job[s] \/ job'[s].state = "no_job"
             /\ device'[s] = device[s] \/ job[s].state = "bm_installed"
  BY <1>6, <1>t DEF EndBaseline, NoJob
<1>7. CASE ServiceFault
  BY <1>1, <1>2, <1>7 DEF ServiceFault, Restart, TtlElapses, loopVars
<1>8. ASSUME NEW u \in Threads, Service(u) \/ DropReply(u)
      PROVE  UNCHANGED <<device, job>> \/ (Serve(u) /\ UNCHANGED loopVars)
  BY <1>8 DEF Service, DropReply, Free, loopVars
<1>9. CASE UNCHANGED vars
  BY <1>2, <1>9 DEF vars, svcVars, loopVars
<1>10. \/ ServiceFault \/ UNCHANGED vars
       \/ \E u \in Threads : Service(u) \/ DropReply(u)
       \/ \E z \in Serials : \/ OwnStep(z) \/ Arm(z) \/ StartBaseline(z) \/ EndBaseline(z)
                            \/ StartNested(z) \/ SaveVmid(z) \/ NestedDies(z)
  BY DEF Next, OwnStep
<1>11. ASSUME NEW z \in Serials, StartNested(z) \/ NestedDies(z) PROVE UNCHANGED <<device, job>>
  BY <1>11 DEF StartNested, NestedDies, svcVars
<1>12. ASSUME NEW z \in Serials, SaveVmid(z)
       PROVE  job' = job /\ (device'[s].state = "awaiting_install" \/ device'[s] = device[s])
  BY <1>12, <1>t DEF SaveVmid, LoopIInv, MachineIInv
<1> QED
  BY <1>1, <1>2, <1>3, <1>4, <1>5, <1>6, <1>7, <1>8, <1>9, <1>10, <1>11, <1>12

-----------------------------------------------------------------------------
(* The disk of a Device's first install has been written. *)
Proven(s) == arms[s] = 1 => installed[s] = 1

(* Whoever can confirm an install does so for a machine with a disk. *)
ProvenInv ==
  \A s \in Serials :
    /\ node[s].phase \in {"written", "booted", "phoning"} \/ disk[s].script # "none" => Proven(s)
    /\ device[s].state # "awaiting_install" \/ job[s].state = "bm_installed" => Proven(s)
    /\ \A t \in Threads : req[t].serial = s /\ req[t].at \in CredSteps \union WebhookSteps => Proven(s)

(* Asking for an install leaves the disk alone, and writing it proves the  *)
(* install that was asked for.                                             *)
LEMMA Counting ==
  ASSUME LoopIInv, [Next]_vars, NEW s \in Serials
  PROVE  /\ arms[s] \in Nat /\ arms'[s] \in {arms[s], arms[s] + 1} /\ arms[s] # 0
         /\ arms'[s] # arms[s] => Arm(s) /\ installed'[s] = installed[s]
         /\ installed'[s] \in {installed[s], arms[s]} /\ installed[s] \in Nat
<1>t. /\ arms \in [Serials -> 1..MaxArms] /\ installed \in [Serials -> 0..MaxArms]
  BY DEF LoopIInv, MachineIInv, MachineTypes
<1>1. ASSUME NEW z \in Serials, OwnStep(z)
      PROVE  arms' = arms /\ installed'[s] \in {installed[s], arms[s]}
  <2>1. CASE z = s
    BY <1>1, <2>1, OwnMoves
  <2>2. CASE z # s
    <3>1. installed'[s] = installed[s]
      BY <1>1, <1>t, <2>2 DEF OwnStep, Machine, AskAnswer, GetAnswer, FetchScript, GetScript, PostWebhook,
         LeaveInstaller, PhoneHome, PhoneHomeReply, WriteDisk, BootSystem, RotateToken, ScriptFails,
         WithoutReply, ClientTimeout, PowerLoss, BootInstaller, PowerOn, RecreateVm
    <3> QED
      BY <1>1, <3>1, OwnMoves
  <2> QED
    BY <2>1, <2>2
<1>2. ASSUME NEW z \in Serials, Arm(z)
      PROVE  /\ installed' = installed /\ arms'[s] \in {arms[s], arms[s] + 1}
             /\ arms'[s] # arms[s] => z = s
  BY <1>2, <1>t DEF Arm
<1>3. CASE UNCHANGED <<arms, installed>>
  BY <1>3, <1>t
<1>4. CASE \/ ServiceFault \/ UNCHANGED vars
           \/ \E u \in Threads : Service(u) \/ DropReply(u)
           \/ \E z \in Serials : \/ StartBaseline(z) \/ EndBaseline(z)
                                \/ StartNested(z) \/ SaveVmid(z) \/ NestedDies(z)
  BY <1>3, <1>4 DEF ServiceFault, Service, DropReply, StartBaseline, EndBaseline,
     StartNested, SaveVmid, NestedDies, vars, loopVars
<1> QED
  BY <1>t, <1>1, <1>2, <1>4 DEF Next, OwnStep

LEMMA ProvenInvStep == LoopIInv /\ ProvenInv /\ [Next]_vars => ProvenInv'
<1> SUFFICES ASSUME LoopIInv, ProvenInv, [Next]_vars, NEW s \in Serials
             PROVE  /\ (node[s].phase \in {"written", "booted", "phoning"} \/ disk[s].script # "none")' => Proven(s)'
                    /\ (device[s].state # "awaiting_install" \/ job[s].state = "bm_installed")' => Proven(s)'
                    /\ \A t \in Threads : (req[t].serial = s /\ req[t].at \in CredSteps \union WebhookSteps)' => Proven(s)'
  BY DEF ProvenInv
<1>1. Proven(s) => Proven(s)'
  BY Counting DEF Proven
<1>2. (node'[s].phase \in {"written", "booted", "phoning"} \/ disk'[s].script # "none") => Proven(s)'
  <2>1. CASE node[s].phase \in {"written", "booted", "phoning"} \/ disk[s].script # "none"
    BY <1>1, <2>1 DEF ProvenInv
  <2>2. CASE ~OwnStep(s)
    BY <1>1, <2>2, OthersRest DEF ProvenInv
  <2>3. CASE OwnStep(s) /\ node[s].phase \notin {"written", "booted", "phoning"} /\ disk[s].script = "none"
    BY <2>3, OwnMoves, NewTyped DEF Proven
  <2> QED
    BY <2>1, <2>2, <2>3
<1>3. (device[s].state # "awaiting_install" \/ job[s].state = "bm_installed")' => Proven(s)
  BY Confirmations DEF ProvenInv
<1>4. ASSUME NEW t \in Threads, req'[t].serial = s, req'[t].at \in CredSteps \union WebhookSteps
      PROVE  Proven(s)
  BY <1>4, Confirmers DEF ProvenInv
<1> QED
  BY <1>1, <1>2, <1>3, <1>4 DEF CredSteps, WebhookSteps

LEMMA ProvenInvInit == LoopInit => ProvenInv
BY FreeTyped DEF LoopInit, SvcInit, ProvenInv, NewDevice, NoJob, NewNode, NewDisk, CredSteps, WebhookSteps

(* A Device of a first install that is past awaiting_install has been      *)
(* installed: no retry, late handler or restart confirms an install before *)
(* one got to the disk.                                                    *)
THEOREM InstalledIsProvenHolds == Spec => []InstalledIsProven
<1>1. ProvenInv => InstalledIsProven
  BY DEF ProvenInv, Proven, InstalledIsProven
<1>2. LoopIInv /\ ProvenInv /\ [Next]_vars => (LoopIInv /\ ProvenInv)'
  BY LoopIInvStep, ProvenInvStep
<1> QED
  BY <1>1, <1>2, LoopIInvInit, ProvenInvInit, PTL DEF Spec

-----------------------------------------------------------------------------
(* The disk comes from the last install that was asked for. *)
Current(s) == installed[s] = arms[s]

(* How far the phone-home that machine s waits for has come, in thread t. *)
Answered(s, t) ==
  /\ req[t].at \in CredSteps \union {"free", "replied"}
  /\ req[t].at \in CredSteps => req[t].serial = s
  /\ req[t].at \in {"cr_records", "cr_patch", "cr_spend", "cr_spend_save"} \/ Ok(t) =>
       vault[s].token = disk[s].token
  /\ req[t].at \in {"cr_patch", "cr_spend", "cr_spend_save"} \/ Ok(t) => vault[s].recorded
  /\ req[t].at \in {"cr_spend", "cr_spend_save"} \/ Ok(t) =>
       (Current(s) => device[s].state # "awaiting_install")

Stores(s) ==
  /\ vault[s].token = disk[s].token
  /\ vault[s].recorded
  /\ device[s].state # "awaiting_install"

(* Of a machine and its requests: those that can still write token files   *)
(* carry the token that is on the node, and the one that it waits for has  *)
(* done what its step says.                                                *)
StoredOf(s) ==
  /\ node[s].phase \in {"off", "rebooting", "booted"} => ~Waiting(s)
  /\ node[s].phase \in {"booted", "phoning"} => disk[s].script = "pending"
  /\ installed[s] <= arms[s]
  /\ node[s].phase = "booted" => Settled(s)
  /\ node[s].phase = "phoning" \/ disk[s].script = "complete" =>
       \A t \in Threads : req[t].serial = s /\ req[t].at \in TokenSteps => req[t].token = disk[s].token
  /\ node[s].phase = "phoning" /\ Waiting(s) => Answered(s, node[s].on)
  /\ disk[s].script = "complete" /\ Current(s) => Stores(s)

StoredInv == \A s \in Serials : StoredOf(s)

LEMMA StoredInvInit == LoopInit => StoredInv
BY FreeTyped DEF LoopInit, SvcInit, StoredInv, StoredOf, Waiting, NewNode, NewDisk

(* Who brings a token, and who stores it. *)
LEMMA Carriers ==
  ASSUME LoopIInv, [Next]_vars, NEW s \in Serials, NEW t \in Threads,
         req'[t].serial = s, req'[t].at \in TokenSteps
  PROVE  \/ req[t].serial = s /\ req[t].at \in TokenSteps /\ req'[t].token = req[t].token
         \/ node[s].phase = "phoning" /\ req'[t].token = disk[s].token
<1> USE DEF TokenSteps
<1>t. KeyTypeOK /\ SvcTypes /\ req \in [Threads -> Request]
  BY DEF LoopIInv, SvcIInv, SvcTypes
<1> DEFINE Before == req[t].serial = s /\ req[t].at \in TokenSteps /\ req'[t].token = req[t].token
<1>1. CASE req' = req
  BY <1>1
<1>2. ASSUME NEW u \in Threads, Serve(u) \/ Breaks(u) PROVE Before
  BY <1>2, <1>t, ServiceMoves DEF Only, Moves
<1>3. ASSUME NEW u \in Threads, DropReply(u) PROVE Before
  BY <1>3, <1>t, Freeing, FreeTyped DEF Only, DropReply
<1>4. ASSUME NEW z \in Serials, NEW u \in Threads, ClientStep(z, u)
      PROVE  Before \/ (node[s].phase = "phoning" /\ req'[t].token = disk[s].token)
  BY <1>4, ClientSteps, FreeTyped DEF Only, ClientStep
<1>5. CASE req' = [r \in Threads |-> FreeRequest]
  BY <1>5, FreeTyped
<1> QED
  BY <1>1, <1>2, <1>3, <1>4, <1>5, RequestSteps

LEMMA VaultSteps ==
  ASSUME LoopIInv, [Next]_vars, NEW s \in Serials
  PROVE  /\ vault[s].recorded => vault'[s].recorded
         /\ \/ vault'[s].token = vault[s].token
            \/ \E u \in Threads : /\ req[u].serial = s /\ req[u].at = "cr_files"
                                  /\ vault'[s].token = req[u].token
<1>t. SvcTypes
  BY DEF LoopIInv, SvcIInv
<1>1. CASE vault' = vault
  BY <1>1
<1>2. ASSUME NEW u \in Threads, Serve(u) \/ Breaks(u)
      PROVE  /\ vault[s].recorded => vault'[s].recorded
             /\ \/ vault'[s].token = vault[s].token
                \/ /\ req[u].serial = s /\ req[u].at = "cr_files"
                   /\ vault'[s].token = req[u].token
  BY <1>2, <1>t, ServeEffects
<1>3. ASSUME NEW z \in Serials,
             \/ OwnStep(z) \/ Arm(z) \/ StartBaseline(z) \/ EndBaseline(z)
             \/ StartNested(z) \/ SaveVmid(z) \/ NestedDies(z)
      PROVE  vault' = vault
  BY <1>3, OwnMoves DEF Arm, StartBaseline, EndBaseline, StartNested, SaveVmid, NestedDies, svcVars
<1>4. CASE Restart \/ TtlElapses \/ UNCHANGED vars \/ \E u \in Threads : DropReply(u)
  BY <1>1, <1>4 DEF Restart, TtlElapses, DropReply, Free, vars, svcVars
<1> QED
  BY <1>2, <1>1, <1>3, <1>4 DEF Next, OwnStep, Service, ServiceFault

(* The phone-home that a machine waits for goes on, ends or is lost. *)
LEMMA AnsweredStep ==
  ASSUME LoopIInv, StoredInv, [Next]_vars, NEW s \in Serials, NEW t \in Threads, ~OwnStep(s),
         node[s].phase = "phoning", node[s].on = t, Answered(s, t),
         vault[s].token = disk[s].token => vault'[s].token = disk[s].token,
         Current(s) /\ device[s].state # "awaiting_install" /\ Current(s)' => device'[s].state # "awaiting_install",
         Current(s)' => Current(s), disk'[s] = disk[s]
  PROVE  Answered(s, t)'
<1>t. KeyTypeOK /\ SvcTypes /\ req \in [Threads -> Request]
  BY DEF LoopIInv, SvcIInv, SvcTypes
<1>r. vault[s].recorded => vault'[s].recorded
  BY VaultSteps
<1>1. CASE req'[t] = req[t]
  BY <1>1, <1>r DEF Answered, Ok, At
<1>2. CASE Serve(t) \/ Breaks(t)
  <2>1. Moves(t)
    BY <1>2, <1>t, ServiceMoves
  <2>2. CASE req[t].at \notin CredSteps
    <3>1. req[t].at \notin Steps
      BY <2>2 DEF Answered, Steps, AnswerSteps, ScriptSteps, CredSteps, WebhookSteps
    <3> QED
      BY <2>1, <3>1 DEF Moves, Answered, CredSteps
  <2>3. CASE req[t].at \in CredSteps
    <3>1. req[t].serial = s /\ req'[t].serial = s /\ req'[t].at \in CredSteps \union {"replied"}
      BY <2>1, <2>3 DEF Moves, Answered
    <3>2. req[t].at = "cr_files" => req[t].token = disk[s].token
      BY <3>1 DEF StoredInv, StoredOf, TokenSteps
    <3>3. CASE req'[t].at = "cr_records"
      <4>1. WriteTokenFiles(t) /\ req[t].at = "cr_files"
        BY <2>1, <3>3 DEF Moves, WriteTokenFiles, At
      <4>2. vault'[s].token = disk'[s].token
        BY <1>2, <1>t, <3>1, <3>2, <4>1, ServeEffects
      <4> QED
        BY <3>1, <3>3, <4>2 DEF Answered, Ok, At
    <3>4. CASE req'[t].at = "cr_patch"
      <4>1. WriteSecretRecords(t) /\ req[t].at = "cr_records"
        BY <2>1, <3>4 DEF Moves, WriteSecretRecords, At
      <4>2. vault'[s].recorded
        BY <1>2, <1>t, <3>1, <4>1, ServeEffects
      <4> QED
        BY <3>1, <3>4, <4>1, <4>2 DEF Answered, Ok, At
    <3>5. CASE req'[t].at = "cr_spend"
      <4>1. PatchCredentials(t) /\ req[t].at = "cr_patch"
        BY <2>1, <3>5 DEF Moves, PatchCredentials, At
      <4>2. device'[s].state # "awaiting_install"
        BY <1>2, <1>t, <3>1, <4>1, ServeEffects
      <4> QED
        BY <1>r, <3>1, <3>5, <4>1, <4>2 DEF Answered, Ok, At
    <3>6. CASE req'[t].at = "cr_spend_save"
      <4>1. req[t].at = "cr_spend"
        BY <2>1, <3>6 DEF Moves, At
      <4> QED
        BY <1>r, <3>1, <3>6, <4>1 DEF Answered, Ok, At
    <3>7. CASE Ok(t)'
      <4>1. req[t].at = "cr_spend_save"
        BY <2>1, <2>3, <3>7 DEF Moves, At
      <4> QED
        BY <1>r, <3>1, <3>7, <4>1 DEF Answered, Ok, At, CredSteps
    <3> QED
      BY <3>1, <3>3, <3>4, <3>5, <3>6, <3>7 DEF Answered
  <2> QED
    BY <2>2, <2>3
<1>3. CASE req'[t] = FreeRequest
  BY <1>3, FreeTyped DEF Answered, Ok, At, CredSteps
<1>4. ASSUME NEW u \in Threads, Serve(u) \/ Breaks(u) PROVE req'[t] = req[t] \/ u = t
  BY <1>4, <1>t, ServiceMoves DEF Only
<1>5. ASSUME NEW u \in Threads, DropReply(u) PROVE req'[t] = req[t]
  <2>1. u # t
    BY <1>5 DEF DropReply, Unattended
  <2> QED
    BY <1>5, <1>t, <2>1, Freeing DEF Only, DropReply
<1>6. ASSUME NEW z \in Serials, NEW u \in Threads, ClientStep(z, u)
      PROVE  req'[t] = req[t] \/ req'[t] = FreeRequest
  BY <1>6, ClientSteps DEF Only, ClientStep, Unattended
<1> QED
  BY <1>1, <1>2, <1>3, <1>4, <1>5, <1>6, RequestSteps

LEMMA StoredInvStep == LoopIInv /\ StoredInv /\ [Next]_vars => StoredInv'
<1> SUFFICES ASSUME LoopIInv, StoredInv, [Next]_vars, NEW s \in Serials PROVE StoredOf(s)'
  BY DEF StoredInv
<1>i. StoredOf(s)
  BY DEF StoredInv
<1>m. OwnStep(s) \/ (node'[s] = node[s] /\ disk'[s] = disk[s] /\ installed'[s] = installed[s])
  BY OthersRest
(* what is kept while no step of the machine's own is taken *)
<1>c. /\ installed'[s] <= arms'[s]
      /\ ~OwnStep(s) /\ Current(s)' => Current(s) /\ ~Arm(s)
  <2>1. Arm(s) => arms'[s] = arms[s] + 1
    BY DEF Arm, LoopIInv, MachineIInv, MachineTypes
  <2>2. /\ arms[s] \in Nat /\ arms'[s] \in {arms[s], arms[s] + 1}
        /\ arms'[s] # arms[s] => installed'[s] = installed[s]
        /\ installed'[s] \in {installed[s], arms[s]} /\ installed[s] \in Nat
        /\ installed[s] <= arms[s]
    BY <1>i, Counting DEF StoredOf
  <2>3. installed'[s] <= arms'[s]
    BY <2>2
  <2>4. ~OwnStep(s) /\ installed'[s] = arms'[s] => installed[s] = arms[s] /\ arms'[s] = arms[s]
    BY <1>m, <2>2
  <2> QED
    BY <2>1, <2>2, <2>3, <2>4 DEF Current
<1>d. /\ ~OwnStep(s) /\ Current(s)' /\ device[s].state # "awaiting_install" /\ disk[s].script # "none"
      => device'[s].state # "awaiting_install"
  BY <1>c, StateChanges DEF SaveVmid, LoopIInv, MachineIInv
<1>v. ASSUME node[s].phase = "phoning" \/ disk[s].script = "complete", vault[s].token = disk[s].token
      PROVE  vault'[s].token = disk[s].token
  BY <1>v, <1>i, VaultSteps DEF StoredOf, TokenSteps
<1>1. (node'[s].phase \in {"off", "rebooting", "booted"} => ~Waiting(s)')
  BY <1>i, <1>m, OwnMoves DEF StoredOf, Waiting
<1>2. node'[s].phase \in {"booted", "phoning"} => disk'[s].script = "pending"
  BY <1>i, <1>m, OwnMoves DEF StoredOf
<1>3. ASSUME node'[s].phase = "booted" PROVE Settled(s)'
  <2>1. Settled(s) /\ (node[s].phase # "phoning" \/ req' = req)
    BY <1>3, <1>i, <1>m, OwnMoves DEF StoredOf
  <2> QED
    BY <2>1, Carriers DEF Settled, TokenSteps
<1>4. ASSUME node'[s].phase = "phoning" \/ disk'[s].script = "complete",
             NEW t \in Threads, req'[t].serial = s, req'[t].at \in TokenSteps
      PROVE  req'[t].token = disk'[s].token
  <2>1. CASE /\ disk'[s].token = disk[s].token
             /\ node[s].phase = "phoning" \/ disk[s].script = "complete"
    BY <1>4, <1>i, <2>1, Carriers DEF StoredOf
  <2>2. CASE node[s].phase = "booted" /\ req' = req
    BY <1>4, <1>i, <2>2 DEF StoredOf, Settled, TokenSteps
  <2> QED
    BY <1>4, <1>i, <1>m, <2>1, <2>2, OwnMoves, NewTyped DEF StoredOf
<1>5. ASSUME node'[s].phase = "phoning", Waiting(s)' PROVE Answered(s, node[s].on)'
  <2>t. req \in [Threads -> Request] /\ node[s].on \in Threads \union {NoThread}
    BY DEF LoopIInv, SvcIInv, SvcTypes, MachineIInv, MachineTypes, Node
  <2>1. CASE OwnStep(s)
    <3>1. PICK t \in Threads : node'[s].on = t /\ PhoneHome(s, t)
      BY <1>5, <1>i, <2>1, OwnMoves DEF StoredOf, Waiting, PostWebhook
    <3>2. req'[t].at = "cr_peek" /\ req'[t].serial = s
      <4>1. "cr_peek" \in Steps /\ disk[s].credKey \in KeyOrNone /\ disk[s].token \in TokenOrNone
        BY DEF Steps, CredSteps, LoopIInv, MachineIInv, MachineTypes, Disk
      <4> QED
        BY <3>1, <2>t, <4>1, Arriving DEF PhoneHome, Post
    <3> QED
      BY <3>1, <3>2 DEF Answered, Ok, At, CredSteps
  <2>2. CASE ~OwnStep(s)
    <3>1. node[s].on \in Threads /\ node'[s].on = node[s].on /\ node[s].phase = "phoning" /\ disk'[s] = disk[s]
      BY <1>5, <1>m, <2>t, <2>2 DEF Waiting
    <3>2. Answered(s, node[s].on) /\ disk[s].script # "none"
      BY <1>i, <1>5, <1>m, <2>2 DEF StoredOf, Waiting
    <3> QED
      BY <1>c, <1>d, <1>v, <2>2, <3>1, <3>2, AnsweredStep
  <2> QED
    BY <2>1, <2>2
<1>6. ASSUME disk'[s].script = "complete", Current(s)' PROVE Stores(s)'
  <2>1. CASE ~OwnStep(s)
    BY <1>6, <1>i, <1>m, <1>c, <1>d, <1>v, <2>1, VaultSteps DEF StoredOf, Stores
  <2>2. CASE OwnStep(s)
    <3>1. UNCHANGED <<device, vault, arms>>
      BY <2>2, OwnMoves
    <3>2. CASE disk'[s] = disk[s] /\ installed'[s] = installed[s]
      BY <1>6, <1>i, <3>1, <3>2 DEF StoredOf, Stores, Current
    <3>3. CASE /\ disk'[s].token = disk[s].token /\ installed'[s] = installed[s] /\ node[s].phase = "phoning"
               /\ \E t \in Threads : node[s].on = t /\ Ok(t)
      <4>1. Waiting(s)
        BY <3>3, KeyStoreAssumption DEF Waiting
      <4> QED
        BY <1>6, <1>i, <3>1, <3>3, <4>1 DEF StoredOf, Stores, Current, Answered
    <3> QED
      BY <1>6, <1>i, <2>2, <3>2, <3>3, OwnMoves, NewTyped DEF StoredOf
  <2> QED
    BY <2>1, <2>2
<1> QED
  BY <1>c, <1>1, <1>2, <1>3, <1>4, <1>5, <1>6 DEF StoredOf

(* A node whose script has completed left Nautobot able to reach it: the   *)
(* stored token is the one on the node, its records exist, and the install *)
(* gate is closed, however many attempts overlapped.                       *)
THEOREM CompleteMeansStoredHolds == Spec => []CompleteMeansStored
<1>1. StoredInv => CompleteMeansStored
  BY DEF StoredInv, StoredOf, Stores, Current, CompleteMeansStored
<1>2. LoopIInv /\ StoredInv /\ [Next]_vars => (LoopIInv /\ StoredInv)'
  BY LoopIInvStep, StoredInvStep
<1> QED
  BY <1>1, <1>2, LoopIInvInit, StoredInvInit, PTL DEF Spec
=============================================================================
