------------------------------- MODULE KeyStore -------------------------------
(***************************************************************************)
(* The answer service's store of one-time keys: issued-keys.json, read and *)
(* replaced as a whole under _keys_lock by the threads that serve          *)
(* requests (app.py: _load_keys, _save_keys, issue_key, peek_key,          *)
(* consume_key).  A critical section is two steps, the read of the file    *)
(* and its replacement, so that what the lock is for can be seen.          *)
(*                                                                         *)
(* Keys are 1, 2, ... in the order in which they are minted; that a new    *)
(* key is unused stands for the 24 random bytes of token_urlsafe.          *)
(***************************************************************************)
EXTENDS Naturals

CONSTANTS
  Threads,     \* threads of the service's pool
  NoThread,    \* the value of the lock when nobody holds it
  Serials,     \* machines, by DMI serial
  MaxKeys,     \* bound: keys minted in a behaviour
  ReadFaults,  \* whether reading the file can fail (_load_keys then yields {})
  TtlPasses    \* whether a key's TTL can pass

ASSUME KeyStoreAssumption ==
  /\ NoThread \notin Threads
  /\ MaxKeys \in Nat
  /\ ReadFaults \in BOOLEAN
  /\ TtlPasses \in BOOLEAN

VARIABLES
  store,    \* entries of issued-keys.json
  issued,   \* how many keys have been minted
  elapsed,  \* keys whose TTL has passed
  lock,     \* _keys_lock
  loaded,   \* what each thread read inside its critical section
  spent     \* history: keys for which consume_key returned True

keyVars == <<store, issued, elapsed, lock, loaded, spent>>

Keys == 1..MaxKeys

Purposes == {"firstboot", "credentials", "webhook"}

Entry == [key : Keys, serial : Serials, purpose : Purposes]

KeyInit ==
  /\ store = {}
  /\ issued = 0
  /\ elapsed = {}
  /\ lock = NoThread
  /\ loaded = [t \in Threads |-> {}]
  /\ spent = {}

-----------------------------------------------------------------------------
(* _entry_valid: the entry is there, matches in full and is within its TTL *)
Valid(entries, k, s, p) ==
  /\ k \notin elapsed
  /\ [key |-> k, serial |-> s, purpose |-> p] \in entries

(* _save_keys drops the entries whose TTL has passed on every write *)
Unexpired(entries) == {e \in entries : e.key \notin elapsed}

(* peek_key: a read under the lock, hence never inside a critical section *)
PeekEnabled == lock = NoThread

Peek(k, s, p) == Valid(store, k, s, p)

(* with _keys_lock: keys = _load_keys() *)
LoadKeys(t) ==
  /\ lock = NoThread
  /\ lock' = t
  /\ \E entries \in {store} \union (IF ReadFaults THEN {{}} ELSE {}) :
       loaded' = [loaded EXCEPT ![t] = entries]
  /\ UNCHANGED <<store, issued, elapsed, spent>>

(* mutant: the write holds the new entry alone *)
SaveIssuedAlone(t, s, p) ==
  /\ lock = t
  /\ issued < MaxKeys
  /\ issued' = issued + 1
  /\ store' = Unexpired({[key |-> issued + 1, serial |-> s, purpose |-> p]})
  /\ lock' = NoThread
  /\ loaded' = [loaded EXCEPT ![t] = {}]
  /\ UNCHANGED <<elapsed, spent>>

(* issue_key: the new entry joins what was read; os.replace publishes it *)
SaveIssued(t, s, p) ==
  /\ lock = t
  /\ issued < MaxKeys
  /\ issued' = issued + 1
  /\ store' = Unexpired(loaded[t] \union
                {[key |-> issued + 1, serial |-> s, purpose |-> p]})
  /\ lock' = NoThread
  /\ loaded' = [loaded EXCEPT ![t] = {}]
  /\ UNCHANGED <<elapsed, spent>>

(* mutant: the entry is matched but not removed *)
SaveConsumedKept(t, k, s, p) ==
  /\ lock = t
  /\ Valid(loaded[t], k, s, p)
  /\ store' = Unexpired(loaded[t])
  /\ spent' = spent \union {k}
  /\ lock' = NoThread
  /\ loaded' = [loaded EXCEPT ![t] = {}]
  /\ UNCHANGED <<issued, elapsed>>

(* mutant: the TTL is not looked at *)
SaveConsumedLate(t, k, s, p) ==
  /\ lock = t
  /\ [key |-> k, serial |-> s, purpose |-> p] \in loaded[t]
  /\ store' = Unexpired({e \in loaded[t] : e.key # k})
  /\ spent' = spent \union {k}
  /\ lock' = NoThread
  /\ loaded' = [loaded EXCEPT ![t] = {}]
  /\ UNCHANGED <<issued, elapsed>>

(* consume_key on a full match: the entry is removed *)
SaveConsumed(t, k, s, p) ==
  /\ lock = t
  /\ Valid(loaded[t], k, s, p)
  /\ store' = Unexpired({e \in loaded[t] : e.key # k})
  /\ spent' = spent \union {k}
  /\ lock' = NoThread
  /\ loaded' = [loaded EXCEPT ![t] = {}]
  /\ UNCHANGED <<issued, elapsed>>

(* the critical section is left without a write: no full match in          *)
(* consume_key, or the write of the temporary file raised                  *)
LeaveSection(t) ==
  /\ lock = t
  /\ lock' = NoThread
  /\ loaded' = [loaded EXCEPT ![t] = {}]
  /\ UNCHANGED <<store, issued, elapsed, spent>>

(* time: a minted key reaches its TTL (4 hours, 14 days for credentials) *)
Elapse(k) ==
  /\ TtlPasses
  /\ k <= issued
  /\ k \notin elapsed
  /\ elapsed' = elapsed \union {k}
  /\ UNCHANGED <<store, issued, lock, loaded, spent>>

(* the container restarts: the lock and the threads' copies are gone, the  *)
(* file is whatever was last published                                     *)
KeyRestart ==
  /\ lock' = NoThread
  /\ loaded' = [t \in Threads |-> {}]
  /\ UNCHANGED <<store, issued, elapsed, spent>>

-----------------------------------------------------------------------------
KeyNext ==
  \/ \E t \in Threads :
       \/ LoadKeys(t)
       \/ LeaveSection(t)
       \/ \E s \in Serials, p \in Purposes :
            \/ SaveIssued(t, s, p)
            \/ \E k \in Keys : SaveConsumed(t, k, s, p)
  \/ \E k \in Keys : Elapse(k)
  \/ KeyRestart

KeySpec == KeyInit /\ [][KeyNext]_keyVars

-----------------------------------------------------------------------------
KeyTypeOK ==
  /\ store \in SUBSET Entry
  /\ issued \in 0..MaxKeys
  /\ elapsed \in SUBSET Keys
  /\ lock \in Threads \union {NoThread}
  /\ loaded \in [Threads -> SUBSET Entry]
  /\ spent \in SUBSET Keys

Held(k) == \E e \in store : e.key = k

(* A consumed key is never again accepted, whatever the threads, restarts  *)
(* and unreadable files do in between: no whole-file write that started    *)
(* from an older copy brings its entry back.                               *)
SpentNeverReturns == \A k \in spent : ~Held(k)

(* A key that went out in an answer or a script stays usable until its     *)
(* step consumes it or its TTL passes, across concurrent writes and        *)
(* restarts ("a container restart mid-install doesn't strand a node").     *)
NoKeyLost == \A k \in 1..issued : Held(k) \/ k \in spent \/ k \in elapsed

(* The store implements the promise of one-time keys. *)
KeyStateOf(k) ==
  IF k > issued THEN "fresh"
  ELSE IF k \in spent THEN "spent"
  ELSE IF Held(k) /\ k \notin elapsed THEN "live"
  ELSE "dead"

Promise == INSTANCE OneTimeKeys WITH
             MaxKeys <- MaxKeys, keyState <- [k \in Keys |-> KeyStateOf(k)]

KeepsPromise == Promise!AbsSpec

-----------------------------------------------------------------------------
(* What a section that holds the lock has read is never ahead of the file. *)
SectionReadsStore == \A t \in Threads : lock = t => loaded[t] \subseteq store

(* Entries are of minted keys. *)
EntriesMinted ==
  /\ \A e \in store : e.key <= issued
  /\ \A k \in spent \union elapsed : k <= issued

(* The inductive invariant behind SpentNeverReturns and KeepsPromise. *)
KeyIInv ==
  /\ KeyTypeOK
  /\ SpentNeverReturns
  /\ SectionReadsStore
  /\ EntriesMinted

(* Without read faults a section that holds the lock has read the file as  *)
(* it is: what NoKeyLost needs.                                            *)
SectionIsStore == \A t \in Threads : lock = t => loaded[t] = store

KeyLossInv == KeyIInv /\ (~ReadFaults => NoKeyLost /\ SectionIsStore)
=============================================================================
