----------------------------- MODULE OneTimeKeys -----------------------------
(***************************************************************************)
(* What the answer service promises about its one-time keys, without the   *)
(* file, the lock or the requests: a key is minted once, is live for a     *)
(* while, and then is spent by its step or dead (its TTL has passed).      *)
(* Nothing brings a spent or a dead key back, and one step spends at most  *)
(* one key.                                                                *)
(***************************************************************************)
EXTENDS Naturals

CONSTANT MaxKeys   \* keys are numbered in the order in which they are minted

VARIABLE keyState

Keys == 1..MaxKeys

KeyStates == {"fresh", "live", "spent", "dead"}

(* The states a key may be in after a step that finds it in state st. *)
Successors(st) ==
  {st} \union (IF st = "fresh" THEN {"live"} ELSE {})
       \union (IF st = "live" THEN {"spent", "dead"} ELSE {})

AbsInit == keyState = [k \in Keys |-> "fresh"]

Spends(k) == keyState[k] = "live" /\ keyState'[k] = "spent"

AbsNext ==
  /\ keyState' \in [Keys -> KeyStates]
  /\ \A k \in Keys : keyState'[k] \in Successors(keyState[k])
  /\ \A k, l \in Keys : Spends(k) /\ Spends(l) => k = l

AbsSpec == AbsInit /\ [][AbsNext]_keyState
=============================================================================
