----------------------------- MODULE MCKeysForge ------------------------------
(* The answer service's key store, under threads that issue and consume at     *)
(* will, and its media forge, with three tasks for two versions of one stock   *)
(* ISO.  The two share no state; only a restart hits both, and for either that *)
(* is a step of its own.  So any behaviour of both is a shuffle of one of      *)
(* each, and a property of either needs only those with the other at rest.     *)
EXTENDS KeyStore, MediaForge, TLC

MCSymmetry == Permutations(Threads) \union Permutations(Tasks)

(* Of the forge's initial states one will do for the keys. *)
Resting == Init /\ cache = Torn /\ \A t, u \in Tasks : task[t].version = task[u].version

(* What the tasks have to do comes to an end; the keys never do. *)
TasksOver == \A t \in Tasks : task[t].at \in Ends

MCInit == Init /\ KeyInit

MCNext ==
  \/ Resting /\ KeyNext /\ UNCHANGED vars
  \/ KeyInit /\ Next /\ UNCHANGED keyVars
  \/ TasksOver /\ UNCHANGED <<vars, keyVars>>

MCSpec == MCInit /\ [][MCNext]_<<vars, keyVars>>
=============================================================================
