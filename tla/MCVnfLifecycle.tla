---------------------------- MODULE MCVnfLifecycle ----------------------------
(* Two workers, two devices (one firewall with a bootstrap ISO) and as     *)
(* many VM ids as can be in use at once.                                   *)
EXTENDS VnfLifecycle, TLC

VnfSymmetry == Permutations(Workers) \union Permutations(Vmids)
=============================================================================
