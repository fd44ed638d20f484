----------------------------- MODULE MCInstallLoop -----------------------------
(* Instances of InstallLoop for TLC: one machine, physical or nested, and  *)
(* two service threads, which are interchangeable, while the keys are not. *)
EXTENDS InstallLoop, TLC

ThreadSymmetry == Permutations(Threads)
=============================================================================
