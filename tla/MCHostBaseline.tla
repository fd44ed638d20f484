---------------------------- MODULE MCHostBaseline -----------------------------
(* Three runs: one that may break, one after it, and one after an edit.      *)
EXTENDS HostBaseline, TLC
=============================================================================
