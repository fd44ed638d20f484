----------------------------- MODULE MCInstallJob ------------------------------
(* An install and a reinstall, or a failed run and its repetition; an XCC    *)
(* with two EXT members.                                                     *)
EXTENDS InstallJob, TLC
=============================================================================
