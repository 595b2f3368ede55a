------------------------ MODULE MCInstallTransaction ------------------------
(* Two bundles of two files, the second of which does not exist at first.   *)
EXTENDS InstallTransaction

CONSTANTS i1, i2
=============================================================================
