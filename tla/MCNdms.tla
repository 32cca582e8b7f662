-------------------------------- MODULE MCNdms --------------------------------
(* Small instances of Ndms for TLC.                                         *)
EXTENDS Ndms
=============================================================================
