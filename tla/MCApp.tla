-------------------------------- MODULE MCApp --------------------------------
(* Small instances of App for TLC.                                          *)
EXTENDS App
=============================================================================
