-------------------------- MODULE MCRuntimeManager --------------------------
(* A small instance of RuntimeManager for TLC.                              *)
EXTENDS RuntimeManager
=============================================================================
