------------------------------ MODULE MCRouting ------------------------------
(* Small instances of Routing for TLC.                                      *)
EXTENDS Routing, TLC

Interchangeable == Permutations(Tunnels) \cup Permutations(Hosts)

\* What comes after a state that is spoiled is spoiled.
Unspoiled == spoiled \in {"no", "unpinned"}
=============================================================================
