------------------------------ MODULE MCProfiles ------------------------------
(* Small instances of Profiles for TLC.  The first two tunnels sort alike.  *)
EXTENDS Profiles

CONSTANTS a, b, c

MCIds     == {a, b, c}
MCRank    == [id \in MCIds |-> IF id = c THEN 2 ELSE 1]
MCSums    == [name \in MaxNames .. MaxNames + MaxSeconds |-> name]
=============================================================================
