---------------------------- MODULE MCDataLogger ----------------------------
(* Instances of DataLogger for TLC.  Producers and names are interchangeable: *)
(* no definition of DataLogger tells one member of either set from another.   *)
EXTENDS DataLogger, TLC

Symmetry == Permutations(Producers) \cup Permutations(Names)
==============================================================================
