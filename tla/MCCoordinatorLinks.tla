------------------------ MODULE MCCoordinatorLinks ------------------------
(* Small instances of CoordinatorLinks: two boards' runtimes, two           *)
(* coordinators, the first key deployable by either of them.                *)
EXTENDS CoordinatorLinks, TLC

CONSTANTS k1, k2, ca, cb, t1, t2, t3

MCKeyOf == [t \in Tickets |-> IF t = t3 THEN k2 ELSE k1]
MCCoordOf == [t \in Tickets |-> IF t = t2 THEN cb ELSE ca]

LinkSymmetry == Permutations(Links)
=============================================================================
