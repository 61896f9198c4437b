------------------------ MODULE MCCoordinatorBridge ------------------------
(* Small instances of CoordinatorBridge: two boards that both have a        *)
(* browser runtime of the same id, one of them with another besides.        *)
EXTENDS CoordinatorBridge, TLC

CONSTANTS a, b, id1, id2

MCHosted == [x \in Boards |-> IF x = a THEN {id1} ELSE {id1, id2}]

BridgeSymmetry == Permutations(Attachments) \cup Permutations(Runtimes)
=============================================================================
