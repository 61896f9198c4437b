--------------------------- MODULE MCRuntimePasses ---------------------------
(***************************************************************************)
(* RuntimePasses on a pipeline of two services, the first of which answers *)
(* from a worker.                                                          *)
(***************************************************************************)
EXTENDS RuntimePasses, TLC

CONSTANTS w, s1

MCWorker == [s \in {1} |-> w]
=============================================================================
