---------------------------- MODULE MCLinkSocket ----------------------------
(***************************************************************************)
(* LinkSocket with three messages, for TLC.                                *)
(***************************************************************************)
EXTENDS LinkSocket, TLC
=============================================================================
