------------------------ MODULE MCCollectorConnection ------------------------
(***************************************************************************)
(* CollectorConnection on small instances.                                   *)
(***************************************************************************)
EXTENDS CollectorConnection, TLC

Symmetry == Permutations(Socket) \cup Permutations(Request)
=============================================================================
