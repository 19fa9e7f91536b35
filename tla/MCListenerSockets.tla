-------------------------- MODULE MCListenerSockets --------------------------
(***************************************************************************)
(* ListenerSockets on small instances.  One parked socket is allowed, so     *)
(* two sockets are enough for an eviction.                                   *)
(***************************************************************************)
EXTENDS ListenerSockets, TLC

Symmetry == Permutations(Socket) \cup Permutations(User)
=============================================================================
