------------------------- MODULE MCSessionRegistry -------------------------
(***************************************************************************)
(* SessionRegistry on small instances.  "A" and "B" are the full PNs of two *)
(* collectors whose heartbeats share the prefix "S"; "T" is a prefix of all *)
(* of them that is too short to stand for the same identity.                *)
(***************************************************************************)
EXTENDS SessionRegistry, TLC

MCPnLen == [p \in PN |-> CASE p = "T" -> 6 [] p = "S" -> 10 [] OTHER -> 14]
MCStartsWith ==
    {<<a, b>> \in PN \X PN : a = b \/ (a \in {"T", "S"} /\ MCPnLen[a] < MCPnLen[b])}

Symmetry == Permutations(Entry)
=============================================================================
