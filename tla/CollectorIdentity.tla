-------------------------- MODULE CollectorIdentity --------------------------
(***************************************************************************)
(* The short/full part-number (PN) rules of collector_identity.py.         *)
(*                                                                         *)
(* A PN is an opaque value.  What the rules tell apart is kept as two       *)
(* constants: StartsWith, the pairs <<a, b>> such that the string b starts  *)
(* with a, and PnLen, the string length.  FullPN are the PNs a collector    *)
(* answers to an authoritative (strong) identity query; every other PN is   *)
(* a truncated spelling, as a heartbeat carries it.                         *)
(***************************************************************************)
EXTENDS Naturals

CONSTANTS
    PN,             \* the part numbers that may be observed or configured
    FullPN,         \* the PNs of real collectors, one per collector
    StartsWith,     \* <<a, b>> \in StartsWith: b.startswith(a)
    PnLen,          \* len() of each PN
    MinPrefixLen    \* CALLBACK_PN_PREFIX_MATCH_MIN_LEN

NoPn == ""

IsPnPrefix(a, b) == <<a, b>> \in StartsWith

ASSUME PnTypeAssumption ==
    /\ NoPn \notin PN
    /\ FullPN \subseteq PN
    /\ StartsWith \subseteq PN \X PN
    /\ PnLen \in [PN -> Nat]
    /\ MinPrefixLen \in Nat

\* startswith() is a partial order in which the prefixes of one string form a
\* chain, and a proper prefix is a shorter string.
ASSUME PrefixOrderAssumption ==
    /\ \A a \in PN : IsPnPrefix(a, a)
    /\ \A a, b, c \in PN : IsPnPrefix(a, b) /\ IsPnPrefix(b, c) => IsPnPrefix(a, c)
    /\ \A a, b, c \in PN : IsPnPrefix(a, c) /\ IsPnPrefix(b, c)
                               => IsPnPrefix(a, b) \/ IsPnPrefix(b, a)
    /\ \A a, b \in PN : IsPnPrefix(a, b) /\ a # b => PnLen[a] < PnLen[b]

\* "Two sessions with different full PNs are always distinct collectors": no PN
\* continues a full one.
ASSUME FullPnAssumption ==
    \A f \in FullPN, a \in PN : IsPnPrefix(f, a) => a = f

-----------------------------------------------------------------------------

\* pn_is_same_identity: two non-empty PNs denote one collector when they are
\* equal or, both being long enough, one continues the other.
SameIdentity(a, b) ==
    /\ a \in PN
    /\ b \in PN
    /\ \/ a = b
       \/ /\ PnLen[a] >= MinPrefixLen
          /\ PnLen[b] >= MinPrefixLen
          /\ IsPnPrefix(a, b) \/ IsPnPrefix(b, a)

\* Variant: the later spelling wins.
PreferLatest(a, b) == IF b = NoPn THEN a ELSE b

\* prefer_full_pn: the longer of two spellings, the left one on a tie.
PreferFull(a, b) ==
    IF a = NoPn THEN b
    ELSE IF b = NoPn THEN a
    ELSE IF PnLen[a] >= PnLen[b] THEN a ELSE b

\* reconcile_pn: merge a later observation of one socket; a genuine conflict
\* keeps the current PN.  Unlike SameIdentity it has no length threshold.
ReconcilePn(current, candidate) ==
    IF current = NoPn \/ IsPnPrefix(current, candidate) THEN candidate
    ELSE current
=============================================================================
