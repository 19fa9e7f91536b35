--------------------------- MODULE SessionRegistry ---------------------------
(***************************************************************************)
(* CallbackSessionRegistry (connection/session_registry.py): who owns which *)
(* collector identity and which inbound TCP session, over the inventory of  *)
(* sockets that the shared listener publishes.                              *)
(*                                                                         *)
(* An owner is a config entry or a transient flow; the registry keeps one   *)
(* claim per owner in a dict whose insertion order is observable (the first *)
(* match answers "who owns this"), so the order is part of the state.  The  *)
(* flows differ in their owner-id prefix and in the calls they make:        *)
(* callback_verification / strategy_verification (Verification),            *)
(* callback_recovery (Recovery) and entry_removal (Removal).                *)
(*                                                                         *)
(* Every registry call is synchronous on the event loop, so it is atomic;   *)
(* between two calls of one flow anything may happen.  A call that refuses   *)
(* without changing anything is a stuttering step and is not listed.        *)
(***************************************************************************)
EXTENDS CollectorIdentity, Sequences

CONSTANTS
    Entry,          \* config entries
    Verification,   \* owners callback_verification:<uuid>, strategy_verification:<uuid>
    Recovery,       \* owners callback_recovery:<uuid>
    Removal,        \* owners entry_removal:<uuid>
    MaxSession,     \* bound: sockets accepted in one behaviour
    Settled         \* bound: states an unrouted socket may settle in

Flow == Verification \cup Recovery \cup Removal
Owner == Entry \cup Flow
Session == 1 .. MaxSession      \* in order of acceptance
NoSession == 0

ASSUME OwnerAssumption ==
    /\ Entry \cap Flow = {}
    /\ Verification \cap Recovery = {}
    /\ (Verification \cup Recovery) \cap Removal = {}
    /\ MaxSession \in Nat \ {0}

\* The listener states a decision here tells apart.  A socket nobody routed yet
\* is parked, refused by a route that expected another PN (mismatch), or waiting
\* after a route probe that read nothing.  "gone" is a socket without live
\* backing: closed, or taken out of the listener by a proxy capture.  Taking a
\* pending socket and activating its connection happen without a suspension.
Unrouted == {"parked", "waiting", "mismatch"}
Phase == Unrouted \cup {"none", "routed", "gone"}

ASSUME SettledAssumption == "parked" \in Settled /\ Settled \subseteq Unrouted

VARIABLES
    claims,     \* claims[o]: the claim of owner o (NoClaim when it has none)
    before,     \* <<o, q>> \in before: o was inserted in the dict before q
    sess,       \* the listener inventory, one record per socket
    setup       \* setup[e]: outcome of the last setup of entry e

vars == <<claims, before, sess, setup>>

-----------------------------------------------------------------------------
(* State *)

Claim == [pn : PN \cup {NoPn}, sid : Session \cup {NoSession}, pending : BOOLEAN]
NoClaim == [pn |-> NoPn, sid |-> NoSession, pending |-> FALSE]

\* peer is the collector at the other end of the socket: no code reads it, it
\* is what a strong identity query on the socket answers.
SessionRecord ==
    [phase : Phase, peer : FullPN \cup {NoPn}, pn : PN \cup {NoPn}, strong : BOOLEAN]

Socket(phase, peer, pn, strong) ==
    [phase |-> phase, peer |-> peer, pn |-> pn, strong |-> strong]

\* "off": not set up, unloaded, or failed closed with ConfigEntryError;
\* "retry": failed with ConfigEntryNotReady, so Home Assistant tries again.
SetupOutcome == {"off", "retry", "loaded"}

\* discovered_collector_sessions: an identified socket with a live backing.
Visible(s) == sess[s].phase \in Unrouted \cup {"routed"} /\ sess[s].pn # NoPn

Held(o) == claims[o] # NoClaim

-----------------------------------------------------------------------------
(* Who owns what: the first match in dict order *)

IsFirst(o, S) == o \in S /\ \A q \in S \ {o} : <<o, q>> \in before

\* The guard "other and other != o" does not fire.
Ours(o, S) == S = {} \/ IsFirst(o, S)

\* owner_for_pn(pn) is the first of these owners ...
HoldersOf(pn) == {o \in Owner : SameIdentity(claims[o].pn, pn)}

\* ... and _owner_for_session(s) the first of these.
OwnersOf(s) ==
    {o \in Owner : claims[o].sid = s \/ SameIdentity(claims[o].pn, sess[s].pn)}

-----------------------------------------------------------------------------
(* The observed sessions *)

Observation == [sid : Session, pn : PN, strong : BOOLEAN]
Observe(s) == [sid |-> s, pn |-> sess[s].pn, strong |-> sess[s].strong]

Least(S) == CHOOSE i \in S : \A j \in S : i <= j
Greatest(S) == CHOOSE i \in S : \A j \in S : j <= i

\* _coalesce over the first n sockets: short/full duplicates of one collector
\* become one observation, the strongest and then the most complete winning.
KeepNew(new, old) ==
    \/ new.strong /\ ~old.strong
    \/ new.strong = old.strong /\ PnLen[new.pn] > PnLen[old.pn]

Coalesced[n \in 0 .. MaxSession] ==
    IF n = 0 THEN <<>>
    ELSE IF ~Visible(n) THEN Coalesced[n - 1]
    ELSE LET seen == Coalesced[n - 1]
             new  == Observe(n)
             hits == {i \in DOMAIN seen : SameIdentity(seen[i].pn, new.pn)}
             at   == Least(hits)
         IN  IF hits = {} THEN Append(seen, new)
             ELSE IF ~KeepNew(new, seen[at]) THEN seen
             ELSE [seen EXCEPT ![at] =
                      [new EXCEPT !.pn = PreferFull(seen[at].pn, new.pn)]]

\* The observation claim() enriches from: the first strong one of the identity,
\* else the first one.
MatchedSession(pn) ==
    LET all    == Coalesced[MaxSession]
        same   == {i \in DOMAIN all : SameIdentity(pn, all[i].pn)}
        strong == {i \in same : all[i].strong}
        pool   == IF strong # {} THEN strong ELSE same
    IN  {m \in Observation : \E i \in pool : m = all[i] /\ \A j \in pool : i <= j}

\* Lexicographic ranking: keep the candidates with the property, if any has it.
Preferring(S, P(_)) == IF \E s \in S : P(s) THEN {s \in S : P(s)} ELSE S

\* SessionHandle.observed: the socket's state establishes a wire.
WireObserved(s) == sess[s].phase \in {"parked", "routed"}
Routed(s) == sess[s].phase = "routed"
Strong(s) == sess[s].strong
LongestPn(S) == {s \in S : \A t \in S : PnLen[sess[t].pn] <= PnLen[sess[s].pn]}

Candidates(pn) == {s \in Session : Visible(s) /\ SameIdentity(sess[s].pn, pn)}

\* session_handle_for_pn(pn) names s; on a tie the later socket wins.
IsHandleFor(pn, s) ==
    LET best == LongestPn(Preferring(Preferring(Preferring(
                    Candidates(pn), WireObserved), Routed), Strong))
    IN  best # {} /\ s = Greatest(best)

\* Variant: any identified socket of the claim certifies.
CertifiedByAnnouncement(o, s) ==
    IF /\ claims[o].sid = s
       /\ claims[o].pn # NoPn
       /\ Visible(s)
       /\ SameIdentity(sess[s].pn, claims[o].pn)
       /\ Ours(o, OwnersOf(s))
    THEN PreferFull(claims[o].pn, sess[s].pn)
    ELSE NoPn

\* _certify_owner_pn(o, s): the durable PN, or NoPn.
CertifiedPn(o, s) ==
    IF /\ claims[o].sid = s
       /\ claims[o].pn # NoPn
       /\ Visible(s)
       /\ sess[s].strong
       /\ SameIdentity(sess[s].pn, claims[o].pn)
       /\ Ours(o, OwnersOf(s))
    THEN PreferFull(claims[o].pn, sess[s].pn)
    ELSE NoPn

-----------------------------------------------------------------------------
(* Changing the dict *)

\* Assigning to an existing key keeps its place, a new key goes last.
Placed(o) == IF Held(o) THEN before
             ELSE before \cup {<<q, o>> : q \in {x \in Owner : Held(x)}}

\* Variant: the removed key stays behind the others.
WithoutSource(order, o) == {p \in order : p[1] # o}

Without(order, o) == {p \in order : p[1] # o /\ p[2] # o}

Store(o, claim) ==
    /\ claims' = [claims EXCEPT ![o] = claim]
    /\ before' = Placed(o)

Drop(o) ==
    /\ claims' = [claims EXCEPT ![o] = NoClaim]
    /\ before' = Without(before, o)

\* The same-owner test of every enriching call: the claim may gain a PN or a
\* more complete spelling of its own, never another identity.
SameOrEmpty(o, pn) == claims[o].pn = NoPn \/ SameIdentity(claims[o].pn, pn)

Enriched(o, pn) == [claims[o] EXCEPT !.pn = PreferFull(claims[o].pn, pn)]

-----------------------------------------------------------------------------
(* The listener: sockets come, identify themselves, are routed and go *)

Accept(s, c) ==
    /\ sess[s].phase = "none"
    /\ \A t \in 1 .. (s - 1) : sess[t].phase # "none"
    /\ sess' = [sess EXCEPT ![s] = Socket("parked", c, NoPn, FALSE)]
    /\ UNCHANGED <<claims, before, setup>>

\* _mark_session_identity: a heartbeat may carry any spelling of the peer's PN
\* (weak), a correlated identity answer carries the full one (strong).
Identify(s, pn, strong, settled) ==
    /\ sess[s].phase \in Unrouted \cup {"routed"}
    /\ IsPnPrefix(pn, sess[s].peer)
    /\ strong => pn = sess[s].peer
    /\ settled = "waiting" => ~(strong \/ sess[s].strong)
    /\ sess' = [sess EXCEPT ![s] =
           Socket(IF @.phase \in Unrouted THEN settled ELSE @.phase,
                  @.peer, ReconcilePn(@.pn, pn), @.strong \/ strong)]
    /\ UNCHANGED <<claims, before, setup>>

\* _claim_pending_socket with activate_pending_connection, or the sniffer's own
\* routing of an identified socket.
Activate(s) ==
    /\ sess[s].phase \in Unrouted
    /\ sess' = [sess EXCEPT ![s].phase = "routed"]
    /\ UNCHANGED <<claims, before, setup>>

\* Terminal: the socket is closed or detached and never published again.
Close(s) ==
    /\ sess[s].phase \in Unrouted \cup {"routed"}
    /\ sess' = [sess EXCEPT ![s] = Socket("gone", NoPn, NoPn, FALSE)]
    /\ UNCHANGED <<claims, before, setup>>

-----------------------------------------------------------------------------
(* Entry setup and unload: integration_registration.py *)

\* Variant: a claim that was not prepared can be consumed too.
AnySource(e, pn) == {o \in Owner \ {e} : SameIdentity(claims[o].pn, pn)}

\* complete_handoff: the prepared claim that setup of e with this PN consumes.
HandoffSources(e, pn) ==
    {o \in Owner \ {e} : claims[o].pending /\ SameIdentity(claims[o].pn, pn)}

MayComplete(e, o) == SameOrEmpty(e, claims[o].pn)

CompleteHandoff(e, pn) ==
    \E o \in HandoffSources(e, pn) :
        /\ IsFirst(o, HandoffSources(e, pn))
        /\ MayComplete(e, o)
        /\ claims' = [claims EXCEPT
               ![e] = [pn |-> PreferFull(claims[o].pn, claims[e].pn),
                       sid |-> claims[o].sid, pending |-> FALSE],
               ![o] = NoClaim]
        /\ before' = Without(Placed(e), o)

\* Variant: claim() trusts its own slot and does not ask owner_for_pn.
MayClaimUnowned(e, pn) ==
    /\ SameOrEmpty(e, pn)
    /\ \A m \in MatchedSession(pn) : SameOrEmpty(e, m.pn)

\* claim(e, collector_pn=pn), enriching from the matching observation.
MayClaim(e, pn) ==
    /\ Ours(e, HoldersOf(pn))
    /\ SameOrEmpty(e, pn)
    /\ \A m \in MatchedSession(pn) : SameOrEmpty(e, m.pn)

ClaimPn(e, pn) ==
    /\ MayClaim(e, pn)
    /\ \/ /\ MatchedSession(pn) = {}
          /\ Store(e, Enriched(e, pn))
       \/ \E m \in MatchedSession(pn) :
             Store(e, [Enriched(e, PreferFull(pn, m.pn)) EXCEPT
                          !.sid = IF @ = NoSession THEN m.sid ELSE @])

SetupEntry(e, pn) ==
    /\ setup[e] # "loaded"
    /\ \/ CompleteHandoff(e, pn)
       \/ HandoffSources(e, pn) = {} /\ ClaimPn(e, pn)
    /\ setup' = [setup EXCEPT ![e] = "loaded"]
    /\ UNCHANGED sess

\* A refused setup runs the unload hook, which releases whatever e holds; the
\* owner that answers for the PN decides between retry and fail-closed.
SetupRefused(e, pn) ==
    /\ setup[e] # "loaded"
    /\ IF HandoffSources(e, pn) # {}
       THEN \E o \in HandoffSources(e, pn) :
                IsFirst(o, HandoffSources(e, pn)) /\ ~MayComplete(e, o)
       ELSE ~MayClaim(e, pn)
    /\ Drop(e)
    /\ setup' = [setup EXCEPT ![e] =
           IF \E o \in Verification : IsFirst(o, HoldersOf(pn))
           THEN "retry" ELSE "off"]
    /\ UNCHANGED sess

UnloadEntry(e) ==
    /\ setup[e] # "off" \/ Held(e)
    /\ Drop(e)
    /\ setup' = [setup EXCEPT ![e] = "off"]
    /\ UNCHANGED sess

-----------------------------------------------------------------------------
(* The calls of flows and of an entry's own transactions *)

\* claim_session: a transient claim of exactly one socket that was observed with
\* an identity; an admission may hold a stale id, of a socket that is gone.  A
\* permanent owner only ever claims the socket its recovery bootstrapped.
ClaimSession(o, s) ==
    /\ o \in Verification \cup Recovery \/ (o \in Entry /\ claims[o].pn # NoPn)
    /\ Visible(s) \/ sess[s].phase = "gone"
    /\ \A q \in Owner \ {o} : claims[q].sid # s
    /\ Visible(s) => /\ Ours(o, HoldersOf(sess[s].pn))
                     /\ SameOrEmpty(o, sess[s].pn)
    /\ claims[o].sid \in {NoSession, s}
    /\ Store(o, [claims[o] EXCEPT !.sid = s])
    /\ UNCHANGED <<sess, setup>>

\* promote_claim_to_full_pn with the PN just read on the claimed socket.
MayPromote(o, pn) == Ours(o, HoldersOf(pn)) /\ SameOrEmpty(o, pn)

\* Variant: promotion with the PN the socket announced.
AnnouncedPn(o) == IF claims[o].sid = NoSession THEN NoPn ELSE sess[claims[o].sid].pn

ReadPn(o) == IF claims[o].sid = NoSession THEN NoPn ELSE sess[claims[o].sid].peer

Promote(o) ==
    /\ o \notin Removal
    /\ ReadPn(o) # NoPn
    /\ MayPromote(o, ReadPn(o))
    /\ Store(o, Enriched(o, ReadPn(o)))
    /\ UNCHANGED <<sess, setup>>

\* A refused promotion ends a flow, which then releases its claim.
PromoteRefused(o) ==
    /\ o \in Verification \cup Recovery
    /\ ReadPn(o) # NoPn
    /\ ~MayPromote(o, ReadPn(o))
    /\ Drop(o)
    /\ UNCHANGED <<sess, setup>>

\* prepare_handoff by a flow for a spelling of the identity it certified; a
\* refusal releases the claim as well.
MayPrepare(o, pn) == Ours(o, HoldersOf(pn)) /\ SameOrEmpty(o, pn)

PrepareHandoff(o, pn) ==
    /\ o \in Verification \cup Recovery
    /\ SameIdentity(pn, claims[o].pn)
    /\ IF MayPrepare(o, pn)
       THEN Store(o, [Enriched(o, pn) EXCEPT !.pending = TRUE])
       ELSE Drop(o)
    /\ UNCHANGED <<sess, setup>>

Release(o) ==
    /\ o \in Flow
    /\ Held(o)
    /\ Drop(o)
    /\ UNCHANGED <<sess, setup>>

\* retarget_claim_to_reconnected_session: same identity, new socket.
Retarget(o, s) ==
    /\ o \notin Removal
    /\ claims[o].pn # NoPn
    /\ claims[o].sid # s
    /\ Visible(s)
    /\ SameIdentity(claims[o].pn, sess[s].pn)
    /\ Ours(o, OwnersOf(s))
    /\ Store(o, [claims[o] EXCEPT !.sid = s])
    /\ UNCHANGED <<sess, setup>>

\* claim_identity: PN-only ownership for a cold repair of an entry.
MayClaimIdentity(o, pn) ==
    /\ Ours(o, HoldersOf(pn))
    /\ SameOrEmpty(o, pn)
    /\ claims[o].pn = NoPn => claims[o] = NoClaim

ClaimIdentity(e, pn) ==
    /\ e \in Entry
    /\ MayClaimIdentity(e, pn)
    /\ Store(e, Enriched(e, pn))
    /\ UNCHANGED <<sess, setup>>

\* pin_owner_claim_to_current_observed_session: the socket the runtime's own
\* handle names, when it is not owned by somebody else.
PinCurrent(e, s) ==
    /\ e \in Entry
    /\ claims[e].pn # NoPn
    /\ IsHandleFor(claims[e].pn, s)
    /\ WireObserved(s)
    /\ claims[e].sid # s
    /\ Ours(e, OwnersOf(s))
    /\ Store(e, [claims[e] EXCEPT !.sid = s])
    /\ UNCHANGED <<sess, setup>>

\* Removal finalizer: claim_identity, pin_owner_claim_to_session and the exact
\* certification in one synchronous run; any refusal releases the fresh owner.
FinalizeRemoval(o, pn, s) ==
    /\ o \in Removal
    /\ claims[o] = NoClaim
    /\ MayClaimIdentity(o, pn)
    /\ Visible(s)
    /\ sess[s].strong
    /\ SameIdentity(sess[s].pn, pn)
    /\ OwnersOf(s) = {}
    /\ Store(o, [NoClaim EXCEPT !.pn = pn, !.sid = s])
    /\ UNCHANGED <<sess, setup>>

-----------------------------------------------------------------------------
(* Specification *)

Init ==
    /\ claims = [o \in Owner |-> NoClaim]
    /\ before = {}
    /\ sess = [s \in Session |-> Socket("none", NoPn, NoPn, FALSE)]
    /\ setup = [e \in Entry |-> "off"]

ListenerStep ==
    \E s \in Session :
        \/ \E c \in FullPN : Accept(s, c)
        \/ \E pn \in PN, strong \in BOOLEAN, settled \in Settled :
              Identify(s, pn, strong, settled)
        \/ Activate(s)
        \/ Close(s)

EntryStep ==
    \E e \in Entry :
        \/ \E pn \in PN : SetupEntry(e, pn)
        \/ \E pn \in PN : SetupRefused(e, pn)
        \/ UnloadEntry(e)
        \/ \E pn \in PN : ClaimIdentity(e, pn)
        \/ \E s \in Session : PinCurrent(e, s)

OwnerStep ==
    \E o \in Owner :
        \/ \E s \in Session : ClaimSession(o, s)
        \/ Promote(o)
        \/ PromoteRefused(o)
        \/ \E pn \in PN : PrepareHandoff(o, pn)
        \/ Release(o)
        \/ \E s \in Session : Retarget(o, s)
        \/ \E pn \in PN, s \in Session : FinalizeRemoval(o, pn, s)

Next == ListenerStep \/ EntryStep \/ OwnerStep

Spec == Init /\ [][Next]_vars

-----------------------------------------------------------------------------
(* Properties *)

\* The dict order is a strict total order on exactly the owners that hold a
\* claim, so "the first match" is well defined.
OrderOK ==
    /\ \A o, q \in Owner : <<o, q>> \in before =>
           Held(o) /\ Held(q) /\ o # q /\ <<q, o>> \notin before
    /\ \A o, q \in Owner : Held(o) /\ Held(q) /\ o # q =>
           <<o, q>> \in before \/ <<q, o>> \in before
    /\ \A o, q, r \in Owner :
           <<o, q>> \in before /\ <<q, r>> \in before => <<o, r>> \in before

\* Types of the registry's dict, the inventory and the setup outcomes.
TypeOK ==
    /\ OrderOK
    /\ claims \in [Owner -> Claim]
    /\ before \subseteq Owner \X Owner
    /\ sess \in [Session -> SessionRecord]
    /\ setup \in [Entry -> SetupOutcome]

\* Full PN is durable identity: no two owners' claims ever stand for the same
\* collector, although a claim may be taken on a short PN and enriched later by
\* a path that does not look at the other claims (claim, reconcile, promote).
IdentityExclusive ==
    \A o, q \in Owner : SameIdentity(claims[o].pn, claims[q].pn) => o = q

\* What certify_owner_reconnected_session vouches for is the truth: the socket
\* really belongs to the collector whose PN is returned, even when the claim was
\* pinned or retargeted while the socket only showed an ambiguous short PN.
CertifiedIsTrue ==
    \A o \in Owner, s \in Session :
        CertifiedPn(o, s) # NoPn => CertifiedPn(o, s) = sess[s].peer

\* Only a concrete socket whose full PN was read may be handed to an entry.
PreparedIsProven ==
    \A o \in Owner : claims[o].pending => /\ claims[o].pn \in FullPN
                                          /\ claims[o].sid # NoSession

\* "The runtime never starts without ownership", and nobody takes it away: an
\* entry that finished setup holds an identity until it is unloaded.
LoadedOwns == \A e \in Entry : setup[e] = "loaded" => claims[e].pn \in PN

\* A claim may only be enriched: as long as its owner keeps it, its PN never
\* switches to another collector and is never shortened.
OnlyEnriched(o) ==
    claims[o].pn # NoPn /\ claims'[o] # NoClaim
        => IsPnPrefix(claims[o].pn, claims'[o].pn)
ClaimOnlyEnriches == [][\A o \in Owner : OnlyEnriched(o)]_vars
=============================================================================
