----------------------- MODULE SessionRegistryProofs -----------------------
(***************************************************************************)
(* What SessionRegistry guarantees for any set of part numbers whose        *)
(* spellings form prefix chains, any owners and any number of sockets.      *)
(***************************************************************************)
EXTENDS SessionRegistry, TLAPS

-----------------------------------------------------------------------------
(* The PN rules *)

AnyPn == PN \cup {NoPn}

\* The empty PN is nobody's identity.
LEMMA NoPnIsNoIdentity ==
    \A a : ~SameIdentity(NoPn, a) /\ ~SameIdentity(a, NoPn)
  BY PnTypeAssumption DEF PnTypeAssumption, SameIdentity

\* prefer_full_pn only ever returns one of its arguments.
LEMMA PreferIsOneOf ==
    ASSUME NEW a \in AnyPn, NEW b \in AnyPn
    PROVE  /\ PreferFull(a, b) \in {a, b}
           /\ a # NoPn \/ b # NoPn => PreferFull(a, b) \in PN
  BY DEF PreferFull, AnyPn

\* Of two spellings of one identity it returns the continuation of both.
LEMMA PreferContinues ==
    ASSUME NEW a \in PN, NEW b \in PN, SameIdentity(a, b)
    PROVE  /\ IsPnPrefix(a, PreferFull(a, b))
           /\ IsPnPrefix(b, PreferFull(a, b))
<1> USE PnTypeAssumption, PrefixOrderAssumption
<1>1. a # NoPn /\ b # NoPn
  BY DEF PnTypeAssumption
<1>2. PnLen[a] \in Nat /\ PnLen[b] \in Nat
  BY DEF PnTypeAssumption
<1>3. CASE a = b
  BY <1>1, <1>3 DEF PreferFull, PrefixOrderAssumption
<1>4. CASE a # b /\ IsPnPrefix(a, b)
  <2>1. PnLen[a] < PnLen[b]
    BY <1>4 DEF PrefixOrderAssumption
  <2>2. PreferFull(a, b) = b
    BY <1>1, <1>2, <2>1 DEF PreferFull
  <2> QED
    BY <1>4, <2>2 DEF PrefixOrderAssumption
<1>5. CASE a # b /\ IsPnPrefix(b, a)
  <2>1. PnLen[b] < PnLen[a]
    BY <1>5 DEF PrefixOrderAssumption
  <2>2. PreferFull(a, b) = a
    BY <1>1, <1>2, <2>1 DEF PreferFull
  <2> QED
    BY <1>5, <2>2 DEF PrefixOrderAssumption
<1> QED
  BY <1>3, <1>4, <1>5 DEF SameIdentity

\* pn_is_same_identity does not depend on the order of its arguments.
LEMMA SameIdentitySymmetric ==
    \A a, b : SameIdentity(a, b) => SameIdentity(b, a)
  BY DEF SameIdentity

\* Prefix identity is not transitive, but whoever shares the identity of a PN
\* shares that of every shorter spelling of it.
LEMMA SharedByShorter ==
    ASSUME NEW c \in PN, NEW p \in PN, NEW q \in PN,
           SameIdentity(c, p), IsPnPrefix(c, p), SameIdentity(q, p)
    PROVE  SameIdentity(q, c)
<1> USE PrefixOrderAssumption DEF PrefixOrderAssumption
<1>1. CASE q = p
  BY <1>1, SameIdentitySymmetric
<1>2. CASE c = p
  BY <1>2
<1>3. CASE q # p /\ c # p
  <2>1. /\ PnLen[c] >= MinPrefixLen
        /\ PnLen[q] >= MinPrefixLen
    BY <1>3 DEF SameIdentity
  <2>2. IsPnPrefix(q, p) \/ IsPnPrefix(p, q)
    BY <1>3 DEF SameIdentity
  <2>3. IsPnPrefix(q, c) \/ IsPnPrefix(c, q)
    BY <2>2
  <2> QED
    BY <2>1, <2>3 DEF SameIdentity
<1> QED
  BY <1>1, <1>2, <1>3

\* A full PN has no longer spelling.
LEMMA FullIsFinal ==
    ASSUME NEW f \in FullPN, NEW a \in PN, SameIdentity(a, f)
    PROVE  PreferFull(a, f) = f /\ PreferFull(f, a) = f
<1>1. f \in PN
  BY PnTypeAssumption DEF PnTypeAssumption
<1>2. IsPnPrefix(f, PreferFull(a, f)) /\ IsPnPrefix(f, PreferFull(f, a))
  BY <1>1, PreferContinues, SameIdentitySymmetric
<1>3. PreferFull(a, f) \in PN /\ PreferFull(f, a) \in PN
  BY <1>1, PreferIsOneOf, PnTypeAssumption DEF AnyPn, PnTypeAssumption
<1> QED
  BY <1>2, <1>3, FullPnAssumption DEF FullPnAssumption

-----------------------------------------------------------------------------
(* Enriching a claim *)

\* The PN r may replace that of o: it continues what o holds, and no other owner
\* shares its identity.
Continues(o, r) ==
    /\ r \in PN
    /\ claims[o].pn # NoPn => IsPnPrefix(claims[o].pn, r)
    /\ \A q \in Owner \ {o} : ~SameIdentity(claims[q].pn, r)

\* A claim may keep the PN it has.
LEMMA KeptPn ==
    ASSUME TypeOK, IdentityExclusive, NEW o \in Owner, claims[o].pn # NoPn
    PROVE  Continues(o, claims[o].pn)
<1>1. claims[o].pn \in PN
  BY DEF TypeOK, Claim
<1>2. IsPnPrefix(claims[o].pn, claims[o].pn)
  BY <1>1, PrefixOrderAssumption DEF PrefixOrderAssumption
<1> QED
  BY <1>1, <1>2 DEF Continues, IdentityExclusive

\* Enrichment with a PN that passed the owner_for_pn guard, although prefix
\* identity is not transitive and the guard answers with one owner only.
LEMMA EnrichedPn ==
    ASSUME TypeOK, IdentityExclusive, NEW o \in Owner, NEW p \in PN,
           Ours(o, HoldersOf(p)), SameOrEmpty(o, p)
    PROVE  Continues(o, PreferFull(claims[o].pn, p))
<1> DEFINE r == PreferFull(claims[o].pn, p)
<1>1. claims[o].pn \in AnyPn /\ p \in AnyPn /\ p # NoPn
  BY PnTypeAssumption DEF TypeOK, Claim, AnyPn, PnTypeAssumption
<1>2. r \in {claims[o].pn, p} /\ r \in PN
  BY <1>1, PreferIsOneOf
<1>3. claims[o].pn # NoPn => IsPnPrefix(claims[o].pn, r)
  <2> SUFFICES ASSUME claims[o].pn # NoPn PROVE IsPnPrefix(claims[o].pn, r)
    OBVIOUS
  <2>1. claims[o].pn \in PN /\ SameIdentity(claims[o].pn, p)
    BY <1>1 DEF SameOrEmpty, AnyPn
  <2> QED
    BY <2>1, PreferContinues
<1>4. ASSUME NEW q \in Owner \ {o}, SameIdentity(claims[q].pn, r) PROVE FALSE
  <2>1. ~SameIdentity(claims[q].pn, claims[o].pn)
    BY <1>4 DEF IdentityExclusive
  <2>2. r = p /\ SameIdentity(claims[q].pn, p)
    BY <1>2, <1>4, <2>1
  <2>3. q \in HoldersOf(p)
    BY <2>2, <1>4 DEF HoldersOf
  <2>4. SameIdentity(claims[o].pn, p)
    BY <2>3 DEF Ours, IsFirst, HoldersOf
  <2>5. claims[o].pn \in PN /\ claims[q].pn \in PN
    BY <2>2, <2>4 DEF SameIdentity
  <2>6. IsPnPrefix(claims[o].pn, p)
    BY <2>2, <2>4, <2>5, PreferContinues
  <2> QED
    BY <2>1, <2>2, <2>4, <2>5, <2>6, SharedByShorter
<1> QED
  BY <1>2, <1>3, <1>4 DEF Continues

\* The same when claim() first completes its PN from an observed session, which
\* no guard compares with the other owners' claims.
LEMMA MatchedPn ==
    ASSUME TypeOK, IdentityExclusive, NEW o \in Owner, NEW p \in PN, NEW m \in PN,
           Ours(o, HoldersOf(p)), SameOrEmpty(o, p),
           SameIdentity(p, m), SameOrEmpty(o, m)
    PROVE  Continues(o, PreferFull(claims[o].pn, PreferFull(p, m)))
<1>1. p \in AnyPn /\ m \in AnyPn /\ p # NoPn /\ m # NoPn
  BY PnTypeAssumption DEF AnyPn, PnTypeAssumption
<1>2. PreferFull(p, m) \in {p, m}
  BY <1>1, PreferIsOneOf
<1>3. CASE PreferFull(p, m) = p
  BY <1>3, EnrichedPn
<1>4. CASE PreferFull(p, m) = m
  <2> DEFINE r == PreferFull(claims[o].pn, m)
  <2>0. IsPnPrefix(p, m)
    BY <1>4, PreferContinues
  <2>1. claims[o].pn \in AnyPn
    BY DEF TypeOK, Claim, AnyPn
  <2>2. r \in {claims[o].pn, m} /\ r \in PN
    BY <1>1, <2>1, PreferIsOneOf
  <2>3. claims[o].pn # NoPn => IsPnPrefix(claims[o].pn, r)
    <3> SUFFICES ASSUME claims[o].pn # NoPn PROVE IsPnPrefix(claims[o].pn, r)
      OBVIOUS
    <3>1. claims[o].pn \in PN /\ SameIdentity(claims[o].pn, m)
      BY <2>1 DEF SameOrEmpty, AnyPn
    <3> QED
      BY <3>1, PreferContinues
  <2>4. ASSUME NEW q \in Owner \ {o}, SameIdentity(claims[q].pn, r) PROVE FALSE
    <3>1. ~SameIdentity(claims[q].pn, claims[o].pn)
      BY <2>4 DEF IdentityExclusive
    <3>2. r = m /\ SameIdentity(claims[q].pn, m) /\ claims[q].pn \in PN
      BY <2>2, <2>4, <3>1 DEF SameIdentity
    <3>3. q \in HoldersOf(p)
      BY <2>0, <2>4, <3>2, SharedByShorter DEF HoldersOf
    <3>4. claims[o].pn \in PN /\ SameIdentity(claims[o].pn, m)
      BY <3>3, NoPnIsNoIdentity DEF Ours, IsFirst, HoldersOf, SameOrEmpty, SameIdentity
    <3>5. IsPnPrefix(claims[o].pn, m)
      BY <3>2, <3>4, PreferContinues
    <3> QED
      BY <3>1, <3>2, <3>4, <3>5, SharedByShorter
  <2> QED
    BY <1>4, <2>2, <2>3, <2>4 DEF Continues
<1> QED
  BY <1>2, <1>3, <1>4

-----------------------------------------------------------------------------
(* The dict order *)

\* Assigning to a key of the dict keeps its order a total order on the keys.
LEMMA StoreKeepsOrder ==
    ASSUME TypeOK, NEW o \in Owner, NEW c \in Claim, c # NoClaim, Store(o, c)
    PROVE  OrderOK' /\ before' \subseteq Owner \X Owner
<1>1. /\ claims'[o] = c
      /\ \A q \in Owner : q # o => claims'[q] = claims[q]
  BY DEF Store, TypeOK
<1>2. \A q \in Owner : Held(q)' <=> Held(q) \/ q = o
  BY <1>1 DEF Held
<1>3. CASE Held(o)
  <2>1. before' = before
    BY <1>3 DEF Store, Placed
  <2>2. \A q \in Owner : Held(q)' <=> Held(q)
    BY <1>2, <1>3
  <2> QED
    BY <2>1, <2>2 DEF OrderOK, TypeOK
<1>4. CASE ~Held(o)
  <2>1. before' = before \cup {<<q, o>> : q \in {x \in Owner : Held(x)}}
    BY <1>4 DEF Store, Placed
  <2>2. \A q, r \in Owner : <<q, r>> \in before' <=>
            <<q, r>> \in before \/ (Held(q) /\ r = o)
    BY <2>1
  <2>3. \A q \in Owner : <<q, o>> \notin before /\ <<o, q>> \notin before
    BY <1>4 DEF TypeOK, OrderOK
  <2>4. before' \subseteq Owner \X Owner
    BY <2>1 DEF TypeOK
  <2>5. \A q, r \in Owner : <<q, r>> \in before' =>
            Held(q)' /\ Held(r)' /\ q # r /\ <<r, q>> \notin before'
    BY <1>2, <1>4, <2>2, <2>3 DEF TypeOK, OrderOK
  <2>6. \A q, r \in Owner : Held(q)' /\ Held(r)' /\ q # r =>
            <<q, r>> \in before' \/ <<r, q>> \in before'
    BY <1>2, <2>2 DEF TypeOK, OrderOK
  <2>7. \A q, r, x \in Owner : <<q, r>> \in before' /\ <<r, x>> \in before' =>
            <<q, x>> \in before'
    BY <2>2, <2>3 DEF TypeOK, OrderOK
  <2> QED
    BY <2>4, <2>5, <2>6, <2>7 DEF OrderOK
<1> QED
  BY <1>3, <1>4

\* So does deleting a key.
LEMMA DropKeepsOrder ==
    ASSUME TypeOK, NEW o \in Owner, Drop(o)
    PROVE  OrderOK' /\ before' \subseteq Owner \X Owner
<1>1. /\ claims'[o] = NoClaim
      /\ \A q \in Owner : q # o => claims'[q] = claims[q]
  BY DEF Drop, TypeOK
<1>2. \A q \in Owner : Held(q)' <=> Held(q) /\ q # o
  BY <1>1 DEF Held
<1>3. /\ before' \subseteq before
      /\ \A q, r \in Owner : <<q, r>> \in before' <=>
             <<q, r>> \in before /\ q # o /\ r # o
  BY DEF Drop, Without
<1> QED
  BY <1>2, <1>3 DEF OrderOK, TypeOK

\* complete_handoff stores the entry's claim, then deletes the flow's.
LEMMA HandoffKeepsOrder ==
    ASSUME TypeOK, NEW e \in Owner, NEW o \in Owner \ {e}, NEW c \in Claim, c # NoClaim,
           claims' = [claims EXCEPT ![e] = c, ![o] = NoClaim],
           before' = Without(Placed(e), o)
    PROVE  OrderOK' /\ before' \subseteq Owner \X Owner
<1>1. /\ claims'[e] = c
      /\ claims'[o] = NoClaim
      /\ \A q \in Owner : q # e /\ q # o => claims'[q] = claims[q]
  BY DEF TypeOK
<1>2. \A q \in Owner : Held(q)' <=> (Held(q) \/ q = e) /\ q # o
  BY <1>1 DEF Held
<1>3. \A q, r \in Owner : <<q, r>> \in before' <=>
          /\ <<q, r>> \in before \/ (~Held(e) /\ Held(q) /\ r = e)
          /\ q # o /\ r # o
  BY DEF Without, Placed
<1>4. before' \subseteq Owner \X Owner
  BY DEF Without, Placed, TypeOK
<1>5. ~Held(e) => \A q \in Owner : <<q, e>> \notin before /\ <<e, q>> \notin before
  BY DEF TypeOK, OrderOK
<1>6. \A q, r \in Owner : <<q, r>> \in before' =>
          Held(q)' /\ Held(r)' /\ q # r /\ <<r, q>> \notin before'
  BY <1>2, <1>3, <1>5 DEF TypeOK, OrderOK
<1>7. \A q, r \in Owner : Held(q)' /\ Held(r)' /\ q # r =>
          <<q, r>> \in before' \/ <<r, q>> \in before'
  BY <1>2, <1>3, <1>5 DEF TypeOK, OrderOK
<1>8. \A q, r, x \in Owner : <<q, r>> \in before' /\ <<r, x>> \in before' =>
          <<q, x>> \in before'
  BY <1>2, <1>3, <1>5 DEF TypeOK, OrderOK
<1> QED
  BY <1>4, <1>6, <1>7, <1>8 DEF OrderOK

-----------------------------------------------------------------------------
(* The inductive invariant *)

Prover == Verification \cup Recovery

\* What a socket announced is a spelling of its peer's PN, the full one when the
\* answer was strong.
SocketsOK ==
    \A s \in Session :
        /\ sess[s].pn # NoPn => /\ sess[s].peer \in FullPN
                                /\ IsPnPrefix(sess[s].pn, sess[s].peer)
        /\ sess[s].strong => sess[s].pn # NoPn /\ sess[s].pn = sess[s].peer

\* A flow has a PN only after it read the full one on a concrete socket, and only
\* such a flow prepares a handoff.
FlowsOK ==
    /\ \A o \in Prover : claims[o].pn # NoPn => /\ claims[o].pn \in FullPN
                                                /\ claims[o].sid # NoSession
    /\ \A o \in Owner : claims[o].pending => o \in Prover /\ claims[o].pn # NoPn

IInv == TypeOK /\ IdentityExclusive /\ SocketsOK /\ FlowsOK /\ LoadedOwns

\* The claims that a call may store under o.
Storable(o, c) ==
    /\ c \in Claim
    /\ c # NoClaim
    /\ (c.pn = NoPn /\ claims[o].pn = NoPn) \/ Continues(o, c.pn)
    /\ o \in Prover /\ c.pn # NoPn => c.pn \in FullPN /\ c.sid # NoSession
    /\ c.pending => o \in Prover /\ c.pn # NoPn

StoresFor(o) == \E c \in Claim : Store(o, c) /\ Storable(o, c)

\* An update of the session id alone.
LEMMA RebindStores ==
    ASSUME IInv, NEW o \in Owner, NEW s \in Session,
           Store(o, [claims[o] EXCEPT !.sid = s])
    PROVE  StoresFor(o)
<1> DEFINE c == [claims[o] EXCEPT !.sid = s]
<1>1. claims[o] \in Claim
  BY DEF IInv, TypeOK
<1>2. s # NoSession
  BY OwnerAssumption DEF OwnerAssumption, Session, NoSession
<1>3. /\ c \in Claim /\ c.sid = s /\ c.pn = claims[o].pn
      /\ c.pending = claims[o].pending
  BY <1>1 DEF Claim
<1>4. c # NoClaim
  BY <1>2, <1>3 DEF NoClaim
<1>5. (c.pn = NoPn /\ claims[o].pn = NoPn) \/ Continues(o, c.pn)
  BY <1>3, KeptPn DEF IInv
<1>6. Storable(o, c)
  BY <1>2, <1>3, <1>4, <1>5 DEF Storable, IInv, FlowsOK
<1> QED
  BY <1>3, <1>6 DEF StoresFor

\* An entry's claim that gains a PN, and possibly a session id.
LEMMA EntryStores ==
    ASSUME IInv, NEW e \in Entry, NEW r, Continues(e, r),
           NEW i \in Session \cup {NoSession},
           Store(e, [claims[e] EXCEPT !.pn = r, !.sid = i])
    PROVE  StoresFor(e) /\ claims'[e].pn \in PN
<1> DEFINE c == [claims[e] EXCEPT !.pn = r, !.sid = i]
<1>1. e \in Owner /\ e \notin Prover
  BY OwnerAssumption DEF OwnerAssumption, Owner, Flow, Prover
<1>2. claims[e] \in Claim /\ ~claims[e].pending
  BY <1>1 DEF IInv, TypeOK, FlowsOK
<1>3. r \in PN /\ r # NoPn
  BY PnTypeAssumption DEF Continues, PnTypeAssumption
<1>4. c \in Claim /\ c.pn = r /\ ~c.pending
  BY <1>2, <1>3 DEF Claim
<1>5. c # NoClaim
  BY <1>3, <1>4 DEF NoClaim
<1>6. Storable(e, c)
  BY <1>1, <1>4, <1>5 DEF Storable
<1>7. claims'[e] = c
  BY <1>1 DEF Store, IInv, TypeOK
<1> QED
  BY <1>3, <1>4, <1>6, <1>7 DEF StoresFor

\* claim() stores a legitimate claim with a PN.
LEMMA ClaimPnStores ==
    ASSUME IInv, NEW e \in Entry, NEW pn \in PN, ClaimPn(e, pn)
    PROVE  StoresFor(e) /\ claims'[e].pn \in PN
<1>0. /\ e \in Owner /\ TypeOK /\ IdentityExclusive
      /\ Ours(e, HoldersOf(pn)) /\ SameOrEmpty(e, pn)
  BY DEF Owner, IInv, ClaimPn, MayClaim
<1>1. claims[e] \in Claim
  BY <1>0 DEF TypeOK
<1>2. CASE Store(e, Enriched(e, pn))
  <2>1. Continues(e, PreferFull(claims[e].pn, pn))
    BY <1>0, EnrichedPn
  <2>2. Enriched(e, pn) = [claims[e] EXCEPT !.pn = PreferFull(claims[e].pn, pn),
                                            !.sid = claims[e].sid]
    BY <1>1 DEF Enriched, Claim
  <2>3. claims[e].sid \in Session \cup {NoSession}
    BY <1>1 DEF Claim
  <2>4. Store(e, [claims[e] EXCEPT !.pn = PreferFull(claims[e].pn, pn),
                                   !.sid = claims[e].sid])
    BY <1>2, <2>2
  <2> QED
    BY <2>1, <2>3, <2>4, EntryStores
<1>3. ASSUME NEW m \in MatchedSession(pn),
             Store(e, [Enriched(e, PreferFull(pn, m.pn)) EXCEPT
                          !.sid = IF @ = NoSession THEN m.sid ELSE @])
      PROVE  StoresFor(e) /\ claims'[e].pn \in PN
  <2>1. /\ m.pn \in PN
        /\ m.sid \in Session
        /\ SameIdentity(pn, m.pn)
    BY DEF MatchedSession, Observation
  <2>2. SameOrEmpty(e, m.pn)
    BY DEF ClaimPn, MayClaim
  <2> DEFINE r == PreferFull(claims[e].pn, PreferFull(pn, m.pn))
             i == IF claims[e].sid = NoSession THEN m.sid ELSE claims[e].sid
  <2>3. Continues(e, r)
    BY <1>0, <2>1, <2>2, MatchedPn
  <2>4. i \in Session \cup {NoSession}
    BY <1>1, <2>1 DEF Claim
  <2>5. [Enriched(e, PreferFull(pn, m.pn)) EXCEPT
            !.sid = IF @ = NoSession THEN m.sid ELSE @]
          = [claims[e] EXCEPT !.pn = r, !.sid = i]
    BY <1>1 DEF Enriched, Claim
  <2> QED
    BY <1>3, <2>3, <2>4, <2>5, EntryStores
<1> QED
  BY <1>2, <1>3 DEF ClaimPn

\* claim_identity() stores a legitimate claim.
LEMMA ClaimIdentityStores ==
    ASSUME IInv, NEW e \in Entry, NEW pn \in PN, ClaimIdentity(e, pn)
    PROVE  StoresFor(e)
<1>1. e \in Owner /\ TypeOK /\ IdentityExclusive
  BY DEF Owner, IInv
<1>2. claims[e] \in Claim
  BY <1>1 DEF TypeOK
<1>3. Continues(e, PreferFull(claims[e].pn, pn))
  BY <1>1, EnrichedPn DEF ClaimIdentity, MayClaimIdentity
<1>4. Enriched(e, pn) = [claims[e] EXCEPT !.pn = PreferFull(claims[e].pn, pn),
                                          !.sid = claims[e].sid]
  BY <1>2 DEF Enriched, Claim
<1>5. claims[e].sid \in Session \cup {NoSession}
  BY <1>2 DEF Claim
<1> QED
  BY <1>3, <1>4, <1>5, EntryStores DEF ClaimIdentity

\* What is read on the claimed socket is a full PN.
LEMMA PromoteStores ==
    ASSUME IInv, NEW o \in Owner, Promote(o)
    PROVE  StoresFor(o)
<1> DEFINE p == ReadPn(o)
           r == PreferFull(claims[o].pn, p)
           c == Enriched(o, p)
<1>1. claims[o] \in Claim /\ TypeOK /\ IdentityExclusive
  BY DEF IInv, TypeOK
<1>2. claims[o].sid \in Session
  BY <1>1 DEF Promote, ReadPn, Claim
<1>3. p \in FullPN
  BY <1>1, <1>2 DEF Promote, ReadPn, TypeOK, SessionRecord, NoSession
<1>4. p \in PN /\ p # NoPn
  BY <1>3, PnTypeAssumption DEF PnTypeAssumption
<1>5. Continues(o, r)
  BY <1>1, <1>4, EnrichedPn DEF Promote, MayPromote
<1>6. r \in PN /\ r # NoPn
  BY <1>5, PnTypeAssumption DEF Continues, PnTypeAssumption
<1>7. r \in FullPN
  <2>1. CASE claims[o].pn = NoPn
    BY <1>3, <2>1 DEF PreferFull
  <2>2. CASE claims[o].pn # NoPn
    <3>1. SameIdentity(claims[o].pn, p) /\ claims[o].pn \in PN
      BY <1>1, <2>2 DEF Promote, MayPromote, SameOrEmpty, Claim
    <3> QED
      BY <1>3, <3>1, FullIsFinal
  <2> QED
    BY <2>1, <2>2
<1>8. c \in Claim /\ c.pn = r /\ c.sid = claims[o].sid /\ c.pending = claims[o].pending
  BY <1>1, <1>6 DEF Enriched, Claim
<1>9. c # NoClaim /\ c.sid # NoSession
  BY <1>2, <1>6, <1>8, OwnerAssumption DEF NoClaim, Session, NoSession, OwnerAssumption
<1>10. Storable(o, c)
  BY <1>5, <1>6, <1>7, <1>8, <1>9 DEF Storable, IInv, FlowsOK
<1> QED
  BY <1>8, <1>10 DEF StoresFor, Promote

\* An accepted prepare_handoff() stores a legitimate claim.
LEMMA PrepareStores ==
    ASSUME IInv, NEW o \in Prover, NEW pn \in PN, SameIdentity(pn, claims[o].pn),
           MayPrepare(o, pn), Store(o, [Enriched(o, pn) EXCEPT !.pending = TRUE])
    PROVE  StoresFor(o)
<1> DEFINE r == PreferFull(claims[o].pn, pn)
           c == [Enriched(o, pn) EXCEPT !.pending = TRUE]
<1>1. o \in Owner
  BY DEF Prover, Owner, Flow
<1>2. claims[o] \in Claim /\ TypeOK /\ IdentityExclusive
  BY <1>1 DEF IInv, TypeOK
<1>3. Continues(o, r)
  BY <1>1, <1>2, EnrichedPn DEF MayPrepare
<1>4. claims[o].pn # NoPn
  BY NoPnIsNoIdentity
<1>5. claims[o].pn \in FullPN /\ claims[o].sid # NoSession
  BY <1>4 DEF IInv, FlowsOK
<1>6. r = claims[o].pn
  BY <1>5, FullIsFinal
<1>7. /\ c \in Claim /\ c.pn = r /\ c.sid = claims[o].sid
  BY <1>2, <1>6 DEF Enriched, Claim
<1>8. c # NoClaim
  BY <1>5, <1>7 DEF NoClaim
<1>9. Storable(o, c)
  BY <1>3, <1>4, <1>5, <1>6, <1>7, <1>8 DEF Storable
<1> QED
  BY <1>7, <1>9 DEF StoresFor

\* The removal finalizer stores a legitimate claim.
LEMMA FinalizeStores ==
    ASSUME IInv, NEW o \in Owner, NEW pn \in PN, NEW s \in Session,
           FinalizeRemoval(o, pn, s)
    PROVE  StoresFor(o)
<1> DEFINE c == [NoClaim EXCEPT !.pn = pn, !.sid = s]
<1>1. o \notin Prover
  BY OwnerAssumption DEF FinalizeRemoval, OwnerAssumption, Prover
<1>2. claims[o].pn = NoPn
  BY DEF FinalizeRemoval, NoClaim
<1>3. Continues(o, PreferFull(claims[o].pn, pn))
  BY EnrichedPn DEF FinalizeRemoval, MayClaimIdentity, IInv
<1>4. Continues(o, pn)
  BY <1>2, <1>3 DEF PreferFull
<1>5. c \in Claim /\ c.pn = pn /\ ~c.pending /\ pn # NoPn
  BY PnTypeAssumption DEF NoClaim, Claim, PnTypeAssumption
<1>6. c # NoClaim
  BY <1>5 DEF NoClaim
<1>7. Storable(o, c)
  BY <1>1, <1>4, <1>5, <1>6 DEF Storable
<1> QED
  BY <1>5, <1>7 DEF StoresFor, FinalizeRemoval

\* A step leaves the claims alone, stores one legitimate claim, drops one, or
\* moves a prepared one.
ClaimsStep ==
    \/ UNCHANGED <<claims, before>>
    \/ \E o \in Owner : StoresFor(o)
    \/ \E o \in Owner : Drop(o)
    \/ \E e \in Entry, pn \in PN : CompleteHandoff(e, pn)

\* Every step has one of these shapes.
LEMMA StepShape == IInv /\ [Next]_vars => ClaimsStep
<1> SUFFICES ASSUME IInv, [Next]_vars PROVE ClaimsStep
  OBVIOUS
<1>1. CASE ListenerStep
  BY <1>1 DEF ListenerStep, Accept, Identify, Activate, Close, ClaimsStep
<1>2. ASSUME NEW e \in Entry,
             \/ \E pn \in PN : SetupEntry(e, pn)
             \/ \E pn \in PN : SetupRefused(e, pn)
             \/ UnloadEntry(e)
             \/ \E pn \in PN : ClaimIdentity(e, pn)
             \/ \E s \in Session : PinCurrent(e, s)
      PROVE  ClaimsStep
  <2>0. e \in Owner
    BY DEF Owner
  <2>1. ASSUME NEW pn \in PN, SetupEntry(e, pn) PROVE ClaimsStep
    BY <2>0, <2>1, ClaimPnStores DEF SetupEntry, ClaimsStep
  <2>2. ASSUME NEW pn \in PN, SetupRefused(e, pn) PROVE ClaimsStep
    BY <2>0, <2>2 DEF SetupRefused, ClaimsStep
  <2>3. CASE UnloadEntry(e)
    BY <2>0, <2>3 DEF UnloadEntry, ClaimsStep
  <2>4. ASSUME NEW pn \in PN, ClaimIdentity(e, pn) PROVE ClaimsStep
    BY <2>0, <2>4, ClaimIdentityStores DEF ClaimsStep
  <2>5. ASSUME NEW s \in Session, PinCurrent(e, s) PROVE ClaimsStep
    BY <2>0, <2>5, RebindStores DEF PinCurrent, ClaimsStep
  <2> QED
    BY <1>2, <2>1, <2>2, <2>3, <2>4, <2>5
<1>3. ASSUME NEW o \in Owner,
             \/ \E s \in Session : ClaimSession(o, s)
             \/ Promote(o)
             \/ PromoteRefused(o)
             \/ \E pn \in PN : PrepareHandoff(o, pn)
             \/ Release(o)
             \/ \E s \in Session : Retarget(o, s)
             \/ \E pn \in PN, s \in Session : FinalizeRemoval(o, pn, s)
      PROVE  ClaimsStep
  <2>1. ASSUME NEW s \in Session, ClaimSession(o, s) PROVE ClaimsStep
    BY <2>1, RebindStores DEF ClaimSession, ClaimsStep
  <2>2. CASE Promote(o)
    BY <2>2, PromoteStores DEF ClaimsStep
  <2>3. CASE PromoteRefused(o) \/ Release(o)
    BY <2>3 DEF PromoteRefused, Release, ClaimsStep
  <2>4. ASSUME NEW pn \in PN, PrepareHandoff(o, pn) PROVE ClaimsStep
    <3>1. o \in Prover /\ SameIdentity(pn, claims[o].pn)
      BY <2>4 DEF PrepareHandoff, Prover
    <3>2. CASE MayPrepare(o, pn)
      BY <2>4, <3>1, <3>2, PrepareStores DEF PrepareHandoff, ClaimsStep
    <3>3. CASE ~MayPrepare(o, pn)
      BY <2>4, <3>3 DEF PrepareHandoff, ClaimsStep
    <3> QED
      BY <3>2, <3>3
  <2>5. ASSUME NEW s \in Session, Retarget(o, s) PROVE ClaimsStep
    BY <2>5, RebindStores DEF Retarget, ClaimsStep
  <2>6. ASSUME NEW pn \in PN, NEW s \in Session, FinalizeRemoval(o, pn, s)
        PROVE  ClaimsStep
    BY <2>6, FinalizeStores DEF ClaimsStep
  <2> QED
    BY <1>3, <2>1, <2>2, <2>3, <2>4, <2>5, <2>6
<1>4. CASE UNCHANGED vars
  BY <1>4 DEF vars, ClaimsStep
<1> QED
  BY <1>1, <1>2, <1>3, <1>4 DEF Next, EntryStep, OwnerStep

\* complete_handoff moves the flow's claim as it is: the entry cannot hold a
\* spelling of its own beside it.
Settle(c) == [pn |-> c.pn, sid |-> c.sid, pending |-> FALSE]

HandsOver(e, o) ==
    /\ e \in Owner /\ o \in Prover /\ o # e
    /\ claims[e].pn = NoPn
    /\ claims[o] \in Claim /\ claims[o].pn \in PN
    /\ claims' = [claims EXCEPT ![e] = Settle(claims[o]), ![o] = NoClaim]
    /\ before' = Without(Placed(e), o)

\* A completed handoff has that shape.
LEMMA HandoffShape ==
    ASSUME IInv, NEW e \in Entry, NEW pn \in PN, CompleteHandoff(e, pn)
    PROVE  \E o \in Prover : HandsOver(e, o)
<1>1. PICK o \in HandoffSources(e, pn) :
          /\ MayComplete(e, o)
          /\ claims' = [claims EXCEPT
                 ![e] = [pn |-> PreferFull(claims[o].pn, claims[e].pn),
                         sid |-> claims[o].sid, pending |-> FALSE],
                 ![o] = NoClaim]
          /\ before' = Without(Placed(e), o)
  BY DEF CompleteHandoff
<1>2. o \in Owner \ {e} /\ e \in Owner /\ claims[o].pending
  BY DEF HandoffSources, Owner
<1>3. o \in Prover /\ claims[o].pn # NoPn
  BY <1>2 DEF IInv, FlowsOK
<1>4. claims[o] \in Claim /\ claims[o].pn \in PN
  BY <1>2, <1>3 DEF IInv, TypeOK, Claim
<1>5. claims[e].pn = NoPn
  BY <1>1, <1>2 DEF MayComplete, SameOrEmpty, IInv, IdentityExclusive
<1>6. PreferFull(claims[o].pn, claims[e].pn) = claims[o].pn
  BY <1>3, <1>5 DEF PreferFull
<1> QED
  BY <1>1, <1>2, <1>3, <1>4, <1>5, <1>6 DEF HandsOver, Settle

\* The absent claim is a claim record.
LEMMA NoClaimIsClaim == NoClaim \in Claim
  BY DEF NoClaim, Claim

\* Verification and recovery flows are owners.
LEMMA ProversOwn == Prover \subseteq Owner
  BY DEF Prover, Owner, Flow

\* The initial state satisfies the inductive invariant.
LEMMA InitInv == Init => IInv
<1> SUFFICES ASSUME Init PROVE IInv
  OBVIOUS
<1> USE DEF Init
<1>1. claims \in [Owner -> Claim] /\ \A o \in Owner : claims[o] = NoClaim
  BY NoClaimIsClaim
<1>2. OrderOK
  BY <1>1 DEF OrderOK, Held
<1>3. /\ sess \in [Session -> SessionRecord]
      /\ setup \in [Entry -> SetupOutcome]
  <2>1. Socket("none", NoPn, NoPn, FALSE) \in SessionRecord
    BY DEF SessionRecord, Socket, Phase
  <2>2. "off" \in SetupOutcome
    BY DEF SetupOutcome
  <2> QED
    BY <2>1, <2>2
<1>4. IdentityExclusive
  BY <1>1, NoPnIsNoIdentity DEF IdentityExclusive, NoClaim
<1>5. SocketsOK
  BY DEF SocketsOK, Socket
<1>6. FlowsOK
  BY <1>1, ProversOwn DEF FlowsOK, NoClaim
<1>7. LoadedOwns
  BY DEF LoadedOwns
<1> QED
  BY <1>1, <1>2, <1>3, <1>4, <1>5, <1>6, <1>7 DEF IInv, TypeOK

\* The part of the type invariant that the claims' step decides.
LEMMA ClaimsTyped ==
    ASSUME IInv, ClaimsStep
    PROVE  /\ OrderOK'
           /\ claims' \in [Owner -> Claim]
           /\ before' \subseteq Owner \X Owner
<1>0. TypeOK /\ claims \in [Owner -> Claim]
  BY DEF IInv, TypeOK
<1>1. CASE UNCHANGED <<claims, before>>
  BY <1>0, <1>1 DEF TypeOK, OrderOK, Held
<1>2. ASSUME NEW o \in Owner, NEW c \in Claim, Store(o, c), Storable(o, c)
      PROVE  /\ OrderOK'
             /\ claims' \in [Owner -> Claim]
             /\ before' \subseteq Owner \X Owner
  <2>1. claims' \in [Owner -> Claim]
    BY <1>0, <1>2 DEF Store
  <2> QED
    BY <1>0, <1>2, <2>1, StoreKeepsOrder DEF Storable
<1>3. ASSUME NEW o \in Owner, Drop(o)
      PROVE  /\ OrderOK'
             /\ claims' \in [Owner -> Claim]
             /\ before' \subseteq Owner \X Owner
  <2>1. claims' \in [Owner -> Claim]
    BY <1>0, <1>3, NoClaimIsClaim DEF Drop
  <2> QED
    BY <1>0, <1>3, <2>1, DropKeepsOrder
<1>4. ASSUME NEW e \in Entry, NEW o \in Prover, HandsOver(e, o)
      PROVE  /\ OrderOK'
             /\ claims' \in [Owner -> Claim]
             /\ before' \subseteq Owner \X Owner
  <2> DEFINE c == Settle(claims[o])
  <2>1. c \in Claim /\ c.pn = claims[o].pn
    BY <1>4 DEF HandsOver, Claim, Settle
  <2>2. c # NoClaim
    BY <1>4, <2>1, PnTypeAssumption DEF HandsOver, NoClaim, PnTypeAssumption
  <2>3. claims' = [claims EXCEPT ![e] = c, ![o] = NoClaim] /\ before' = Without(Placed(e), o)
    BY <1>4 DEF HandsOver
  <2>4. claims' \in [Owner -> Claim]
    BY <1>0, <2>1, <2>3, NoClaimIsClaim
  <2>5. e \in Owner /\ o \in Owner \ {e}
    BY <1>4, ProversOwn DEF HandsOver
  <2> QED
    BY <1>0, <2>1, <2>2, <2>3, <2>4, <2>5, HandoffKeepsOrder
<1> QED
  BY <1>1, <1>2, <1>3, <1>4, HandoffShape DEF ClaimsStep, StoresFor

\* The four ways the claims change, read off pointwise.
LEMMA StoredPointwise ==
    ASSUME TypeOK, NEW o \in Owner, NEW c \in Claim, Store(o, c)
    PROVE  claims'[o] = c /\ \A q \in Owner \ {o} : claims'[q] = claims[q]
  BY DEF TypeOK, Store

\* A drop, owner by owner.
LEMMA DroppedPointwise ==
    ASSUME TypeOK, NEW o \in Owner, Drop(o)
    PROVE  claims'[o] = NoClaim /\ \A q \in Owner \ {o} : claims'[q] = claims[q]
  BY DEF TypeOK, Drop

\* A handoff, owner by owner.
LEMMA HandedPointwise ==
    ASSUME TypeOK, NEW e, NEW o \in Prover, HandsOver(e, o)
    PROVE  /\ e \in Owner /\ o \in Owner /\ e # o
           /\ claims'[e] = Settle(claims[o]) /\ claims'[o] = NoClaim
           /\ \A q \in Owner \ {e, o} : claims'[q] = claims[q]
  BY ProversOwn DEF TypeOK, HandsOver

\* No step lets two owners share an identity.
LEMMA ExclusiveStep ==
    ASSUME IInv, ClaimsStep
    PROVE  IdentityExclusive'
<1>0. TypeOK
  BY DEF IInv
<1>1. CASE UNCHANGED <<claims, before>>
  BY <1>1 DEF IInv, IdentityExclusive
<1>2. ASSUME NEW o \in Owner, NEW c \in Claim, Store(o, c), Storable(o, c)
      PROVE  IdentityExclusive'
  <2>1. \A q \in Owner \ {o} : ~SameIdentity(claims[q].pn, c.pn)
    BY <1>2, NoPnIsNoIdentity DEF Storable, Continues
  <2>2. \A q \in Owner \ {o} : ~SameIdentity(c.pn, claims[q].pn)
    BY <2>1, SameIdentitySymmetric
  <2> QED
    BY <1>0, <1>2, <2>1, <2>2, StoredPointwise DEF IdentityExclusive, IInv
<1>3. ASSUME NEW o \in Owner, Drop(o)
      PROVE  IdentityExclusive'
  BY <1>0, <1>3, DroppedPointwise, NoPnIsNoIdentity DEF IdentityExclusive, IInv, NoClaim
<1>4. ASSUME NEW e \in Entry, NEW o \in Prover, HandsOver(e, o)
      PROVE  IdentityExclusive'
  <2>0. claims'[e] = Settle(claims[o]) /\ claims'[o] = NoClaim
    BY <1>0, <1>4, HandedPointwise
  <2>1. claims'[e].pn = claims[o].pn /\ claims'[o].pn = NoPn
    BY <2>0 DEF Settle, NoClaim
  <2> QED
    BY <1>0, <1>4, <2>1, HandedPointwise, NoPnIsNoIdentity DEF IdentityExclusive, IInv
<1> QED
  BY <1>1, <1>2, <1>3, <1>4, HandoffShape DEF ClaimsStep, StoresFor

\* No step gives a flow an unproven PN or prepares an unproven claim.
LEMMA FlowsStep ==
    ASSUME IInv, ClaimsStep
    PROVE  FlowsOK'
<1>0. TypeOK
  BY DEF IInv
<1>1. CASE UNCHANGED <<claims, before>>
  BY <1>1 DEF IInv, FlowsOK
<1>2. ASSUME NEW o \in Owner, NEW c \in Claim, Store(o, c), Storable(o, c)
      PROVE  FlowsOK'
  BY <1>0, <1>2, StoredPointwise, ProversOwn DEF FlowsOK, IInv, Storable
<1>3. ASSUME NEW o \in Owner, Drop(o)
      PROVE  FlowsOK'
  BY <1>0, <1>3, DroppedPointwise, ProversOwn DEF FlowsOK, IInv, NoClaim
<1>4. ASSUME NEW e \in Entry, NEW o \in Prover, HandsOver(e, o)
      PROVE  FlowsOK'
  <2>0. claims'[e] = Settle(claims[o]) /\ claims'[o] = NoClaim
    BY <1>0, <1>4, HandedPointwise
  <2>1. ~claims'[e].pending /\ claims'[o].pn = NoPn /\ ~claims'[o].pending
    BY <2>0 DEF Settle, NoClaim
  <2>2. e \notin Prover
    BY OwnerAssumption DEF OwnerAssumption, Prover, Flow
  <2> QED
    BY <1>0, <1>4, <2>1, <2>2, HandedPointwise, ProversOwn DEF FlowsOK, IInv
<1> QED
  BY <1>1, <1>2, <1>3, <1>4, HandoffShape DEF ClaimsStep, StoresFor

\* The sockets: only the listener writes them.
LEMMA SocketsStep ==
    ASSUME TypeOK, SocketsOK, [Next]_vars
    PROVE  /\ sess' \in [Session -> SessionRecord]
           /\ SocketsOK'
<1>0. sess \in [Session -> SessionRecord] /\ FullPN \subseteq PN /\ NoPn \notin PN
  BY PnTypeAssumption DEF TypeOK, PnTypeAssumption
<1>1. ASSUME NEW s \in Session, NEW x \in SessionRecord, sess' = [sess EXCEPT ![s] = x],
             x.pn # NoPn => x.peer \in FullPN /\ IsPnPrefix(x.pn, x.peer),
             x.strong => x.pn # NoPn /\ x.pn = x.peer
      PROVE  /\ sess' \in [Session -> SessionRecord]
             /\ SocketsOK'
  BY <1>0, <1>1 DEF SocketsOK
<1>2. ASSUME NEW s \in Session, NEW c \in FullPN, Accept(s, c)
      PROVE  /\ sess' \in [Session -> SessionRecord]
             /\ SocketsOK'
  <2> DEFINE x == Socket("parked", c, NoPn, FALSE)
  <2>1. x \in SessionRecord /\ x.pn = NoPn /\ ~x.strong
    BY DEF Socket, SessionRecord, Phase, Unrouted
  <2> QED
    BY <1>1, <1>2, <2>1 DEF Accept
<1>3. ASSUME NEW s \in Session, NEW pn \in PN, NEW strong \in BOOLEAN,
             NEW settled \in Settled, Identify(s, pn, strong, settled)
      PROVE  /\ sess' \in [Session -> SessionRecord]
             /\ SocketsOK'
  <2> DEFINE old == sess[s]
             x == Socket(IF old.phase \in Unrouted THEN settled ELSE old.phase,
                         old.peer, ReconcilePn(old.pn, pn), old.strong \/ strong)
  <2>1. old \in SessionRecord /\ settled \in Phase
    BY <1>0, SettledAssumption DEF SettledAssumption, Phase
  <2>2. IsPnPrefix(pn, old.peer) /\ (strong => pn = old.peer)
    BY <1>3 DEF Identify
  <2>3. old.peer \in FullPN /\ old.peer \in PN
    BY <1>0, <2>1, <2>2, PnTypeAssumption
       DEF SessionRecord, IsPnPrefix, PnTypeAssumption
  <2>4. ReconcilePn(old.pn, pn) \in {old.pn, pn} /\ ReconcilePn(old.pn, pn) \in PN
    BY <2>1 DEF ReconcilePn, SessionRecord
  <2>5. IsPnPrefix(ReconcilePn(old.pn, pn), old.peer)
    BY <1>0, <2>2, <2>4 DEF SocketsOK
  <2>6. old.strong \/ strong => ReconcilePn(old.pn, pn) = old.peer
    <3>1. CASE old.strong
      <4>1. old.pn = old.peer
        BY <3>1 DEF SocketsOK
      <4>2. IsPnPrefix(old.pn, pn) => pn = old.peer
        BY <2>3, <4>1, FullPnAssumption DEF FullPnAssumption
      <4> QED
        BY <4>1, <4>2, <1>0, <2>3 DEF ReconcilePn
    <3>2. CASE strong
      <4>1. pn = old.peer
        BY <2>2, <3>2
      <4>2. old.pn = NoPn \/ IsPnPrefix(old.pn, pn)
        BY <4>1 DEF SocketsOK
      <4> QED
        BY <4>1, <4>2 DEF ReconcilePn
    <3> QED
      BY <3>1, <3>2
  <2>7. /\ x \in SessionRecord /\ x.peer = old.peer
        /\ x.pn = ReconcilePn(old.pn, pn) /\ x.strong = (old.strong \/ strong)
    BY <2>1, <2>4 DEF Socket, SessionRecord
  <2>8. sess' = [sess EXCEPT ![s] = x]
    BY <1>3 DEF Identify
  <2> QED
    BY <1>0, <1>1, <2>3, <2>4, <2>5, <2>6, <2>7, <2>8
<1>4. ASSUME NEW s \in Session, Activate(s)
      PROVE  /\ sess' \in [Session -> SessionRecord]
             /\ SocketsOK'
  <2> DEFINE x == [sess[s] EXCEPT !.phase = "routed"]
  <2>1. /\ x \in SessionRecord /\ x.peer = sess[s].peer
        /\ x.pn = sess[s].pn /\ x.strong = sess[s].strong
    BY <1>0 DEF SessionRecord, Phase
  <2>2. sess' = [sess EXCEPT ![s] = x]
    BY <1>4 DEF Activate
  <2> QED
    BY <1>1, <2>1, <2>2 DEF SocketsOK
<1>5. ASSUME NEW s \in Session, Close(s)
      PROVE  /\ sess' \in [Session -> SessionRecord]
             /\ SocketsOK'
  <2> DEFINE x == Socket("gone", NoPn, NoPn, FALSE)
  <2>1. x \in SessionRecord /\ x.pn = NoPn /\ ~x.strong
    BY DEF Socket, SessionRecord, Phase, Unrouted
  <2> QED
    BY <1>1, <1>5, <2>1 DEF Close
<1>6. CASE UNCHANGED sess
  BY <1>0, <1>6 DEF SocketsOK
<1>7. EntryStep \/ OwnerStep \/ UNCHANGED vars => UNCHANGED sess
  BY DEF EntryStep, OwnerStep, vars, SetupEntry, SetupRefused, UnloadEntry, ClaimIdentity,
         PinCurrent, ClaimSession, Promote, PromoteRefused, PrepareHandoff, Release, Retarget,
         FinalizeRemoval
<1> QED
  BY <1>2, <1>3, <1>4, <1>5, <1>6, <1>7 DEF Next, ListenerStep

\* An entry's identity survives every step that does not drop its own claim.
LEMMA EntryKeepsPn ==
    ASSUME IInv, NEW e \in Entry, claims[e].pn \in PN,
           \/ UNCHANGED claims
           \/ \E o \in Owner : StoresFor(o)
           \/ \E o \in Owner \ {e} : Drop(o)
           \/ \E d \in Entry, o \in Prover : HandsOver(d, o)
    PROVE  claims'[e].pn \in PN
<1>0. TypeOK /\ e \in Owner /\ e \notin Prover
  BY OwnerAssumption DEF IInv, OwnerAssumption, Owner, Flow, Prover
<1>1. ASSUME NEW o \in Owner, NEW c \in Claim, Store(o, c), Storable(o, c)
      PROVE  claims'[e].pn \in PN
  <2>1. CASE o = e
    <3>1. c.pn \in PN
      BY <1>1, <2>1, PnTypeAssumption DEF Storable, Continues, PnTypeAssumption
    <3> QED
      BY <1>0, <1>1, <2>1, <3>1, StoredPointwise
  <2>2. CASE o # e
    BY <1>0, <1>1, <2>2, StoredPointwise
  <2> QED
    BY <2>1, <2>2
<1>2. ASSUME NEW o \in Owner \ {e}, Drop(o)
      PROVE  claims'[e].pn \in PN
  BY <1>0, <1>2, DroppedPointwise
<1>3. ASSUME NEW d \in Entry, NEW o \in Prover, HandsOver(d, o)
      PROVE  claims'[e].pn \in PN
  <2>1. claims'[d] = Settle(claims[o]) /\ \A q \in Owner \ {d, o} : claims'[q] = claims[q]
    BY <1>0, <1>3, HandedPointwise
  <2>2. claims'[d].pn \in PN
    BY <1>3, <2>1 DEF HandsOver, Settle
  <2> QED
    BY <1>0, <2>1, <2>2
<1> QED
  BY <1>1, <1>2, <1>3 DEF StoresFor

\* Setup outcomes: only setup and unload of the entry itself write them.
LEMMA SetupStep ==
    ASSUME IInv, [Next]_vars
    PROVE  setup' \in [Entry -> SetupOutcome] /\ LoadedOwns'
<1>0. /\ TypeOK /\ LoadedOwns /\ setup \in [Entry -> SetupOutcome]
      /\ \A e \in Entry : e \in Owner /\ e \notin Flow
  BY OwnerAssumption DEF IInv, TypeOK, OwnerAssumption, Owner
<1>1. ASSUME NEW e \in Entry, NEW v \in SetupOutcome, setup' = [setup EXCEPT ![e] = v],
             v = "loaded" => claims'[e].pn \in PN,
             \A d \in Entry \ {e} : claims[d].pn \in PN => claims'[d].pn \in PN
      PROVE  setup' \in [Entry -> SetupOutcome] /\ LoadedOwns'
  BY <1>0, <1>1 DEF LoadedOwns
<1>2. ASSUME UNCHANGED setup,
             \A d \in Entry : claims[d].pn \in PN => claims'[d].pn \in PN
      PROVE  setup' \in [Entry -> SetupOutcome] /\ LoadedOwns'
  BY <1>0, <1>2 DEF LoadedOwns
<1>3. ASSUME NEW e \in Entry, NEW pn \in PN, SetupEntry(e, pn)
      PROVE  setup' \in [Entry -> SetupOutcome] /\ LoadedOwns'
  <2>1. "loaded" \in SetupOutcome /\ setup' = [setup EXCEPT ![e] = "loaded"]
    BY <1>3 DEF SetupOutcome, SetupEntry
  <2>2. CASE CompleteHandoff(e, pn)
    <3>1. PICK o \in Prover : HandsOver(e, o)
      BY <2>2, HandoffShape
    <3>2. claims'[e] = Settle(claims[o])
      BY <1>0, <3>1, HandedPointwise
    <3>3. claims'[e].pn \in PN
      BY <3>1, <3>2 DEF HandsOver, Settle
    <3>4. \A d \in Entry : claims[d].pn \in PN => claims'[d].pn \in PN
      BY <3>1, EntryKeepsPn
    <3> QED
      BY <1>1, <2>1, <3>3, <3>4
  <2>3. CASE ClaimPn(e, pn)
    <3>1. StoresFor(e) /\ claims'[e].pn \in PN
      BY <2>3, ClaimPnStores
    <3>2. \A d \in Entry : claims[d].pn \in PN => claims'[d].pn \in PN
      BY <1>0, <3>1, EntryKeepsPn
    <3> QED
      BY <1>1, <2>1, <3>1, <3>2
  <2> QED
    BY <1>3, <2>2, <2>3 DEF SetupEntry
<1>4. ASSUME NEW e \in Entry, NEW v \in {"retry", "off"}, Drop(e),
             setup' = [setup EXCEPT ![e] = v]
      PROVE  setup' \in [Entry -> SetupOutcome] /\ LoadedOwns'
  <2>1. v \in SetupOutcome /\ v # "loaded"
    BY DEF SetupOutcome
  <2>2. \A d \in Entry \ {e} : claims[d].pn \in PN => claims'[d].pn \in PN
    BY <1>0, <1>4, EntryKeepsPn
  <2> QED
    BY <1>1, <1>4, <2>1, <2>2
<1>5. ASSUME NEW e \in Entry, NEW pn \in PN, SetupRefused(e, pn)
      PROVE  setup' \in [Entry -> SetupOutcome] /\ LoadedOwns'
  <2> DEFINE v == IF \E o \in Verification : IsFirst(o, HoldersOf(pn))
                  THEN "retry" ELSE "off"
  <2>1. Drop(e) /\ setup' = [setup EXCEPT ![e] = v]
    BY <1>5 DEF SetupRefused
  <2>2. v \in {"retry", "off"}
    OBVIOUS
  <2> QED
    BY <1>4, <2>1, <2>2
<1>6. ASSUME NEW e \in Entry, UnloadEntry(e)
      PROVE  setup' \in [Entry -> SetupOutcome] /\ LoadedOwns'
  BY <1>4, <1>6 DEF UnloadEntry
<1>7. ASSUME UNCHANGED setup, (\E o \in Owner : StoresFor(o)) \/ (\E o \in Flow : Drop(o))
      PROVE  setup' \in [Entry -> SetupOutcome] /\ LoadedOwns'
  <2>1. Flow \subseteq Owner
    BY DEF Owner
  <2> QED
    BY <1>0, <1>2, <1>7, <2>1, EntryKeepsPn
<1>8. ASSUME ListenerStep \/ UNCHANGED vars
      PROVE  setup' \in [Entry -> SetupOutcome] /\ LoadedOwns'
  <2>1. UNCHANGED <<claims, setup>>
    BY <1>8 DEF ListenerStep, Accept, Identify, Activate, Close, vars
  <2> QED
    BY <1>2, <2>1
<1>9. ASSUME NEW e \in Entry,
             \/ \E pn \in PN : ClaimIdentity(e, pn)
             \/ \E s \in Session : PinCurrent(e, s)
      PROVE  UNCHANGED setup /\ StoresFor(e)
  BY <1>0, <1>9, ClaimIdentityStores, RebindStores DEF ClaimIdentity, PinCurrent
<1>10. ASSUME OwnerStep
       PROVE  /\ UNCHANGED setup
              /\ (\E o \in Owner : StoresFor(o)) \/ (\E o \in Flow : Drop(o))
  <2>1. PICK o \in Owner :
            \/ \E s \in Session : ClaimSession(o, s)
            \/ Promote(o)
            \/ PromoteRefused(o)
            \/ \E pn \in PN : PrepareHandoff(o, pn)
            \/ Release(o)
            \/ \E s \in Session : Retarget(o, s)
            \/ \E pn \in PN, s \in Session : FinalizeRemoval(o, pn, s)
    BY <1>10 DEF OwnerStep
  <2>2. UNCHANGED setup
    BY <2>1 DEF ClaimSession, Promote, PromoteRefused, PrepareHandoff, Release, Retarget,
                FinalizeRemoval
  <2>3. ASSUME NEW s \in Session, ClaimSession(o, s) \/ Retarget(o, s) PROVE StoresFor(o)
    BY <2>3, RebindStores DEF ClaimSession, Retarget
  <2>4. ASSUME NEW pn \in PN, NEW s \in Session, FinalizeRemoval(o, pn, s)
        PROVE  StoresFor(o)
    BY <2>4, FinalizeStores
  <2>5. ASSUME PromoteRefused(o) \/ Release(o) PROVE o \in Flow /\ Drop(o)
    BY <2>5 DEF PromoteRefused, Release, Flow
  <2>6. ASSUME NEW pn \in PN, PrepareHandoff(o, pn)
        PROVE  StoresFor(o) \/ (o \in Flow /\ Drop(o))
    <3>1. o \in Prover /\ o \in Flow /\ SameIdentity(pn, claims[o].pn)
      BY <2>6 DEF PrepareHandoff, Prover, Flow
    <3> QED
      BY <2>6, <3>1, PrepareStores DEF PrepareHandoff
  <2> QED
    BY <2>1, <2>2, <2>3, <2>4, <2>5, <2>6, PromoteStores
<1> QED
  <2>1. CASE EntryStep
    BY <1>0, <1>3, <1>5, <1>6, <1>7, <1>9, <2>1 DEF EntryStep
  <2>2. CASE OwnerStep
    BY <1>7, <1>10, <2>2
  <2> QED
    BY <1>8, <2>1, <2>2 DEF Next

-----------------------------------------------------------------------------
(* Theorems *)

\* Every step keeps the inductive invariant.
LEMMA Inductive == IInv /\ [Next]_vars => IInv'
<1> SUFFICES ASSUME IInv, [Next]_vars PROVE IInv'
  OBVIOUS
<1>1. ClaimsStep
  BY StepShape
<1>2. TypeOK'
  BY <1>1, ClaimsTyped, SocketsStep, SetupStep DEF TypeOK, IInv
<1> QED
  BY <1>1, <1>2, ExclusiveStep, FlowsStep, SocketsStep, SetupStep DEF IInv

\* The strengthened invariant of the registry holds in every reachable state.
THEOREM InvariantHolds == Spec => []IInv
  BY InitInv, Inductive, PTL DEF Spec

\* The dict, its insertion order, the inventory and the setup outcomes keep
\* their types; in particular the order always ranks exactly the held claims.
THEOREM TypeCorrect == Spec => []TypeOK
<1>1. IInv => TypeOK
  BY DEF IInv
<1> QED
  BY <1>1, InvariantHolds, PTL

\* No two owners ever hold claims of one collector, for any number of entries,
\* flows, sockets and part numbers, although owner_for_pn answers with the first
\* match only, prefix identity is not transitive, and claim() completes its PN
\* from the inventory without a second look at the other claims.
THEOREM IdentityIsExclusive == Spec => []IdentityExclusive
<1>1. IInv => IdentityExclusive
  BY DEF IInv
<1> QED
  BY <1>1, InvariantHolds, PTL

\* Every PN that certification returns is the PN of the collector behind the
\* certified socket.
THEOREM CertificationIsTrue == Spec => []CertifiedIsTrue
<1>1. IInv => CertifiedIsTrue
  <2> SUFFICES ASSUME IInv, NEW o \in Owner, NEW s \in Session, CertifiedPn(o, s) # NoPn
               PROVE  CertifiedPn(o, s) = sess[s].peer
    BY DEF CertifiedIsTrue
  <2>1. /\ sess[s].strong
        /\ SameIdentity(sess[s].pn, claims[o].pn)
        /\ CertifiedPn(o, s) = PreferFull(claims[o].pn, sess[s].pn)
    BY DEF CertifiedPn
  <2>2. sess[s].pn = sess[s].peer /\ sess[s].pn \in FullPN
    BY <2>1 DEF IInv, SocketsOK
  <2>3. claims[o].pn \in PN /\ SameIdentity(claims[o].pn, sess[s].pn)
    BY <2>1, SameIdentitySymmetric DEF SameIdentity
  <2> QED
    BY <2>1, <2>2, <2>3, FullIsFinal
<1> QED
  BY <1>1, InvariantHolds, PTL

\* Only a claim with a full PN read on a concrete socket is ever prepared for a
\* handoff to an entry.
THEOREM PreparationIsProven == Spec => []PreparedIsProven
<1>1. IInv => PreparedIsProven
  BY DEF IInv, FlowsOK, PreparedIsProven
<1> QED
  BY <1>1, InvariantHolds, PTL

\* A loaded entry holds an identity: no handoff, release or refusal of another
\* owner takes it away.
THEOREM LoadedEntriesOwn == Spec => []LoadedOwns
<1>1. IInv => LoadedOwns
  BY DEF IInv
<1> QED
  BY <1>1, InvariantHolds, PTL

\* No registry call replaces a held PN by one that does not continue it.
THEOREM ClaimsOnlyEnrich == Spec => ClaimOnlyEnriches
<1>1. ASSUME IInv, [Next]_vars, NEW o \in Owner PROVE OnlyEnriched(o)
  <2> SUFFICES ASSUME claims[o].pn # NoPn, claims'[o] # NoClaim
               PROVE  IsPnPrefix(claims[o].pn, claims'[o].pn)
    BY DEF OnlyEnriched
  <2>0. TypeOK /\ IsPnPrefix(claims[o].pn, claims[o].pn)
    <3>1. TypeOK
      BY <1>1 DEF IInv
    <3>2. claims[o].pn \in PN
      BY <1>1, <3>1 DEF TypeOK, Claim
    <3> QED
      BY <3>1, <3>2, PrefixOrderAssumption DEF PrefixOrderAssumption
  <2>1. CASE UNCHANGED <<claims, before>>
    BY <2>0, <2>1
  <2>2. ASSUME NEW q \in Owner, NEW c \in Claim, Store(q, c), Storable(q, c)
        PROVE  IsPnPrefix(claims[o].pn, claims'[o].pn)
    <3>1. CASE q = o
      BY <2>0, <2>2, <3>1, StoredPointwise DEF Storable, Continues
    <3>2. CASE q # o
      BY <2>0, <2>2, <3>2, StoredPointwise
    <3> QED
      BY <3>1, <3>2
  <2>3. ASSUME NEW q \in Owner, Drop(q)
        PROVE  IsPnPrefix(claims[o].pn, claims'[o].pn)
    BY <2>0, <2>3, DroppedPointwise
  <2>4. ASSUME NEW e \in Entry, NEW q \in Prover, HandsOver(e, q)
        PROVE  IsPnPrefix(claims[o].pn, claims'[o].pn)
    <3>1. o # e
      BY <2>4 DEF HandsOver
    <3> QED
      BY <2>0, <2>4, <3>1, HandedPointwise
  <2>5. ClaimsStep
    BY <1>1, StepShape
  <2> QED
    BY <1>1, <2>1, <2>2, <2>3, <2>4, <2>5, HandoffShape DEF ClaimsStep, StoresFor
<1>2. IInv /\ [Next]_vars => [\A o \in Owner : OnlyEnriched(o)]_vars
  BY <1>1
<1> QED
  BY <1>2, InvariantHolds, PTL DEF Spec, ClaimOnlyEnriches
=============================================================================
