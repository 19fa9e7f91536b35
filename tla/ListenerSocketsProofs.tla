------------------------- MODULE ListenerSocketsProofs -------------------------
(***************************************************************************)
(* Proofs about ListenerSockets, for any transports, any finite set of      *)
(* sockets and any caps.                                                    *)
(***************************************************************************)
EXTENDS ListenerSockets, FiniteSetTheorems, WellFoundedInduction, TLAPS

-----------------------------------------------------------------------------
(* The inductive invariant *)

\* A sniff or watch task belongs to a registered socket, and an operation that
\* has paused a socket names it.
TasksRegistered ==
    /\ \A s \in Socket : task[s] # "none" => s \in pending
    /\ op.step \in {"paused", "probing"} => op.sock \in Socket

StrictOrder(R, S) ==
    /\ \A s \in S : <<s, s>> \notin R
    /\ \A s, t \in S : s = t \/ <<s, t>> \in R \/ <<t, s>> \in R
    /\ \A s, t, w \in S : <<s, t>> \in R /\ <<t, w>> \in R => <<s, w>> \in R

\* _pending_sockets keeps its insertion order, a strict total one.
DictOrder == StrictOrder(older, pending)

\* Only an admission owns a socket the inventory has no record of; whatever was
\* registered, routed, snapshotted or selected has one.
FreshIsAdmitted ==
    /\ \A s \in admitting : s \in open /\ state[s] = "none"
    /\ \A s \in pending \cup conn \cup todo \cup lost : state[s] # "none"
    /\ cur # NoSocket => state[cur] # "none"
    /\ op.sock # NoSocket => state[op.sock] # "none"

\* What a release has in its hands is not registered, and what it disconnects
\* never comes back to the registry.
ReleaseHands ==
    /\ cur # NoSocket => leave \in {"route", "pending"}
    /\ leave = "route" => cur \notin pending
    /\ leave \in {"detach", "conns"} => todo \cap pending = {}

\* _LISTENERS_LOCK: at most one transport is inside start or stop.
OneInLock ==
    /\ \A u, v \in User :
          user[u] \in {"binding", "leaving"} /\ user[v] \in {"binding", "leaving"} => u = v
    /\ leave # "none" <=> \E u \in User : user[u] = "leaving"

\* The transports a reference stands for.
Holders ==
    {u \in User : user[u] \in {"in", "stopping", "binding"}
                    \/ (user[u] = "leaving" /\ leave \in {"route", "detach"})}

RefCounts == IsFiniteSet(Holders) /\ ref = Cardinality(Holders)

\* The acceptor is there exactly while a reference is, or its last release drains.
AcceptorServes ==
    /\ \A u \in User : user[u] = "binding" => acceptor = "none"
    /\ \A u \in User : user[u] \in {"in", "stopping"} => acceptor # "none"
    /\ leave \in {"route", "detach"} => acceptor # "none"
    /\ leave = "drain" => acceptor = "closing"
    /\ leave \in {"pending", "conns"} => acceptor = "none"
    /\ leave \in {"drain", "pending", "conns"} => Holders = {}
    /\ leave = "none" /\ acceptor # "none" => Holders # {}

\* The shutdown, snapshot by snapshot: after the drain nothing is admitted, what
\* is registered and open is still to be visited, then what is served and open is
\* still to be disconnected, and in the end nothing is left but what was claimed for
\* a stopped facade or disconnected before its run() began.
ShutdownClears ==
    /\ leave \in {"pending", "conns"} => admitting = {}
    /\ leave = "pending" => pending \cap open \subseteq todo \cup {cur}
    /\ leave = "conns" => pending = {} /\ conn \cap open \subseteq todo \cup strays
    /\ leave = "none" /\ acceptor = "none" =>
          pending = {} /\ admitting = {} /\ open \subseteq lost \cup strays

SInv == TypeOK /\ TasksRegistered /\ FreshIsAdmitted /\ ReleaseHands /\ Custody
LInv == OneInLock /\ RefCounts /\ AcceptorServes
IInv == SInv /\ DictOrder /\ LInv /\ ShutdownClears

USE ListenerAssumption
DEF userVars, pendingVars, connVars, routeVars, socketVars, ShuttingDown, Terminal

-----------------------------------------------------------------------------
(* The operators *)

\* A transport that holds a reference is counted.
LEMMA HolderCounted ==
    ASSUME TypeOK, RefCounts, NEW u \in Holders
    PROVE  ref \in Nat \ {0} /\ Cardinality(Holders \ {u}) = ref - 1
                /\ IsFiniteSet(Holders \ {u})
BY FS_EmptySet, FS_CardinalityType, FS_RemoveElement DEF TypeOK, RefCounts

\* Deleting keys keeps the order of the others.
LEMMA RemovedKeepsOrder ==
    ASSUME NEW S, StrictOrder(older, pending)
    PROVE  StrictOrder(Removed(S), pending \ S)
BY DEF StrictOrder, Removed

\* A new key goes last, a present one keeps its place.
LEMMA InsertedKeepsOrder ==
    ASSUME NEW P, NEW R \in SUBSET (P \X P), NEW s, StrictOrder(R, P)
    PROVE  StrictOrder(Inserted(R, P, s), P \cup {s})
<1>1. CASE s \in P
    <2>1. P \cup {s} = P /\ Inserted(R, P, s) = R
      BY <1>1 DEF Inserted
    <2> QED
      BY <2>1
<1>2. CASE s \notin P
    <2>1. Inserted(R, P, s) = R \cup {<<t, s>> : t \in P}
      BY <1>2 DEF Inserted
    <2>2. \A a, b : <<a, b>> \in Inserted(R, P, s) <=> <<a, b>> \in R \/ (a \in P /\ b = s)
      BY <2>1
    <2> QED
      BY <1>2, <2>2 DEF StrictOrder
<1> QED
    BY <1>1, <1>2

\* Among naturals there is a least one.
LEMMA LeastNatural ==
    ASSUME NEW T, T \subseteq Nat, T # {}
    PROVE  \E x \in T : \A y \in T : x <= y
<1> DEFINE R == OpToRel(<, Nat)
<1>1. IsWellFoundedOn(R, Nat)
    BY NatLessThanWellFounded
<1>2. \A x, y \in Nat : x < y => <<x, y>> \in R
    BY DEF OpToRel
<1> HIDE DEF R
<1>3. PICK x \in T : \A y \in T : ~(<<y, x>> \in R)
    BY <1>1, WFMin
<1>4. \A y \in T : y \in Nat /\ ~(y < x)
    BY <1>2, <1>3
<1> QED
    BY <1>4

\* The oldest of the sockets that an eviction leaves parked has all the others
\* behind it, so they are fewer than the cap: the dict order makes the count of
\* _evict_parked_sockets a bound on what stays.
LEMMA EvictionMakesRoom ==
    ASSUME TypeOK, DictOrder, NEW s \in Socket
    PROVE  /\ IsFiniteSet(((parked \cap pending) \ {s}) \ Evicted(s))
           /\ Cardinality(((parked \cap pending) \ {s}) \ Evicted(s)) <= MaxParked - 1
<1> DEFINE others == (parked \cap pending) \ {s}
           newer(v) == {w \in others : <<v, w>> \in older}
           kept == others \ Evicted(s)
           gap(v) == Cardinality(others) - Cardinality(newer(v))
<1>1. IsFiniteSet(others) /\ others \subseteq pending
    BY FS_Subset, ListenerAssumption DEF TypeOK, ListenerAssumption
<1>2. \A v \in others : /\ IsFiniteSet(newer(v))
                        /\ Cardinality(newer(v)) \in Nat
                        /\ Cardinality(newer(v)) <= Cardinality(others)
    <2> TAKE v \in others
    <2> newer(v) \in SUBSET others
      OBVIOUS
    <2> HIDE DEF newer, others
    <2> QED
      BY <1>1, FS_Subset, FS_CardinalityType
<1>3. Cardinality(others) \in Nat
    BY <1>1, FS_CardinalityType
<1>4. IsFiniteSet(kept) /\ Cardinality(kept) \in Nat
    <2> kept \in SUBSET others
      OBVIOUS
    <2> HIDE DEF kept, others
    <2> QED
      BY <1>1, FS_Subset, FS_CardinalityType
<1>5. \A v \in kept : v \in others /\ Cardinality(newer(v)) < MaxParked - 1
    <2> TAKE v \in kept
    <2>1. v \in others /\ ~(Cardinality(newer(v)) >= MaxParked - 1)
      BY DEF Evicted
    <2> HIDE DEF newer, others, kept
    <2> QED
      BY <2>1, <1>2, ListenerAssumption DEF ListenerAssumption
<1>6. CASE kept = {}
    BY <1>4, <1>6, FS_EmptySet, ListenerAssumption DEF ListenerAssumption
<1>7. CASE kept # {}
    <2>1. PICK v \in kept : \A w \in kept : gap(v) <= gap(w)
      <3> DEFINE G == {gap(w) : w \in kept}
      <3>1. G \subseteq Nat /\ G # {}
        <4> HIDE DEF newer, others, kept
        <4> QED
          BY <1>2, <1>3, <1>5, <1>7
      <3>2. PICK least \in G : \A g \in G : least <= g
        BY <3>1, LeastNatural
      <3>3. PICK v \in kept : least = gap(v)
        OBVIOUS
      <3>4. \A w \in kept : gap(v) <= gap(w)
        <4> TAKE w \in kept
        <4>1. gap(w) \in G
          OBVIOUS
        <4> HIDE DEF G, gap
        <4> QED
          BY <4>1, <3>2, <3>3
      <3> QED
        BY <3>4
    <2>2. \A w \in kept \ {v} : <<v, w>> \in older
      <3> SUFFICES ASSUME NEW w \in kept \ {v}, <<v, w>> \notin older PROVE FALSE
        OBVIOUS
      <3>1. <<w, v>> \in older /\ <<v, v>> \notin older
        BY <1>1 DEF DictOrder, StrictOrder
      <3>2. newer(v) \in SUBSET newer(w) /\ v \in newer(w) /\ v \notin newer(v)
        BY <3>1, <1>1 DEF DictOrder, StrictOrder
      <3>3. Cardinality(newer(v)) < Cardinality(newer(w))
        <4>1. w \in others /\ v \in others
          OBVIOUS
        <4> HIDE DEF newer, others, kept
        <4>2. /\ Cardinality(newer(v)) <= Cardinality(newer(w))
              /\ Cardinality(newer(v)) # Cardinality(newer(w))
          BY <4>1, <3>2, <1>2, FS_Subset
        <4> QED
          BY <4>1, <4>2, <1>2
      <3>4. gap(v) <= gap(w) /\ v \in others /\ w \in others
        BY <2>1, <1>5
      <3> HIDE DEF newer, others, kept
      <3> QED
        BY <3>3, <3>4, <1>2, <1>3
    <2>3. kept \ {v} \in SUBSET newer(v)
      BY <2>2
    <2> HIDE DEF newer, others, kept
    <2>4. Cardinality(kept \ {v}) <= Cardinality(newer(v))
      BY <2>3, <1>2, <1>5, FS_Subset
    <2>5. Cardinality(kept \ {v}) = Cardinality(kept) - 1
      BY <1>4, FS_RemoveElement
    <2>6. Cardinality(newer(v)) \in Nat /\ Cardinality(newer(v)) < MaxParked - 1
      BY <1>2, <1>5
    <2> QED
      BY <2>4, <2>5, <2>6, <1>4, ListenerAssumption DEF ListenerAssumption,
         kept, others
<1> QED
    BY <1>4, <1>6, <1>7

-----------------------------------------------------------------------------
(* Every step keeps the types and the registry *)

\* Every handler keeps every variable within its type; the reference count never
\* goes below zero because whoever gives a reference back is counted.
LEMMA TypeStep ==
    TypeOK /\ TasksRegistered /\ RefCounts /\ [Next]_vars => TypeOK'
<1> SUFFICES ASSUME TypeOK /\ TasksRegistered /\ RefCounts, [Next]_vars PROVE TypeOK'
    OBVIOUS
<1> USE DEF TypeOK, TasksRegistered, Ops, NoOp, OpKind
<1>1. ASSUME NEW u \in User, Acquire(u) PROVE TypeOK'
    BY <1>1 DEF Acquire, LockFree
<1>2. ASSUME NEW u \in User,
             BindDone(u) \/ Stop(u) \/ CallWaits(u) \/ CallReturns(u)
      PROVE TypeOK'
    BY <1>2 DEF BindDone, Stop, CallWaits, CallReturns
<1>3. ASSUME NEW u \in User, BindFails(u) PROVE TypeOK'
  <2>1. u \in Holders
    BY <1>3 DEF BindFails, Holders
  <2>2. ref \in Nat \ {0}
    BY <2>1, HolderCounted
  <2> QED
    BY <1>3, <2>2 DEF BindFails
<1>4. ASSUME NEW u \in User, Leave(u) PROVE TypeOK'
    BY <1>4 DEF Leave, LockFree
<1>5. ASSUME NEW u \in User, Unreference(u) PROVE TypeOK'
  <2>1. u \in Holders
    BY <1>5 DEF Unreference, Holders
  <2>2. ref \in Nat \ {0}
    BY <2>1, HolderCounted
  <2> QED
    BY <1>5, <2>2 DEF Unreference
<1>6. ASSUME NEW u \in User, Released(u) PROVE TypeOK'
    BY <1>6 DEF Released
<1>7. ASSUME NEW s \in Socket, Accept(s) PROVE TypeOK'
    BY <1>7 DEF Accept
<1>8. ASSUME NEW s \in Socket, Admit(s) PROVE TypeOK'
    BY <1>8 DEF Admit, Inserted
<1>9. ASSUME NEW s \in Socket, AdmitAborted(s) PROVE TypeOK'
    BY <1>9 DEF AdmitAborted
<1>10. ASSUME NEW s \in Socket, LeaveTakes(s) PROVE TypeOK'
    BY <1>10 DEF LeaveTakes, Removed
<1>11. ASSUME NEW s \in Socket, Disconnects(s) PROVE TypeOK'
    BY <1>11 DEF Disconnects, Disconnected, Mark
<1>12. ASSUME NEW s \in Socket, ShutTakes(s) PROVE TypeOK'
    BY <1>12 DEF ShutTakes
<1>13. ASSUME NEW s \in Socket, Park(s) PROVE TypeOK'
  <2>1. s \in pending /\ Evicted(s) \subseteq pending \ {s}
    BY <1>13 DEF Park, Evicted
  <2>2. task' \in [Socket -> {"none", "sniff", "watch"}]
    BY <1>13 DEF Park
  <2>3. state' \in [Socket -> {"none", "live", "routed"} \cup Terminal]
    BY <1>13 DEF Park, Mark
  <2>4. pending' = pending \ Evicted(s) /\ parked' \subseteq pending'
    BY <1>13, <2>1 DEF Park
  <2>5. older' \subseteq pending' \X pending'
    BY <1>13, <2>1, <2>4 DEF Park, Removed, Inserted
  <2>6. UNCHANGED <<user, ref, acceptor, leave, todo, cur, admitting, connVars,
                  peerGone, routeVars>>
    BY <1>13 DEF Park
  <2>7. open' \subseteq Socket /\ pending' \subseteq Socket /\ abandoned' \subseteq Socket
    BY <1>13, <2>4 DEF Park
  <2> QED
    BY <2>2, <2>3, <2>4, <2>5, <2>6, <2>7
<1>14. ASSUME NEW s \in Socket, SniffEof(s) PROVE TypeOK'
    BY <1>14 DEF SniffEof, CloseRegistered, Removed, Mark
<1>15. ASSUME NEW s \in Socket, SniffRoutes(s) PROVE TypeOK'
    BY <1>15 DEF SniffRoutes, Claimed, Activated, Removed, Mark
<1>16. ASSUME NEW s \in Socket, WatchData(s) PROVE TypeOK'
    BY <1>16 DEF WatchData
<1>17. ASSUME NEW s \in Socket, WatchEnds(s) PROVE TypeOK'
    BY <1>17 DEF WatchEnds, CloseRegistered, Removed, Mark
<1>18. ASSUME NEW s \in Socket, RunStarts(s) \/ RunEnds(s) PROVE TypeOK'
    BY <1>18 DEF RunStarts, RunEnds, Mark
<1>19. ASSUME NEW s \in Socket, PeerCloses(s) PROVE TypeOK'
    BY <1>19 DEF PeerCloses
<1>20. ASSUME NEW u \in User, NEW s \in Socket, NEW k \in OpKind,
             Select(u, k, s)
      PROVE TypeOK'
    BY <1>20 DEF Select, Enters, Paused
<1>21. ASSUME NEW u \in User, NEW s \in Socket, TakeMatched(u, s) PROVE TypeOK'
    BY <1>21 DEF TakeMatched, Enters, Claimed, Activated, Removed, Mark
<1>22. ASSUME NEW s \in Socket, ProbeSkips(s) PROVE TypeOK'
    BY <1>22 DEF ProbeSkips, ResumedTask, ResumedParked
<1>23. ASSUME NEW s \in Socket, ProbePauses(s) PROVE TypeOK'
  <2>1. op \in [kind : OpKind, step : {"next", "paused", "probing"},
                 user : User, sock : Socket \cup {NoSocket}, todo : SUBSET Socket]
    BY <1>23 DEF ProbePauses
  <2>2. op' \in Ops
    BY <1>23, <2>1 DEF ProbePauses
  <2> QED
    BY <1>23, <2>2 DEF ProbePauses, Paused
<1>24. CASE \E u \in User : ProbeStart(u)
    BY <1>24 DEF ProbeStart, Enters
<1>25. CASE ProbeEnds
    BY <1>25 DEF ProbeEnds
<1>26. CASE PauseOver
  <2>1. op \in [kind : OpKind, step : {"next", "paused", "probing"},
                 user : User, sock : Socket \cup {NoSocket}, todo : SUBSET Socket]
    BY <1>26 DEF PauseOver
  <2>2. op' \in Ops
    BY <1>26, <2>1 DEF PauseOver
  <2> QED
    BY <1>26, <2>2 DEF PauseOver
<1>27. CASE TakeDone
    BY <1>27 DEF TakeDone, Claimed, Activated, Removed, Mark
<1>28. CASE RetireDone
    BY <1>28 DEF RetireDone, CloseRegistered, Removed, Mark
<1>29. CASE ProbeClaims
    BY <1>29 DEF ProbeClaims, Claimed, Activated, Removed, Mark
<1>30. CASE ProbeRefused
  <2>1. op \in [kind : OpKind, step : {"next", "paused", "probing"},
                 user : User, sock : Socket \cup {NoSocket}, todo : SUBSET Socket]
    BY <1>30 DEF ProbeRefused
  <2>2. op' \in Ops
    BY <1>30, <2>1 DEF ProbeRefused
  <2> QED
    BY <1>30, <2>2 DEF ProbeRefused, Mark, ResumedTask, ResumedParked
<1>31. CASE Cancelled
    BY <1>31 DEF Cancelled, Mark, ResumedTask, ResumedParked
<1>32. CASE TaskJoined \/ LeaveSnapshot \/ Drained \/ Cleared \/ AcceptFails
    BY <1>32 DEF TaskJoined, Mark, LeaveSnapshot, Drained, Cleared, AcceptFails
<1>33. CASE UNCHANGED vars
    BY <1>33 DEF vars
<1> QED
    BY <1>1, <1>2, <1>3, <1>4, <1>5, <1>6, <1>7, <1>8, <1>9, <1>10, <1>11,
       <1>12, <1>13, <1>14, <1>15, <1>16, <1>17, <1>18, <1>19, <1>20, <1>21,
       <1>22, <1>23, <1>24, <1>25, <1>26, <1>27, <1>28, <1>29, <1>30, <1>31,
       <1>32, <1>33
    DEF Next, UserStep, SocketStep, RouteStep, ReleaseStep, OpKind

\* A task is created with a registration and ended with it.
LEMMA TaskStep ==
    TypeOK /\ TasksRegistered /\ [Next]_vars => TasksRegistered'
<1> SUFFICES ASSUME TypeOK /\ TasksRegistered, [Next]_vars PROVE TasksRegistered'
    OBVIOUS
<1> USE DEF TypeOK, TasksRegistered, Ops, NoOp, OpKind
<1>1. ASSUME NEW u \in User,
             Acquire(u) \/ Stop(u) \/ CallWaits(u) \/ CallReturns(u) \/
             BindDone(u) \/ BindFails(u) \/ Leave(u) \/ Unreference(u) \/
             Released(u)
      PROVE TasksRegistered'
    BY <1>1 DEF Acquire, Stop, CallWaits, CallReturns, LockFree, BindDone,
           BindFails, Leave, Unreference, Released
<1>2. ASSUME NEW s \in Socket, Park(s) PROVE TasksRegistered'
    BY <1>2 DEF Park, Removed, Inserted, Mark, Evicted
<1>3. ASSUME NEW s \in Socket,
             Accept(s) \/ Admit(s) \/ AdmitAborted(s) \/ LeaveTakes(s) \/
             Disconnects(s) \/ ShutTakes(s) \/ SniffEof(s) \/ SniffRoutes(s) \/
             WatchData(s) \/ WatchEnds(s) \/ RunStarts(s) \/ RunEnds(s) \/
             PeerCloses(s)
      PROVE TasksRegistered'
    BY <1>3 DEF Accept, Admit, Inserted, AdmitAborted, LeaveTakes, Removed,
           Disconnects, Disconnected, RunStarts, ShutTakes, SniffEof,
           CloseRegistered, Mark, SniffRoutes, Claimed, Activated, WatchData,
           WatchEnds, RunEnds, PeerCloses
<1>4. ASSUME NEW u \in User, NEW s \in Socket, NEW k \in OpKind,
             Select(u, k, s)
      PROVE TasksRegistered'
    BY <1>4 DEF Select, Enters, Paused
<1>5. ASSUME NEW s \in Socket,
             (\E u \in User : TakeMatched(u, s)) \/ ProbeSkips(s) \/ ProbePauses(s)
      PROVE TasksRegistered'
  <2>1. CASE \E u \in User : TakeMatched(u, s)
    BY <2>1 DEF TakeMatched, Enters, Claimed, Activated, Removed, Mark
  <2>2. CASE ProbeSkips(s)
    BY <2>2 DEF ProbeSkips, ResumedTask, ResumedParked
  <2>3. CASE ProbePauses(s)
    BY <2>3 DEF ProbePauses, Paused
  <2> QED
    BY <1>5, <2>1, <2>2, <2>3
<1>6. CASE \E u \in User : ProbeStart(u)
    BY <1>6 DEF ProbeStart, Enters
<1>7. CASE ProbeEnds
    BY <1>7 DEF ProbeEnds
<1>8. CASE PauseOver
    BY <1>8 DEF PauseOver
<1>9. CASE TakeDone
    BY <1>9 DEF TakeDone, Claimed, Activated, Removed, Mark
<1>10. CASE RetireDone
    BY <1>10 DEF RetireDone, CloseRegistered, Removed, Mark
<1>11. CASE ProbeClaims
    BY <1>11 DEF ProbeClaims, Claimed, Activated, Removed, Mark
<1>12. CASE ProbeRefused
    BY <1>12 DEF ProbeRefused, Mark, ResumedTask, ResumedParked
<1>13. CASE Cancelled
    BY <1>13 DEF Cancelled, Mark, ResumedTask, ResumedParked
<1>14. CASE TaskJoined \/ LeaveSnapshot \/ Drained \/ Cleared \/ AcceptFails
    BY <1>14 DEF TaskJoined, Mark, LeaveSnapshot, Drained, Cleared, AcceptFails
<1>15. CASE UNCHANGED vars
    BY <1>15 DEF vars
<1> QED
    BY <1>1, <1>2, <1>3, <1>4, <1>5, <1>6, <1>7, <1>8, <1>9, <1>10, <1>11,
       <1>12, <1>13, <1>14, <1>15
    DEF Next, UserStep, SocketStep, RouteStep, ReleaseStep, OpKind

\* Registration, removal, eviction and re-parking keep the dict a sequence.
LEMMA OrderStep ==
    TypeOK /\ TasksRegistered /\ DictOrder /\ [Next]_vars => DictOrder'
<1> SUFFICES ASSUME TypeOK /\ TasksRegistered /\ DictOrder, [Next]_vars PROVE DictOrder'
    OBVIOUS
<1> USE DEF DictOrder, TypeOK, TasksRegistered
<1>1. ASSUME NEW u \in User,
             Acquire(u) \/ Stop(u) \/ CallWaits(u) \/ CallReturns(u) \/
             BindDone(u) \/ BindFails(u) \/ Leave(u) \/ Unreference(u) \/
             Released(u)
      PROVE DictOrder'
    BY <1>1 DEF Acquire, Stop, CallWaits, CallReturns, LockFree, BindDone,
           BindFails, Leave, Unreference, Released
<1>2. ASSUME NEW s \in Socket, Admit(s) PROVE DictOrder'
    BY <1>2, InsertedKeepsOrder DEF Admit
<1>3. ASSUME NEW s \in Socket, LeaveTakes(s) PROVE DictOrder'
    BY <1>3, RemovedKeepsOrder DEF LeaveTakes
<1>4. ASSUME NEW s \in Socket, Park(s) PROVE DictOrder'
  <2> DEFINE out == Evicted(s)
  <2> HIDE DEF out
  <2>1. PICK moved \in BOOLEAN :
            LET gone == out \cup IF moved THEN {s} ELSE {}
            IN  /\ pending' = (pending \ gone) \cup {s}
                /\ older' = Inserted(Removed(gone), pending \ gone, s)
    BY <1>4 DEF Park, out
  <2> DEFINE gone == out \cup IF moved THEN {s} ELSE {}
  <2>2. StrictOrder(Removed(gone), pending \ gone)
    BY RemovedKeepsOrder
  <2>3. Removed(gone) \in SUBSET ((pending \ gone) \X (pending \ gone))
    BY DEF Removed
  <2> QED
    BY <2>1, <2>2, <2>3, InsertedKeepsOrder
<1>5. ASSUME NEW s \in Socket, SniffEof(s) PROVE DictOrder'
    BY <1>5, RemovedKeepsOrder DEF SniffEof, CloseRegistered
<1>6. ASSUME NEW s \in Socket, SniffRoutes(s) PROVE DictOrder'
    BY <1>6, RemovedKeepsOrder DEF SniffRoutes, Claimed, Activated
<1>7. ASSUME NEW s \in Socket, WatchEnds(s) PROVE DictOrder'
    BY <1>7, RemovedKeepsOrder DEF WatchEnds, CloseRegistered
<1>8. ASSUME NEW s \in Socket,
             Accept(s) \/ AdmitAborted(s) \/ Disconnects(s) \/ ShutTakes(s) \/
             WatchData(s) \/ RunStarts(s) \/ RunEnds(s) \/ PeerCloses(s)
      PROVE DictOrder'
    BY <1>8 DEF Accept, AdmitAborted, Disconnects, Disconnected, RunStarts,
           ShutTakes, WatchData, RunEnds, Mark, PeerCloses
<1>9. ASSUME NEW u \in User, NEW s \in Socket, NEW k \in OpKind,
             Select(u, k, s)
      PROVE DictOrder'
    BY <1>9 DEF Select, Enters, Paused
<1>10. ASSUME NEW u \in User, NEW s \in Socket, TakeMatched(u, s) PROVE DictOrder'
    BY <1>10, RemovedKeepsOrder DEF TakeMatched, Enters, Claimed, Activated
<1>11. ASSUME NEW s \in Socket,
             ProbeSkips(s) \/ ProbePauses(s)
      PROVE DictOrder'
    BY <1>11 DEF ProbeSkips, ResumedTask, ResumedParked, ProbePauses, Paused
<1>12. CASE TakeDone
    BY <1>12, RemovedKeepsOrder DEF TakeDone, Claimed, Activated
<1>13. CASE RetireDone
    BY <1>13, RemovedKeepsOrder DEF RetireDone, CloseRegistered
<1>14. CASE ProbeClaims
    BY <1>14, RemovedKeepsOrder DEF ProbeClaims, Claimed, Activated
<1>15. CASE (\E u \in User : ProbeStart(u)) \/ ProbeEnds \/ PauseOver \/
           ProbeRefused \/ Cancelled
    BY <1>15 DEF ProbeStart, Enters, ProbeEnds, PauseOver, ProbeRefused, Mark,
           ResumedTask, ResumedParked, Cancelled
<1>16. CASE Cleared
    BY <1>16 DEF Cleared, StrictOrder
<1>17. CASE TaskJoined \/ LeaveSnapshot \/ Drained \/ AcceptFails
    BY <1>17 DEF TaskJoined, Mark, LeaveSnapshot, Drained, AcceptFails
<1>18. CASE UNCHANGED vars
    BY <1>18 DEF vars
<1> QED
    BY <1>1, <1>2, <1>3, <1>4, <1>5, <1>6, <1>7, <1>8, <1>9, <1>10, <1>11,
       <1>12, <1>13, <1>14, <1>15, <1>16, <1>17, <1>18
    DEF Next, UserStep, SocketStep, RouteStep, ReleaseStep, OpKind

\* A socket has no inventory record until it is admitted, and one for ever after.
LEMMA FreshStep ==
    SInv /\ [Next]_vars => FreshIsAdmitted'
<1> SUFFICES ASSUME SInv, [Next]_vars PROVE FreshIsAdmitted'
    OBVIOUS
<1> USE DEF SInv, FreshIsAdmitted, TypeOK, TasksRegistered, Ops, NoOp, OpKind
<1>1. ASSUME NEW u \in User, Leave(u) PROVE FreshIsAdmitted'
    BY <1>1 DEF Leave, LockFree
<1>2. ASSUME NEW u \in User, Released(u) PROVE FreshIsAdmitted'
    BY <1>2 DEF Released
<1>3. ASSUME NEW u \in User,
             Acquire(u) \/ Stop(u) \/ CallWaits(u) \/ CallReturns(u) \/
             BindDone(u) \/ BindFails(u) \/ Unreference(u)
      PROVE FreshIsAdmitted'
    BY <1>3 DEF Acquire, Stop, CallWaits, CallReturns, LockFree, BindDone,
           BindFails, Unreference
<1>4. ASSUME NEW s \in Socket, Accept(s) PROVE FreshIsAdmitted'
    BY <1>4 DEF Accept
<1>5. ASSUME NEW s \in Socket, Admit(s) PROVE FreshIsAdmitted'
    BY <1>5 DEF Admit, Inserted
<1>6. ASSUME NEW s \in Socket, AdmitAborted(s) PROVE FreshIsAdmitted'
    BY <1>6 DEF AdmitAborted
<1>7. ASSUME NEW s \in Socket, LeaveTakes(s) PROVE FreshIsAdmitted'
    BY <1>7 DEF LeaveTakes, Removed
<1>8. ASSUME NEW s \in Socket, ShutTakes(s) PROVE FreshIsAdmitted'
    BY <1>8 DEF ShutTakes
<1>9. ASSUME NEW s \in Socket, Park(s) PROVE FreshIsAdmitted'
    BY <1>9 DEF Park, Removed, Inserted, Mark, Evicted
<1>10. ASSUME NEW s \in Socket, SniffEof(s) PROVE FreshIsAdmitted'
    BY <1>10 DEF SniffEof, CloseRegistered, Removed, Mark
<1>11. ASSUME NEW s \in Socket, SniffRoutes(s) PROVE FreshIsAdmitted'
    BY <1>11 DEF SniffRoutes, Claimed, Activated, Removed, Mark
<1>12. ASSUME NEW s \in Socket, WatchEnds(s) PROVE FreshIsAdmitted'
    BY <1>12 DEF WatchEnds, CloseRegistered, Removed, Mark
<1>13. ASSUME NEW s \in Socket, RunStarts(s) \/ RunEnds(s) PROVE FreshIsAdmitted'
    BY <1>13 DEF RunStarts, RunEnds, Mark
<1>14. ASSUME NEW s \in Socket,
             Disconnects(s) \/ WatchData(s) \/ PeerCloses(s)
      PROVE FreshIsAdmitted'
    BY <1>14 DEF Disconnects, Disconnected, Mark, WatchData, PeerCloses
<1>15. ASSUME NEW u \in User, NEW s \in Socket, NEW k \in OpKind,
             Select(u, k, s)
      PROVE FreshIsAdmitted'
    BY <1>15 DEF Select, Enters, Paused
<1>16. ASSUME NEW u \in User, NEW s \in Socket, TakeMatched(u, s) PROVE FreshIsAdmitted'
    BY <1>16 DEF TakeMatched, Enters, Claimed, Activated, Removed, Mark
<1>17. ASSUME NEW s \in Socket, ProbeSkips(s) PROVE FreshIsAdmitted'
    BY <1>17 DEF ProbeSkips, ResumedTask, ResumedParked
<1>18. ASSUME NEW s \in Socket, ProbePauses(s) PROVE FreshIsAdmitted'
    BY <1>18 DEF ProbePauses, Paused
<1>19. CASE \E u \in User : ProbeStart(u)
    BY <1>19 DEF ProbeStart, Enters
<1>20. CASE ProbeEnds
    BY <1>20 DEF ProbeEnds
<1>21. CASE PauseOver
    BY <1>21 DEF PauseOver
<1>22. CASE TakeDone
    BY <1>22 DEF TakeDone, Claimed, Activated, Removed, Mark
<1>23. CASE RetireDone
    BY <1>23 DEF RetireDone, CloseRegistered, Removed, Mark
<1>24. CASE ProbeClaims
    BY <1>24 DEF ProbeClaims, Claimed, Activated, Removed, Mark
<1>25. CASE ProbeRefused
    BY <1>25 DEF ProbeRefused, Mark, ResumedTask, ResumedParked
<1>26. CASE Cancelled
    BY <1>26 DEF Cancelled, Mark, ResumedTask, ResumedParked
<1>27. CASE TaskJoined \/ LeaveSnapshot \/ Drained \/ Cleared \/ AcceptFails
    BY <1>27 DEF TaskJoined, Mark, LeaveSnapshot, Drained, Cleared, AcceptFails
<1>28. CASE UNCHANGED vars
    BY <1>28 DEF vars
<1> QED
    BY <1>1, <1>2, <1>3, <1>4, <1>5, <1>6, <1>7, <1>8, <1>9, <1>10, <1>11,
       <1>12, <1>13, <1>14, <1>15, <1>16, <1>17, <1>18, <1>19, <1>20, <1>21,
       <1>22, <1>23, <1>24, <1>25, <1>26, <1>27, <1>28
    DEF Next, UserStep, SocketStep, RouteStep, ReleaseStep, OpKind

\* The remove-before-close order of a release, and its second snapshot.
LEMMA HandsStep ==
    SInv /\ OneInLock /\ [Next]_vars => ReleaseHands'
<1> SUFFICES ASSUME SInv /\ OneInLock, [Next]_vars PROVE ReleaseHands'
    OBVIOUS
<1> USE DEF SInv, Custody, OneInLock, FreshIsAdmitted, ReleaseHands, TypeOK,
           TasksRegistered, Ops, NoOp, OpKind
<1>1. ASSUME NEW u \in User, Leave(u) PROVE ReleaseHands'
    BY <1>1 DEF Leave, LockFree
<1>2. ASSUME NEW u \in User,
             Acquire(u) \/ Stop(u) \/ CallWaits(u) \/ CallReturns(u) \/
             BindDone(u) \/ BindFails(u) \/ Unreference(u) \/ Released(u)
      PROVE ReleaseHands'
    BY <1>2 DEF Acquire, Stop, CallWaits, CallReturns, LockFree, BindDone,
           BindFails, Unreference, Released
<1>3. ASSUME NEW s \in Socket, Admit(s) PROVE ReleaseHands'
    BY <1>3 DEF Admit, Inserted
<1>4. ASSUME NEW s \in Socket, Park(s) PROVE ReleaseHands'
    BY <1>4 DEF Park, Removed, Inserted, Mark, Evicted
<1>5. ASSUME NEW s \in Socket,
             Accept(s) \/ AdmitAborted(s) \/ LeaveTakes(s) \/ Disconnects(s) \/
             ShutTakes(s) \/ SniffEof(s) \/ SniffRoutes(s) \/ WatchData(s) \/
             WatchEnds(s) \/ RunStarts(s) \/ RunEnds(s) \/ PeerCloses(s)
      PROVE ReleaseHands'
    BY <1>5 DEF Accept, AdmitAborted, LeaveTakes, Removed, Disconnects,
           Disconnected, RunStarts, ShutTakes, SniffEof, CloseRegistered, Mark,
           SniffRoutes, Claimed, Activated, WatchData, WatchEnds, RunEnds,
           PeerCloses
<1>6. ASSUME NEW u \in User, NEW s \in Socket, NEW k \in OpKind,
             Select(u, k, s)
      PROVE ReleaseHands'
    BY <1>6 DEF Select, Enters, Paused
<1>7. ASSUME NEW s \in Socket,
             (\E u \in User : TakeMatched(u, s)) \/ ProbeSkips(s) \/ ProbePauses(s)
      PROVE ReleaseHands'
    BY <1>7 DEF TakeMatched, Enters, Claimed, Activated, Removed, Mark,
           ProbeSkips, ResumedTask, ResumedParked, ProbePauses, Paused
<1>8. CASE (\E u \in User : ProbeStart(u)) \/ ProbeEnds \/ PauseOver \/ TakeDone \/
           RetireDone \/ ProbeClaims \/ ProbeRefused \/ Cancelled
    BY <1>8 DEF ProbeStart, Enters, ProbeEnds, PauseOver, TakeDone, Claimed,
           Activated, Removed, Mark, RetireDone, CloseRegistered, ProbeClaims,
           ProbeRefused, ResumedTask, ResumedParked, Cancelled
<1>9. CASE LeaveSnapshot
    BY <1>9 DEF LeaveSnapshot
<1>10. CASE TaskJoined \/ Drained \/ Cleared \/ AcceptFails
    BY <1>10 DEF TaskJoined, Mark, Drained, Cleared, AcceptFails
<1>11. CASE UNCHANGED vars
    BY <1>11 DEF vars
<1> QED
    BY <1>1, <1>2, <1>3, <1>4, <1>5, <1>6, <1>7, <1>8, <1>9, <1>10, <1>11
    DEF Next, UserStep, SocketStep, RouteStep, ReleaseStep, OpKind

\* Every hand-over of a socket is one step: out of one place and into the next.
LEMMA CustodyStep ==
    IInv /\ [Next]_vars => Custody'
<1> SUFFICES ASSUME IInv, [Next]_vars PROVE Custody'
    OBVIOUS
<1> USE DEF IInv, LInv, OneInLock, ShutdownClears, SInv, Custody, FreshIsAdmitted,
           ReleaseHands, TypeOK, TasksRegistered, Ops, NoOp, OpKind
<1>1. ASSUME NEW u \in User, Leave(u) PROVE Custody'
    BY <1>1 DEF Leave, LockFree
<1>2. ASSUME NEW u \in User, Released(u) PROVE Custody'
    BY <1>2 DEF Released
<1>3. ASSUME NEW u \in User,
             Acquire(u) \/ Stop(u) \/ CallWaits(u) \/ CallReturns(u) \/
             BindDone(u) \/ BindFails(u) \/ Unreference(u)
      PROVE Custody'
    BY <1>3 DEF Acquire, Stop, CallWaits, CallReturns, LockFree, BindDone,
           BindFails, Unreference
<1>4. ASSUME NEW s \in Socket, Accept(s) PROVE Custody'
    BY <1>4 DEF Accept
<1>5. ASSUME NEW s \in Socket, Admit(s) PROVE Custody'
    BY <1>5 DEF Admit, Inserted
<1>6. ASSUME NEW s \in Socket, AdmitAborted(s) PROVE Custody'
    BY <1>6 DEF AdmitAborted
<1>7. ASSUME NEW s \in Socket, LeaveTakes(s) PROVE Custody'
    BY <1>7 DEF LeaveTakes, Removed
<1>8. ASSUME NEW s \in Socket, ShutTakes(s) PROVE Custody'
    BY <1>8 DEF ShutTakes
<1>9. ASSUME NEW s \in Socket, Park(s) PROVE Custody'
    BY <1>9 DEF Park, Removed, Inserted, Mark, Evicted
<1>10. ASSUME NEW s \in Socket,
             Disconnects(s) \/ SniffEof(s) \/ SniffRoutes(s) \/ WatchData(s) \/
             WatchEnds(s) \/ RunStarts(s) \/ RunEnds(s) \/ PeerCloses(s)
      PROVE Custody'
    BY <1>10 DEF Disconnects, Disconnected, RunStarts, SniffEof, CloseRegistered,
           Removed, Mark, SniffRoutes, Claimed, Activated, WatchData, WatchEnds,
           RunEnds, PeerCloses
<1>11. ASSUME NEW u \in User, NEW s \in Socket, NEW k \in OpKind,
             Select(u, k, s)
      PROVE Custody'
    BY <1>11 DEF Select, Enters, Paused
<1>12. ASSUME NEW s \in Socket,
             (\E u \in User : TakeMatched(u, s)) \/ ProbeSkips(s) \/ ProbePauses(s)
      PROVE Custody'
    BY <1>12 DEF TakeMatched, Enters, Claimed, Activated, Removed, Mark,
           ProbeSkips, ResumedTask, ResumedParked, ProbePauses, Paused
<1>13. CASE TakeDone
    BY <1>13 DEF TakeDone, Claimed, Activated, Removed, Mark
<1>14. CASE RetireDone
    BY <1>14 DEF RetireDone, CloseRegistered, Removed, Mark
<1>15. CASE (\E u \in User : ProbeStart(u)) \/ ProbeEnds \/ PauseOver \/
           ProbeClaims \/ ProbeRefused \/ Cancelled
    BY <1>15 DEF ProbeStart, Enters, ProbeEnds, PauseOver, ProbeClaims, Claimed,
           Activated, Removed, Mark, ProbeRefused, ResumedTask, ResumedParked,
           Cancelled
<1>16. CASE TaskJoined
    BY <1>16 DEF TaskJoined, Mark
<1>17. CASE Drained
    BY <1>17 DEF Drained
<1>18. CASE Cleared
    BY <1>18 DEF Cleared
<1>19. CASE LeaveSnapshot \/ AcceptFails
    BY <1>19 DEF LeaveSnapshot, AcceptFails
<1>20. CASE UNCHANGED vars
    BY <1>20 DEF vars
<1> QED
    BY <1>1, <1>2, <1>3, <1>4, <1>5, <1>6, <1>7, <1>8, <1>9, <1>10, <1>11,
       <1>12, <1>13, <1>14, <1>15, <1>16, <1>17, <1>18, <1>19, <1>20
    DEF Next, UserStep, SocketStep, RouteStep, ReleaseStep, OpKind

-----------------------------------------------------------------------------
(* Every step keeps the lock, the count and the shutdown *)

\* start and stop hold _LISTENERS_LOCK from their first step to their last.
LEMMA LockStep ==
    TypeOK /\ OneInLock /\ [Next]_vars => OneInLock'
<1> SUFFICES ASSUME TypeOK /\ OneInLock, [Next]_vars PROVE OneInLock'
    OBVIOUS
<1> USE DEF OneInLock, TypeOK
<1>1. ASSUME NEW u \in User, Acquire(u) PROVE OneInLock'
    BY <1>1 DEF Acquire, LockFree
<1>2. ASSUME NEW u \in User,
             BindDone(u) \/ Stop(u) \/ CallWaits(u) \/ CallReturns(u)
      PROVE OneInLock'
    BY <1>2 DEF BindDone, Stop, CallWaits, CallReturns
<1>3. ASSUME NEW u \in User, BindFails(u) PROVE OneInLock'
    BY <1>3 DEF BindFails
<1>4. ASSUME NEW u \in User, Leave(u) PROVE OneInLock'
    BY <1>4 DEF Leave, LockFree
<1>5. ASSUME NEW u \in User, Unreference(u) PROVE OneInLock'
    BY <1>5 DEF Unreference
<1>6. ASSUME NEW u \in User, Released(u) PROVE OneInLock'
    BY <1>6 DEF Released
<1>7. ASSUME NEW s \in Socket,
             Accept(s) \/ Admit(s) \/ AdmitAborted(s) \/ LeaveTakes(s) \/
             Disconnects(s) \/ ShutTakes(s) \/ Park(s) \/ SniffEof(s) \/
             SniffRoutes(s) \/ WatchData(s) \/ WatchEnds(s) \/ RunStarts(s) \/
             RunEnds(s) \/ PeerCloses(s)
      PROVE OneInLock'
    BY <1>7 DEF Accept, Admit, Inserted, AdmitAborted, LeaveTakes, Removed,
           Disconnects, Disconnected, RunStarts, ShutTakes, Park, Mark, Evicted,
           SniffEof, CloseRegistered, SniffRoutes, Claimed, Activated, WatchData,
           WatchEnds, RunEnds, PeerCloses
<1>8. ASSUME NEW u \in User, NEW s \in Socket, NEW k \in OpKind,
             Select(u, k, s)
      PROVE OneInLock'
    BY <1>8 DEF Select, Enters, Paused
<1>9. ASSUME NEW s \in Socket,
             (\E u \in User : TakeMatched(u, s)) \/ ProbeSkips(s) \/ ProbePauses(s)
      PROVE OneInLock'
    BY <1>9 DEF TakeMatched, Enters, Claimed, Activated, Removed, Mark,
           ProbeSkips, ResumedTask, ResumedParked, ProbePauses, Paused
<1>10. CASE (\E u \in User : ProbeStart(u)) \/ ProbeEnds \/ PauseOver \/
           TakeDone \/ RetireDone \/ ProbeClaims \/ ProbeRefused \/ Cancelled
    BY <1>10 DEF ProbeStart, Enters, ProbeEnds, PauseOver, TakeDone, Claimed,
           Activated, Removed, Mark, RetireDone, CloseRegistered, ProbeClaims,
           ProbeRefused, ResumedTask, ResumedParked, Cancelled
<1>11. CASE TaskJoined \/ LeaveSnapshot \/ Drained \/ Cleared \/ AcceptFails
    BY <1>11 DEF TaskJoined, Mark, LeaveSnapshot, Drained, Cleared, AcceptFails
<1>12. CASE UNCHANGED vars
    BY <1>12 DEF vars
<1> QED
    BY <1>1, <1>2, <1>3, <1>4, <1>5, <1>6, <1>7, <1>8, <1>9, <1>10, <1>11,
       <1>12
    DEF Next, UserStep, SocketStep, RouteStep, ReleaseStep, OpKind

\* The count follows the transports, also through a failed bind and a release.
LEMMA RefStep ==
    TypeOK /\ LInv /\ [Next]_vars => RefCounts'
<1> SUFFICES ASSUME TypeOK /\ LInv, [Next]_vars PROVE RefCounts'
    OBVIOUS
<1> USE DEF TypeOK, LInv, OneInLock, RefCounts, Holders
<1>1. ASSUME NEW u \in User, Acquire(u) PROVE RefCounts'
  <2>1. Holders' = Holders \cup {u} /\ u \notin Holders
    BY <1>1 DEF Acquire
  <2>2. IsFiniteSet(Holders') /\ Cardinality(Holders') = Cardinality(Holders) + 1
    <3> HIDE DEF Holders
    <3> QED
      BY <2>1, FS_AddElement
  <2> QED
    BY <1>1, <2>2 DEF Acquire
<1>2. ASSUME NEW u \in User,
             BindDone(u) \/ Stop(u) \/ CallWaits(u) \/ CallReturns(u)
      PROVE RefCounts'
  <2>1. Holders' = Holders /\ ref' = ref
    BY <1>2 DEF BindDone, Stop, CallWaits, CallReturns
  <2> HIDE DEF Holders
  <2> QED
    BY <2>1
<1>3. ASSUME NEW u \in User, BindFails(u) PROVE RefCounts'
  <2>1. Holders' = Holders \ {u} /\ u \in Holders
    BY <1>3 DEF BindFails
  <2>2. IsFiniteSet(Holders') /\ Cardinality(Holders') = ref - 1
    <3> HIDE DEF Holders
    <3> QED
      BY <2>1, HolderCounted
  <2> QED
    BY <1>3, <2>2 DEF BindFails
<1>4. ASSUME NEW u \in User, Leave(u) PROVE RefCounts'
    BY <1>4 DEF Leave, LockFree
<1>5. ASSUME NEW u \in User, Unreference(u) PROVE RefCounts'
  <2>1. Holders' = Holders \ {u} /\ u \in Holders
    BY <1>5 DEF Unreference
  <2>2. IsFiniteSet(Holders') /\ Cardinality(Holders') = ref - 1
    <3> HIDE DEF Holders
    <3> QED
      BY <2>1, HolderCounted
  <2> QED
    BY <1>5, <2>2 DEF Unreference
<1>6. ASSUME NEW u \in User, Released(u) PROVE RefCounts'
    BY <1>6 DEF Released
<1>7. ASSUME NEW s \in Socket,
             Accept(s) \/ Admit(s) \/ AdmitAborted(s) \/ LeaveTakes(s) \/
             Disconnects(s) \/ ShutTakes(s) \/ Park(s) \/ SniffEof(s) \/
             SniffRoutes(s) \/ WatchData(s) \/ WatchEnds(s) \/ RunStarts(s) \/
             RunEnds(s) \/ PeerCloses(s)
      PROVE RefCounts'
  <2>1. UNCHANGED <<user, ref, Holders>>
    BY <1>7 DEF Accept, Admit, Inserted, AdmitAborted, LeaveTakes, Removed,
           Disconnects, Disconnected, RunStarts, ShutTakes, Park, Mark, Evicted,
           SniffEof, CloseRegistered, SniffRoutes, Claimed, Activated, WatchData,
           WatchEnds, RunEnds, PeerCloses
  <2> QED
    BY <2>1
<1>8. ASSUME NEW u \in User, NEW s \in Socket, NEW k \in OpKind,
             Select(u, k, s)
      PROVE RefCounts'
    BY <1>8 DEF Select, Enters, Paused
<1>9. ASSUME NEW s \in Socket,
             (\E u \in User : TakeMatched(u, s)) \/ ProbeSkips(s) \/ ProbePauses(s)
      PROVE RefCounts'
  <2>1. UNCHANGED <<user, ref, Holders>>
    BY <1>9 DEF TakeMatched, Enters, Claimed, Activated, Removed, Mark,
           ProbeSkips, ResumedTask, ResumedParked, ProbePauses, Paused
  <2> QED
    BY <2>1
<1>10. CASE (\E u \in User : ProbeStart(u)) \/ ProbeEnds \/ PauseOver \/
           TakeDone \/ RetireDone \/ ProbeClaims \/ ProbeRefused \/ Cancelled
  <2>1. UNCHANGED <<user, ref, Holders>>
    BY <1>10 DEF ProbeStart, Enters, ProbeEnds, PauseOver, TakeDone, Claimed,
           Activated, Removed, Mark, RetireDone, CloseRegistered, ProbeClaims,
           ProbeRefused, ResumedTask, ResumedParked, Cancelled
  <2> QED
    BY <2>1
<1>11. CASE TaskJoined \/ LeaveSnapshot \/ Drained \/ Cleared \/ AcceptFails
  <2>1. UNCHANGED <<user, ref, Holders>>
    BY <1>11 DEF TaskJoined, Mark, LeaveSnapshot, Drained, Cleared, AcceptFails
  <2> QED
    BY <2>1
<1>12. CASE UNCHANGED vars
    BY <1>12 DEF vars
<1> HIDE DEF RefCounts, Holders
<1> QED
    BY <1>1, <1>2, <1>3, <1>4, <1>5, <1>6, <1>7, <1>8, <1>9, <1>10, <1>11,
       <1>12
    DEF Next, UserStep, SocketStep, RouteStep, ReleaseStep, OpKind

\* The acceptor is opened by the first reference and closed by the last.
LEMMA AcceptorStep ==
    TypeOK /\ LInv /\ [Next]_vars => AcceptorServes'
<1> SUFFICES ASSUME TypeOK /\ LInv, [Next]_vars PROVE AcceptorServes'
    OBVIOUS
<1> USE DEF TypeOK, LInv, OneInLock, AcceptorServes, Holders
<1>1. ASSUME NEW u \in User, Acquire(u) PROVE AcceptorServes'
    BY <1>1 DEF Acquire, LockFree
<1>2. ASSUME NEW u \in User,
             BindDone(u) \/ Stop(u) \/ CallWaits(u) \/ CallReturns(u)
      PROVE AcceptorServes'
    BY <1>2 DEF BindDone, Stop, CallWaits, CallReturns
<1>3. ASSUME NEW u \in User, BindFails(u) PROVE AcceptorServes'
    BY <1>3 DEF BindFails
<1>4. ASSUME NEW u \in User, Leave(u) PROVE AcceptorServes'
    BY <1>4 DEF Leave, LockFree
<1>5. ASSUME NEW u \in User, Unreference(u) PROVE AcceptorServes'
  <2>1. Holders' = Holders \ {u} /\ u \in Holders
    BY <1>5 DEF Unreference
  <2>2. IsFiniteSet(Holders') /\ Cardinality(Holders') = ref - 1 /\ ref \in Nat \ {0}
    <3> HIDE DEF Holders
    <3> QED
      BY <2>1, HolderCounted
  <2>3. Holders' = {} <=> ref = 1
    <3> HIDE DEF Holders
    <3> QED
      BY <2>2, FS_EmptySet
  <2> QED
    BY <1>5, <2>3 DEF Unreference
<1>6. ASSUME NEW u \in User, Released(u) PROVE AcceptorServes'
    BY <1>6 DEF Released
<1>7. ASSUME NEW s \in Socket,
             Accept(s) \/ Admit(s) \/ AdmitAborted(s) \/ LeaveTakes(s) \/
             Disconnects(s) \/ ShutTakes(s) \/ Park(s) \/ SniffEof(s) \/
             SniffRoutes(s) \/ WatchData(s) \/ WatchEnds(s) \/ RunStarts(s) \/
             RunEnds(s) \/ PeerCloses(s)
      PROVE AcceptorServes'
    BY <1>7 DEF Accept, Admit, Inserted, AdmitAborted, LeaveTakes, Removed,
           Disconnects, Disconnected, RunStarts, ShutTakes, Park, Mark, Evicted,
           SniffEof, CloseRegistered, SniffRoutes, Claimed, Activated, WatchData,
           WatchEnds, RunEnds, PeerCloses
<1>8. ASSUME NEW u \in User, NEW s \in Socket, NEW k \in OpKind,
             Select(u, k, s)
      PROVE AcceptorServes'
    BY <1>8 DEF Select, Enters, Paused
<1>9. ASSUME NEW s \in Socket,
             (\E u \in User : TakeMatched(u, s)) \/ ProbeSkips(s) \/ ProbePauses(s)
      PROVE AcceptorServes'
    BY <1>9 DEF TakeMatched, Enters, Claimed, Activated, Removed, Mark,
           ProbeSkips, ResumedTask, ResumedParked, ProbePauses, Paused
<1>10. CASE (\E u \in User : ProbeStart(u)) \/ ProbeEnds \/ PauseOver \/
           TakeDone \/ RetireDone \/ ProbeClaims \/ ProbeRefused \/ Cancelled
    BY <1>10 DEF ProbeStart, Enters, ProbeEnds, PauseOver, TakeDone, Claimed,
           Activated, Removed, Mark, RetireDone, CloseRegistered, ProbeClaims,
           ProbeRefused, ResumedTask, ResumedParked, Cancelled
<1>11. CASE TaskJoined \/ LeaveSnapshot \/ Drained \/ Cleared \/ AcceptFails
    BY <1>11 DEF TaskJoined, Mark, LeaveSnapshot, Drained, Cleared, AcceptFails
<1>12. CASE UNCHANGED vars
    BY <1>12 DEF vars
<1> QED
    BY <1>1, <1>2, <1>3, <1>4, <1>5, <1>6, <1>7, <1>8, <1>9, <1>10, <1>11,
       <1>12
    DEF Next, UserStep, SocketStep, RouteStep, ReleaseStep, OpKind

\* What a snapshot of the shutdown does not hold is closed already: nothing is
\* admitted after the drain, and a sniff task or route operation that moves a
\* socket between two snapshots moves it into the next one.
LEMMA ShutStep ==
    IInv /\ [Next]_vars => ShutdownClears'
<1> SUFFICES ASSUME IInv, [Next]_vars PROVE ShutdownClears'
    OBVIOUS
<1> USE DEF IInv, LInv, OneInLock, AcceptorServes, ShutdownClears, SInv, Custody,
           FreshIsAdmitted, ReleaseHands, TypeOK, TasksRegistered, Ops, NoOp,
           OpKind
<1>1. ASSUME NEW u \in User, BindDone(u) PROVE ShutdownClears'
    BY <1>1 DEF BindDone
<1>2. ASSUME NEW u \in User, Leave(u) PROVE ShutdownClears'
    BY <1>2 DEF Leave, LockFree
<1>3. ASSUME NEW u \in User, Unreference(u) PROVE ShutdownClears'
    BY <1>3 DEF Unreference
<1>4. ASSUME NEW u \in User, Released(u) PROVE ShutdownClears'
    BY <1>4 DEF Released
<1>5. ASSUME NEW u \in User,
             Acquire(u) \/ Stop(u) \/ CallWaits(u) \/ CallReturns(u) \/ BindFails(u)
      PROVE ShutdownClears'
    BY <1>5 DEF Acquire, Stop, CallWaits, CallReturns, LockFree, BindFails
<1>6. ASSUME NEW s \in Socket, Accept(s) PROVE ShutdownClears'
    BY <1>6 DEF Accept
<1>7. ASSUME NEW s \in Socket, Admit(s) PROVE ShutdownClears'
    BY <1>7 DEF Admit, Inserted
<1>8. ASSUME NEW s \in Socket, ShutTakes(s) PROVE ShutdownClears'
    BY <1>8 DEF ShutTakes
<1>9. ASSUME NEW s \in Socket, Park(s) PROVE ShutdownClears'
    BY <1>9 DEF Park, Removed, Inserted, Mark, Evicted
<1>10. ASSUME NEW s \in Socket,
             AdmitAborted(s) \/ LeaveTakes(s) \/ Disconnects(s) \/ SniffEof(s) \/
             SniffRoutes(s) \/ WatchData(s) \/ WatchEnds(s) \/ RunStarts(s) \/
             RunEnds(s) \/ PeerCloses(s)
      PROVE ShutdownClears'
    BY <1>10 DEF AdmitAborted, LeaveTakes, Removed, Disconnects, Disconnected,
           RunStarts, SniffEof, CloseRegistered, Mark, SniffRoutes, Claimed,
           Activated, WatchData, WatchEnds, RunEnds, PeerCloses
<1>11. ASSUME NEW u \in User, NEW s \in Socket, NEW k \in OpKind,
             Select(u, k, s)
      PROVE ShutdownClears'
    BY <1>11 DEF Select, Enters, Paused
<1>12. ASSUME NEW s \in Socket,
             (\E u \in User : TakeMatched(u, s)) \/ ProbeSkips(s) \/ ProbePauses(s)
      PROVE ShutdownClears'
    BY <1>12 DEF TakeMatched, Enters, Claimed, Activated, Removed, Mark,
           ProbeSkips, ResumedTask, ResumedParked, ProbePauses, Paused
<1>13. CASE TakeDone
    BY <1>13 DEF TakeDone, Claimed, Activated, Removed, Mark
<1>14. CASE RetireDone
    BY <1>14 DEF RetireDone, CloseRegistered, Removed, Mark
<1>15. CASE (\E u \in User : ProbeStart(u)) \/ ProbeEnds \/ PauseOver \/
           ProbeClaims \/ ProbeRefused \/ Cancelled
    BY <1>15 DEF ProbeStart, Enters, ProbeEnds, PauseOver, ProbeClaims, Claimed,
           Activated, Removed, Mark, ProbeRefused, ResumedTask, ResumedParked,
           Cancelled
<1>16. CASE TaskJoined
    BY <1>16 DEF TaskJoined, Mark
<1>17. CASE Drained
    BY <1>17 DEF Drained
<1>18. CASE Cleared
    BY <1>18 DEF Cleared
<1>19. CASE LeaveSnapshot \/ AcceptFails
    BY <1>19 DEF LeaveSnapshot, AcceptFails
<1>20. CASE UNCHANGED vars
    BY <1>20 DEF vars
<1> QED
    BY <1>1, <1>2, <1>3, <1>4, <1>5, <1>6, <1>7, <1>8, <1>9, <1>10, <1>11,
       <1>12, <1>13, <1>14, <1>15, <1>16, <1>17, <1>18, <1>19, <1>20
    DEF Next, UserStep, SocketStep, RouteStep, ReleaseStep, OpKind

-----------------------------------------------------------------------------
(* What a step may do *)

TerminalKept == \A s \in Socket : state[s] \in Terminal => state'[s] \in Terminal
RoutesOpen == \A s \in conn' \ conn : s \in open \/ ShuttingDown
RoomMade ==
    \A s \in Socket : task[s] = "sniff" /\ task'[s] = "watch" => Cardinality(parked') <= MaxParked

\* A mark is refused where the state is terminal, and an admission starts from
\* no record.
LEMMA TerminalStep ==
    SInv /\ [Next]_vars => TerminalKept
<1> SUFFICES ASSUME SInv, [Next]_vars PROVE TerminalKept
    OBVIOUS
<1> USE DEF SInv, FreshIsAdmitted, TerminalKept, TypeOK, TasksRegistered, Ops,
           NoOp, OpKind
<1>1. ASSUME NEW u \in User, Released(u) PROVE TerminalKept
    BY <1>1 DEF Released
<1>2. ASSUME NEW u \in User,
             Acquire(u) \/ Stop(u) \/ CallWaits(u) \/ CallReturns(u) \/
             BindDone(u) \/ BindFails(u) \/ Leave(u) \/ Unreference(u)
      PROVE TerminalKept
    BY <1>2 DEF Acquire, Stop, CallWaits, CallReturns, LockFree, BindDone,
           BindFails, Leave, Unreference
<1>3. ASSUME NEW s \in Socket, Accept(s) PROVE TerminalKept
    BY <1>3 DEF Accept
<1>4. ASSUME NEW s \in Socket, Admit(s) PROVE TerminalKept
    BY <1>4 DEF Admit, Inserted
<1>5. ASSUME NEW s \in Socket, AdmitAborted(s) PROVE TerminalKept
    BY <1>5 DEF AdmitAborted
<1>6. ASSUME NEW s \in Socket, Park(s) PROVE TerminalKept
    BY <1>6 DEF Park, Removed, Inserted, Mark, Evicted
<1>7. ASSUME NEW s \in Socket,
             LeaveTakes(s) \/ Disconnects(s) \/ ShutTakes(s) \/ SniffEof(s) \/
             SniffRoutes(s) \/ WatchData(s) \/ WatchEnds(s) \/ RunStarts(s) \/
             RunEnds(s) \/ PeerCloses(s)
      PROVE TerminalKept
    BY <1>7 DEF LeaveTakes, Removed, Disconnects, Disconnected, RunStarts,
           ShutTakes, SniffEof, CloseRegistered, Mark, SniffRoutes, Claimed,
           Activated, WatchData, WatchEnds, RunEnds, PeerCloses
<1>8. ASSUME NEW u \in User, NEW s \in Socket, NEW k \in OpKind,
             Select(u, k, s)
      PROVE TerminalKept
    BY <1>8 DEF Select, Enters, Paused
<1>9. ASSUME NEW s \in Socket,
             (\E u \in User : TakeMatched(u, s)) \/ ProbeSkips(s) \/ ProbePauses(s)
      PROVE TerminalKept
    BY <1>9 DEF TakeMatched, Enters, Claimed, Activated, Removed, Mark,
           ProbeSkips, ResumedTask, ResumedParked, ProbePauses, Paused
<1>10. CASE TakeDone
    BY <1>10 DEF TakeDone, Claimed, Activated, Removed, Mark
<1>11. CASE ProbeRefused
    BY <1>11 DEF ProbeRefused, Mark, ResumedTask, ResumedParked
<1>12. CASE Cancelled
    BY <1>12 DEF Cancelled, Mark, ResumedTask, ResumedParked
<1>13. CASE (\E u \in User : ProbeStart(u)) \/ ProbeEnds \/ PauseOver \/
           RetireDone \/ ProbeClaims
    BY <1>13 DEF ProbeStart, Enters, ProbeEnds, PauseOver, RetireDone,
           CloseRegistered, Removed, Mark, ProbeClaims, Claimed, Activated
<1>14. CASE TaskJoined \/ LeaveSnapshot \/ Drained \/ Cleared \/ AcceptFails
    BY <1>14 DEF TaskJoined, Mark, LeaveSnapshot, Drained, Cleared, AcceptFails
<1>15. CASE UNCHANGED vars
    BY <1>15 DEF vars
<1> QED
    BY <1>1, <1>2, <1>3, <1>4, <1>5, <1>6, <1>7, <1>8, <1>9, <1>10, <1>11,
       <1>12, <1>13, <1>14, <1>15
    DEF Next, UserStep, SocketStep, RouteStep, ReleaseStep, OpKind

\* Every claim re-checks the registration in the step that routes the socket.
LEMMA RouteOpenStep ==
    SInv /\ [Next]_vars => RoutesOpen
<1> SUFFICES ASSUME SInv, [Next]_vars PROVE RoutesOpen
    OBVIOUS
<1> USE DEF SInv, Custody, RoutesOpen, TypeOK, TasksRegistered, Ops, NoOp, OpKind
<1>1. ASSUME NEW u \in User,
             Acquire(u) \/ Stop(u) \/ CallWaits(u) \/ CallReturns(u) \/
             BindDone(u) \/ BindFails(u) \/ Leave(u) \/ Unreference(u) \/
             Released(u)
      PROVE RoutesOpen
    BY <1>1 DEF Acquire, Stop, CallWaits, CallReturns, LockFree, BindDone,
           BindFails, Leave, Unreference, Released
<1>2. ASSUME NEW s \in Socket, Park(s) PROVE RoutesOpen
    BY <1>2 DEF Park, Removed, Inserted, Mark, Evicted
<1>3. ASSUME NEW s \in Socket,
             Accept(s) \/ Admit(s) \/ AdmitAborted(s) \/ LeaveTakes(s) \/
             Disconnects(s) \/ ShutTakes(s) \/ SniffEof(s) \/ SniffRoutes(s) \/
             WatchData(s) \/ WatchEnds(s) \/ RunStarts(s) \/ RunEnds(s) \/
             PeerCloses(s)
      PROVE RoutesOpen
    BY <1>3 DEF Accept, Admit, Inserted, AdmitAborted, LeaveTakes, Removed,
           Disconnects, Disconnected, RunStarts, ShutTakes, SniffEof,
           CloseRegistered, Mark, SniffRoutes, Claimed, Activated, WatchData,
           WatchEnds, RunEnds, PeerCloses
<1>4. ASSUME NEW u \in User, NEW s \in Socket, NEW k \in OpKind,
             Select(u, k, s)
      PROVE RoutesOpen
    BY <1>4 DEF Select, Enters, Paused
<1>5. ASSUME NEW s \in Socket,
             (\E u \in User : TakeMatched(u, s)) \/ ProbeSkips(s) \/ ProbePauses(s)
      PROVE RoutesOpen
    BY <1>5 DEF TakeMatched, Enters, Claimed, Activated, Removed, Mark,
           ProbeSkips, ResumedTask, ResumedParked, ProbePauses, Paused
<1>6. CASE (\E u \in User : ProbeStart(u)) \/ ProbeEnds \/ PauseOver \/ TakeDone \/
           RetireDone \/ ProbeClaims \/ ProbeRefused \/ Cancelled
    BY <1>6 DEF ProbeStart, Enters, ProbeEnds, PauseOver, TakeDone, Claimed,
           Activated, Removed, Mark, RetireDone, CloseRegistered, ProbeClaims,
           ProbeRefused, ResumedTask, ResumedParked, Cancelled
<1>7. CASE TaskJoined \/ LeaveSnapshot \/ Drained \/ Cleared \/ AcceptFails
    BY <1>7 DEF TaskJoined, Mark, LeaveSnapshot, Drained, Cleared, AcceptFails
<1>8. CASE UNCHANGED vars
    BY <1>8 DEF vars
<1> QED
    BY <1>1, <1>2, <1>3, <1>4, <1>5, <1>6, <1>7, <1>8
    DEF Next, UserStep, SocketStep, RouteStep, ReleaseStep, OpKind

\* Only a sniff task parks a socket it was sniffing, and it evicts first.
LEMMA RoomStep ==
    TypeOK /\ TasksRegistered /\ DictOrder /\ [Next]_vars => RoomMade
<1> SUFFICES ASSUME TypeOK /\ TasksRegistered /\ DictOrder, [Next]_vars PROVE RoomMade
    OBVIOUS
<1> USE DEF RoomMade, TypeOK, TasksRegistered
<1>1. ASSUME NEW u \in User,
             Acquire(u) \/ Stop(u) \/ CallWaits(u) \/ CallReturns(u) \/
             BindDone(u) \/ BindFails(u) \/ Leave(u) \/ Unreference(u) \/
             Released(u)
      PROVE RoomMade
    BY <1>1 DEF Acquire, Stop, CallWaits, CallReturns, LockFree, BindDone,
           BindFails, Leave, Unreference, Released
<1>2. ASSUME NEW s \in Socket, Park(s) PROVE RoomMade
  <2> DEFINE kept == ((parked \cap pending) \ {s}) \ Evicted(s)
  <2>1. parked' = kept \cup {s}
    BY <1>2 DEF Park, Evicted
  <2>2. IsFiniteSet(kept) /\ Cardinality(kept) <= MaxParked - 1 /\ Cardinality(kept) \in Nat
    BY EvictionMakesRoom, FS_CardinalityType
  <2> HIDE DEF kept
  <2>3. Cardinality(kept \cup {s})
            = IF s \in kept THEN Cardinality(kept) ELSE Cardinality(kept) + 1
    BY <2>2, FS_AddElement
  <2>4. Cardinality(parked') <= MaxParked
    <3> HIDE DEF TypeOK, TasksRegistered
    <3> QED
      BY <2>1, <2>2, <2>3
  <2> QED
    BY <2>4
<1>3. ASSUME NEW s \in Socket,
             Accept(s) \/ Admit(s) \/ AdmitAborted(s) \/ LeaveTakes(s) \/
             Disconnects(s) \/ ShutTakes(s) \/ SniffEof(s) \/ SniffRoutes(s) \/
             WatchData(s) \/ WatchEnds(s) \/ RunStarts(s) \/ RunEnds(s) \/
             PeerCloses(s)
      PROVE RoomMade
    BY <1>3 DEF Accept, Admit, Inserted, AdmitAborted, LeaveTakes, Removed,
           Disconnects, Disconnected, RunStarts, ShutTakes, SniffEof,
           CloseRegistered, Mark, SniffRoutes, Claimed, Activated, WatchData,
           WatchEnds, RunEnds, PeerCloses
<1>4. ASSUME NEW u \in User, NEW s \in Socket, NEW k \in OpKind,
             Select(u, k, s)
      PROVE RoomMade
    BY <1>4 DEF Select, Enters, Paused
<1>5. ASSUME NEW s \in Socket,
             (\E u \in User : TakeMatched(u, s)) \/ ProbeSkips(s) \/ ProbePauses(s)
      PROVE RoomMade
    BY <1>5 DEF TakeMatched, Enters, Claimed, Activated, Removed, Mark,
           ProbeSkips, ResumedTask, ResumedParked, ProbePauses, Paused
<1>6. CASE (\E u \in User : ProbeStart(u)) \/ ProbeEnds \/ PauseOver \/ TakeDone \/
           RetireDone \/ ProbeClaims \/ ProbeRefused \/ Cancelled
    BY <1>6 DEF ProbeStart, Enters, ProbeEnds, PauseOver, TakeDone, Claimed,
           Activated, Removed, Mark, RetireDone, CloseRegistered, ProbeClaims,
           ProbeRefused, ResumedTask, ResumedParked, Cancelled
<1>7. CASE TaskJoined \/ LeaveSnapshot \/ Drained \/ Cleared \/ AcceptFails
    BY <1>7 DEF TaskJoined, Mark, LeaveSnapshot, Drained, Cleared, AcceptFails
<1>8. CASE UNCHANGED vars
    BY <1>8 DEF vars
<1> QED
    BY <1>1, <1>2, <1>3, <1>4, <1>5, <1>6, <1>7, <1>8
    DEF Next, UserStep, SocketStep, RouteStep, ReleaseStep, OpKind

-----------------------------------------------------------------------------
(* The theorems *)

\* A listener nobody has acquired.
LEMMA InitInv == Init => IInv
<1> SUFFICES ASSUME Init PROVE IInv
    OBVIOUS
<1>1. SInv
    BY DEF Init, SInv, TypeOK, TasksRegistered, FreshIsAdmitted, ReleaseHands,
           Custody, Ops, NoOp
<1>2. DictOrder
    BY DEF Init, DictOrder, StrictOrder
<1>3. Holders = {}
    BY DEF Init, Holders
<1>4. RefCounts
    BY <1>3, FS_EmptySet DEF Init, RefCounts
<1>5. OneInLock /\ AcceptorServes /\ ShutdownClears
    BY <1>3 DEF Init, OneInLock, AcceptorServes, ShutdownClears
<1> QED
    BY <1>1, <1>2, <1>4, <1>5 DEF IInv, LInv

\* The invariant is inductive.
LEMMA Inductive == IInv /\ [Next]_vars => IInv'
<1> SUFFICES ASSUME IInv, [Next]_vars PROVE IInv'
    OBVIOUS
<1>1. SInv'
    BY TypeStep, TaskStep, FreshStep, HandsStep, CustodyStep DEF IInv, SInv, LInv
<1>2. DictOrder'
    BY OrderStep DEF IInv, SInv
<1>3. LInv'
    BY LockStep, RefStep, AcceptorStep DEF IInv, SInv, LInv
<1>4. ShutdownClears'
    BY ShutStep
<1> QED
    BY <1>1, <1>2, <1>3, <1>4 DEF IInv

\* The invariant holds for any number of transports and sockets and any caps.
THEOREM ListenerInvariant == Spec => []IInv
BY InitInv, Inductive, PTL DEF Spec

\* Every variable of the listener keeps its type.
THEOREM ListenerTyped == Spec => []TypeOK
<1>1. IInv => TypeOK
    BY DEF IInv, SInv
<1> QED
    BY <1>1, ListenerInvariant, PTL

\* Every socket this side has not closed is with exactly one of its admission
\* task, _pending_sockets, a connection or the release that closes it, or it was
\* claimed for a facade that had stopped while its pop was suspended; and outside
\* a shutdown a registered socket is open.
THEOREM SocketsHaveCustody == Spec => []Custody
<1>1. IInv => Custody
    BY DEF IInv, SInv
<1> QED
    BY <1>1, ListenerInvariant, PTL

\* Outside start and stop the reference count is the number of transports that hold
\* the listener, and a listener nobody refers to has neither acceptor nor registered
\* sockets; what is still open was claimed for a facade that had stopped, or was
\* disconnected before its run() had taken a step.
THEOREM ReleaseLeavesNothing == Spec => []ReleasedIsEmpty
<1>1. IInv => ReleasedIsEmpty
  <2> SUFFICES ASSUME IInv, LockFree PROVE
            /\ ref = Cardinality({u \in User : user[u] \in {"in", "stopping"}})
            /\ (ref = 0) <=> (acceptor = "none")
            /\ ref = 0 => pending = {} /\ admitting = {} /\ open \subseteq lost \cup strays
    BY DEF ReleasedIsEmpty
  <2>1. leave = "none" /\ Holders = {u \in User : user[u] \in {"in", "stopping"}}
    BY DEF IInv, LInv, OneInLock, LockFree, Holders
  <2>2. (ref = 0) <=> (Holders = {})
    BY FS_EmptySet DEF IInv, LInv, RefCounts
  <2>3. (ref = 0) <=> (acceptor = "none")
    BY <2>1, <2>2 DEF IInv, LInv, AcceptorServes
  <2> QED
    BY <2>1, <2>3 DEF IInv, LInv, RefCounts, ShutdownClears
<1> QED
    BY <1>1, ListenerInvariant, PTL

\* A session that reached a terminal state never looks live again.
THEOREM TerminalStatesStay == Spec => TerminalStays
<1>1. IInv /\ [Next]_vars => [TerminalKept]_vars
    BY TerminalStep DEF IInv
<1> QED
    BY <1>1, ListenerInvariant, PTL DEF Spec, TerminalStays, TerminalKept

\* A connection is never given a socket this side has already closed.
THEOREM RoutedSocketsAreOpen == Spec => RoutedIsOpen
<1>1. IInv /\ [Next]_vars => [RoutesOpen]_vars
    BY RouteOpenStep DEF IInv
<1> QED
    BY <1>1, ListenerInvariant, PTL DEF Spec, RoutedIsOpen, RoutesOpen

\* Once a sniff task has parked a socket at most _MAX_PARKED_SOCKETS are parked.
THEOREM ParkingMakesRoom == Spec => ParkMakesRoom
<1>1. IInv /\ [Next]_vars => [RoomMade]_vars
    BY RoomStep DEF IInv, SInv
<1> QED
    BY <1>1, ListenerInvariant, PTL DEF Spec, ParkMakesRoom, RoomMade
=============================================================================
