--------------------------- MODULE ListenerSockets ---------------------------
(***************************************************************************)
(* The shared TCP listener (collector/transport/listener.py) and its        *)
(* acceptor (collector/transport/tcp_acceptor.py): who holds an accepted    *)
(* socket, from admission to the last close.                                *)
(*                                                                         *)
(* A user is a transport facade that acquires the listener at start and     *)
(* releases it at stop, both under _LISTENERS_LOCK.  An accepted socket is   *)
(* admitted, registered in _pending_sockets with a sniff task, parked under  *)
(* a watch task, claimed by a route operation (one at a time, under          *)
(* _pending_route_lock) or routed by its own sniff task to a connection, and *)
(* closed.  Everything between two awaits is one action.                     *)
(*                                                                         *)
(* Two windows of the code are kept open here.  A facade that stops while    *)
(* its own pop is suspended has no listener left to activate the claimed     *)
(* socket with (lost); and the run() that an activation spawns takes its     *)
(* first step in a later turn of the loop, so that a disconnect in between   *)
(* finds no writer and closes nothing (starting, strays).                    *)
(*                                                                         *)
(* What bytes and identities decide -- which collector a socket belongs to,   *)
(* which sockets share an address with a leaving user -- is a free choice.    *)
(* Proxy reservations (exclusive routes) are left out.                       *)
(***************************************************************************)
EXTENDS Integers, FiniteSets

CONSTANTS
    User,           \* transports that share the listener
    Socket,         \* TCP connections that collectors open
    NoSocket,       \* "no socket"
    MaxAdmissions,  \* _MAX_ADMISSIONS
    MaxParked,      \* _MAX_PARKED_SOCKETS
    MaxWaiting      \* bound: facades suspended at _pending_route_lock

ASSUME ListenerAssumption ==
    /\ IsFiniteSet(Socket)
    /\ NoSocket \notin Socket
    /\ MaxAdmissions \in Nat \ {0}
    /\ MaxParked \in Nat \ {0}
    /\ MaxWaiting \in Nat

VARIABLES
    user,       \* user[u]: where transport u stands between start and stop
    ref,        \* _ref_count
    acceptor,   \* _server: none, open, or closing (sockets gone, draining)
    leave,      \* the step of the release in progress
    todo,       \* sockets of the snapshot the release still has to visit
    cur,        \* the socket whose task or writer the release is awaiting
    admitting,  \* sockets owned by an admission task
    pending,    \* _pending_sockets
    older,      \* <<s, t>>: s comes before t in _pending_sockets
    parked,     \* sockets with the parked flag
    task,       \* task[s]: the pending.sniff_task of s
    conn,       \* sockets given to a connection's run()
    starting,   \* those whose run() is spawned and has not taken its first step
    strays,     \* those whose connection left the indexes before that step
    state,      \* state[s]: the state in _session_inventory, by kind
    open,       \* sockets whose writer this side has not closed
    peerGone,   \* sockets closed by the collector
    op,         \* the operation that holds _pending_route_lock
    waiting,    \* facades with a call suspended at _pending_route_lock
    lost,       \* history: claimed for a facade that had stopped meanwhile
    abandoned   \* history: left without a watcher by a cancelled operation

userVars == <<user, ref, leave, todo, cur>>
pendingVars == <<pending, older, parked, task>>
connVars == <<conn, starting, strays, lost>>
routeVars == <<op, waiting>>
socketVars == <<admitting, connVars, state, open>>
vars == <<user, ref, acceptor, leave, todo, cur, admitting, pending, older,
          parked, task, conn, starting, strays, state, open, peerGone, op, waiting,
          lost, abandoned>>

NoOp == [kind |-> "none", step |-> "none", sock |-> NoSocket, todo |-> {}]
OpKind == {"take", "probe", "identify", "retire"}
Ops == {NoOp} \cup
       [kind : OpKind, step : {"next", "paused", "probing"}, user : User,
        sock : Socket \cup {NoSocket}, todo : SUBSET Socket]

Terminal == {"closed", "forgotten"}

\* A transport inside start() or stop() holds _LISTENERS_LOCK.
LockFree == \A u \in User : user[u] \notin {"binding", "leaving"}

\* From the moment the last release has closed the acceptor.
ShuttingDown == leave \in {"pending", "conns"}

-----------------------------------------------------------------------------
(* Bookkeeping shared by the operations *)

\* Variant: a late mark overwrites a terminal state.
MarkAlways(f, s, new) == [f EXCEPT ![s] = new]

\* _mark_session_state: a terminal state is never overwritten by a live one, and
\* nothing is recorded for a session the inventory no longer holds.
Mark(f, s, new) ==
    IF f[s] = "forgotten" \/ (f[s] = "closed" /\ new # "closed")
    THEN f
    ELSE [f EXCEPT ![s] = new]

\* Variant: the key goes, its place in the order of the others stays.
RemovedKeyOnly(S) == {p \in older : p[1] \notin S}

\* _remove_pending_socket, for a set of sockets
Removed(S) == {p \in older : p[1] \notin S /\ p[2] \notin S}

\* A dict assignment: a new key goes last, a present one keeps its place.
Inserted(rel, present, s) ==
    IF s \in present THEN rel ELSE rel \cup {<<t, s>> : t \in present}

\* Variant: stops one socket too early.
EvictsLate(s) ==
    LET others == (parked \cap pending) \ {s}
    IN  {v \in others : Cardinality({w \in others : <<v, w>> \in older}) >= MaxParked}

\* The sockets _evict_parked_sockets closes before s is parked: the oldest, until
\* fewer than MaxParked others remain.
Evicted(s) ==
    LET others == (parked \cap pending) \ {s}
    IN  {v \in others : Cardinality({w \in others : <<v, w>> \in older}) >= MaxParked - 1}

\* A socket that stays registered gets its watcher back: _resume_pending_watch.
ResumedTask(s) ==
    IF s \in pending /\ task[s] = "none" THEN [task EXCEPT ![s] = "watch"] ELSE task
ResumedParked(s) ==
    IF s \in pending /\ task[s] = "none" THEN parked \cup {s} ELSE parked

\* Variant: the socket is closed and stays registered.
ClosesInPlace(s) ==
    /\ task' = [task EXCEPT ![s] = "none"]
    /\ state' = Mark(state, s, "closed")
    /\ open' = open \ {s}
    /\ UNCHANGED <<pending, older, parked, abandoned>>

\* s leaves _pending_sockets and is closed with a terminal state.
CloseRegistered(s) ==
    /\ pending' = pending \ {s}
    /\ older' = Removed({s})
    /\ parked' = parked \ {s}
    /\ task' = [task EXCEPT ![s] = "none"]
    /\ state' = Mark(state, s, "closed")
    /\ open' = open \ {s}
    /\ abandoned' = abandoned \ {s}

\* s leaves _pending_sockets: _claim_pending_socket, or the end of a sniff.
Claimed(s) ==
    /\ pending' = pending \ {s}
    /\ older' = Removed({s})
    /\ parked' = parked \ {s}
    /\ task' = [task EXCEPT ![s] = "none"]
    /\ abandoned' = abandoned \ {s}

\* The caller gets the claimed socket back in the same step and reads its own
\* _listener again.  It is there: activate_pending_* indexes a connection and
\* spawns run().  It is not, since stop() ran while the pop was suspended: the
\* call ends with an AttributeError and the socket is nobody's.
Activated(u, s) ==
    IF user[u] = "in"
    THEN /\ conn' = conn \cup {s}
         /\ starting' = starting \cup {s}
         /\ state' = Mark(state, s, "routed")
         /\ UNCHANGED <<strays, lost>>
    ELSE /\ lost' = lost \cup {s}
         /\ state' = Mark(state, s, "live")
         /\ UNCHANGED <<conn, starting, strays>>

-----------------------------------------------------------------------------
(* CollectorTcpAcceptor *)

\* _accept_ready; a socket beyond the admission cap is closed at once.
Accept(s) ==
    /\ acceptor = "open"
    /\ state[s] = "none"
    /\ s \notin admitting
    /\ IF Cardinality(admitting) >= MaxAdmissions
       THEN /\ state' = [state EXCEPT ![s] = "forgotten"]
            /\ UNCHANGED <<admitting, open>>
       ELSE /\ admitting' = admitting \cup {s}
            /\ open' = open \cup {s}
            /\ UNCHANGED state
    /\ UNCHANGED <<userVars, acceptor, pendingVars, connVars, peerGone, routeVars, abandoned>>

\* _admit hands the stream to _handle_connection: inventory record, registration
\* and sniff task in one step.
Admit(s) ==
    /\ s \in admitting
    /\ acceptor = "open"
    /\ admitting' = admitting \ {s}
    /\ pending' = pending \cup {s}
    /\ older' = Inserted(older, pending, s)
    /\ task' = [task EXCEPT ![s] = "sniff"]
    /\ state' = [state EXCEPT ![s] = "live"]
    /\ UNCHANGED <<userVars, acceptor, parked, connVars, open, peerGone, routeVars, abandoned>>

\* An admission that fails, or that close() cancelled.
AdmitAborted(s) ==
    /\ s \in admitting
    /\ admitting' = admitting \ {s}
    /\ open' = open \ {s}
    /\ state' = [state EXCEPT ![s] = "forgotten"]
    /\ UNCHANGED <<userVars, acceptor, pendingVars, connVars, peerGone, routeVars, abandoned>>

\* An accept error other than resource exhaustion closes the acceptor; the
\* listener keeps it as its server.
AcceptFails ==
    /\ acceptor = "open"
    /\ acceptor' = "closing"
    /\ UNCHANGED <<userVars, pendingVars, socketVars, peerGone, routeVars, abandoned>>

-----------------------------------------------------------------------------
(* acquire *)

\* The reference is taken before the bind is awaited.
Acquire(u) ==
    /\ user[u] = "out"
    /\ LockFree
    /\ ref' = ref + 1
    /\ user' = [user EXCEPT ![u] = IF acceptor = "none" THEN "binding" ELSE "in"]
    /\ UNCHANGED <<leave, todo, cur, acceptor, pendingVars, socketVars, peerGone,
                   routeVars, abandoned>>

BindDone(u) ==
    /\ user[u] = "binding"
    /\ user' = [user EXCEPT ![u] = "in"]
    /\ acceptor' = "open"
    /\ UNCHANGED <<ref, leave, todo, cur, pendingVars, socketVars, peerGone, routeVars,
                   abandoned>>

\* OSError or cancellation in the middle of the bind.
BindFails(u) ==
    /\ user[u] = "binding"
    /\ user' = [user EXCEPT ![u] = "out"]
    /\ ref' = ref - 1
    /\ UNCHANGED <<leave, todo, cur, acceptor, pendingVars, socketVars, peerGone,
                   routeVars, abandoned>>

-----------------------------------------------------------------------------
(* _release_shared_listener *)

\* stop() forgets the listener first, and only then waits for _LISTENERS_LOCK: a
\* call of the same facade that is suspended inside the listener goes on.
Stop(u) ==
    /\ user[u] = "in"
    /\ user' = [user EXCEPT ![u] = "stopping"]
    /\ UNCHANGED <<ref, leave, todo, cur, acceptor, pendingVars, socketVars, peerGone,
                   routeVars, abandoned>>

\* release_collector_connections starts with a snapshot of the pending sockets that
\* share the leaving user's address: none when another owner still serves it.
Leave(u) ==
    /\ user[u] = "stopping"
    /\ LockFree
    /\ user' = [user EXCEPT ![u] = "leaving"]
    /\ leave' = "route"
    /\ todo' \in SUBSET pending
    /\ UNCHANGED <<ref, cur, acceptor, pendingVars, socketVars, peerGone, routeVars, abandoned>>

\* The next socket of the snapshot is unregistered, if it still is registered, and
\* its task cancelled.  The task may meanwhile have become a connection's run().
LeaveTakes(s) ==
    /\ leave = "route"
    /\ cur = NoSocket
    /\ s \in todo
    /\ todo' = todo \ {s}
    /\ cur' = s
    /\ pending' = pending \ {s}
    /\ older' = Removed({s})
    /\ parked' = parked \ {s}
    /\ task' = [task EXCEPT ![s] = "none"]
    /\ abandoned' = abandoned \ {s}
    /\ UNCHANGED <<user, ref, leave, acceptor, socketVars, peerGone, routeVars>>

\* Variant: the task is awaited without having been cancelled.
JoinsUncancelled ==
    /\ cur \in peerGone
    /\ cur' = NoSocket
    /\ state' = Mark(state, cur, "closed")
    /\ open' = open \ {cur}
    /\ UNCHANGED <<user, ref, leave, todo, acceptor, admitting, pendingVars, connVars,
                   peerGone, routeVars, abandoned>>

\* _close_pending_socket after the cancelled task has ended.
TaskJoined ==
    /\ cur # NoSocket
    /\ cur' = NoSocket
    /\ state' = Mark(state, cur, "closed")
    /\ open' = open \ {cur}
    /\ UNCHANGED <<user, ref, leave, todo, acceptor, admitting, pendingVars, connVars,
                   peerGone, routeVars, abandoned>>

\* _disconnect_matching_session_connections takes its own snapshot of the indexes.
LeaveSnapshot ==
    /\ leave = "route"
    /\ cur = NoSocket
    /\ todo = {}
    /\ leave' = "detach"
    /\ todo' \in SUBSET (conn \ strays)
    /\ UNCHANGED <<user, ref, cur, acceptor, pendingVars, socketVars, peerGone, routeVars,
                   abandoned>>

\* What disconnect() closes: the writer that run() has installed, before its first
\* await.  A connection whose run() has not begun has none.
Disconnected(s) == IF s \in starting THEN {} ELSE {s}

\* Each connection of the snapshot is disconnected and dropped from every index, and
\* its session marked if it was found by its id; the run() that served the socket
\* ends on its own, and one that has not begun will serve a socket that no index
\* leads to.
Disconnects(s) ==
    /\ leave \in {"detach", "conns"}
    /\ s \in todo
    /\ todo' = todo \ {s}
    /\ open' = open \ Disconnected(s)
    /\ strays' = strays \cup ({s} \cap starting)
    /\ state' \in {state, Mark(state, s, "closed")}
    /\ UNCHANGED <<user, ref, leave, cur, acceptor, admitting, pendingVars, conn,
                   starting, lost, peerGone, routeVars, abandoned>>

\* release: a user that is not the last one is out; the last one closes the
\* acceptor and waits for the admissions it still owns.
Unreference(u) ==
    /\ user[u] = "leaving"
    /\ leave = "detach"
    /\ todo = {}
    /\ ref' = ref - 1
    /\ IF ref = 1
       THEN /\ leave' = "drain"
            /\ acceptor' = "closing"
            /\ UNCHANGED user
       ELSE /\ leave' = "none"
            /\ user' = [user EXCEPT ![u] = "out"]
            /\ UNCHANGED acceptor
    /\ UNCHANGED <<todo, cur, pendingVars, socketVars, peerGone, routeVars, abandoned>>

\* Variant: the pending sockets are visited before admission has been joined.
DrainedEarly ==
    /\ leave = "drain"
    /\ acceptor' = "none"
    /\ leave' = "pending"
    /\ todo' = pending
    /\ UNCHANGED <<user, ref, cur, pendingVars, socketVars, peerGone, routeVars, abandoned>>

\* wait_closed returns once every admission is done.
Drained ==
    /\ leave = "drain"
    /\ admitting = {}
    /\ acceptor' = "none"
    /\ leave' = "pending"
    /\ todo' = pending
    /\ UNCHANGED <<user, ref, cur, pendingVars, socketVars, peerGone, routeVars, abandoned>>

\* The shutdown loop closes a pending socket and leaves it registered.
ShutTakes(s) ==
    /\ leave = "pending"
    /\ cur = NoSocket
    /\ s \in todo
    /\ todo' = todo \ {s}
    /\ cur' = s
    /\ task' = [task EXCEPT ![s] = "none"]
    /\ UNCHANGED <<user, ref, leave, acceptor, pending, older, parked, socketVars,
                   peerGone, routeVars, abandoned>>

\* _pending_sockets.clear(), then a snapshot of every indexed connection.
Cleared ==
    /\ leave = "pending"
    /\ cur = NoSocket
    /\ todo = {}
    /\ leave' = "conns"
    /\ todo' = conn \ strays
    /\ pending' = {}
    /\ older' = {}
    /\ parked' = {}
    /\ task' = [s \in Socket |-> "none"]
    /\ abandoned' = {}
    /\ UNCHANGED <<user, ref, cur, acceptor, socketVars, peerGone, routeVars>>

\* The inventory is cleared and _LISTENERS forgets the listener; a call that still
\* waits for its route lock will find nothing registered.
Released(u) ==
    /\ user[u] = "leaving"
    /\ leave = "conns"
    /\ todo = {}
    /\ leave' = "none"
    /\ user' = [user EXCEPT ![u] = "out"]
    /\ state' = [s \in Socket |-> IF state[s] = "none" THEN "none" ELSE "forgotten"]
    /\ waiting' = {}
    /\ UNCHANGED <<ref, todo, cur, acceptor, admitting, pendingVars, connVars, open,
                   peerGone, op, abandoned>>

-----------------------------------------------------------------------------
(* Sniff and watch tasks, connections, and the collectors *)

\* No usable bytes yet, or no owner: the socket is parked, in its place or at the
\* end of the dict, and the oldest parked ones make room.
Park(s) ==
    /\ task[s] = "sniff"
    /\ \E moved \in BOOLEAN :
         LET out  == Evicted(s)
             left == pending \ (out \cup IF moved THEN {s} ELSE {})
             rel  == Removed(out \cup IF moved THEN {s} ELSE {})
         IN  /\ pending' = left \cup {s}
             /\ older' = Inserted(rel, left, s)
             /\ parked' = (parked \ out) \cup {s}
             /\ task' = [t \in Socket |->
                           IF t = s THEN "watch"
                           ELSE IF t \in out THEN "none" ELSE task[t]]
             /\ state' = [t \in Socket |->
                           IF t \in out THEN Mark(state, t, "closed")[t]
                           ELSE IF t = s THEN Mark(state, t, "live")[t] ELSE state[t]]
             /\ open' = open \ out
             /\ abandoned' = abandoned \ out
    /\ UNCHANGED <<userVars, acceptor, admitting, connVars, peerGone, routeVars>>

\* The stream ended before it carried anything.
SniffEof(s) ==
    /\ task[s] = "sniff"
    /\ s \in peerGone
    /\ CloseRegistered(s)
    /\ UNCHANGED <<userVars, acceptor, admitting, connVars, peerGone, routeVars>>

\* An owner or a placeholder fits: the sniff task runs the connection itself, and
\* run() installs the writer in the same step.
SniffRoutes(s) ==
    /\ task[s] = "sniff"
    /\ Claimed(s)
    /\ conn' = conn \cup {s}
    /\ state' = Mark(state, s, "routed")
    /\ UNCHANGED <<userVars, acceptor, admitting, starting, strays, lost, open,
                   peerGone, routeVars>>

\* The watch has buffered enough to classify the stream: back to sniffing.
WatchData(s) ==
    /\ task[s] = "watch"
    /\ task' = [task EXCEPT ![s] = "sniff"]
    /\ parked' = parked \ {s}
    /\ UNCHANGED <<userVars, acceptor, pending, older, socketVars, peerGone, routeVars, abandoned>>

\* The watch saw the peer close, a read failure or the end of the TTL.
WatchEnds(s) ==
    /\ task[s] = "watch"
    /\ CloseRegistered(s)
    /\ UNCHANGED <<userVars, acceptor, admitting, connVars, peerGone, routeVars>>

\* The first step of a spawned run(), in a later turn of the loop.
RunStarts(s) ==
    /\ s \in starting
    /\ starting' = starting \ {s}
    /\ UNCHANGED <<userVars, acceptor, admitting, pendingVars, conn, strays, lost,
                   state, open, peerGone, routeVars, abandoned>>

\* run() ends with its reader; session_closed_callback marks the session.
RunEnds(s) ==
    /\ s \in conn \ starting
    /\ s \in peerGone \/ s \notin open
    /\ conn' = conn \ {s}
    /\ strays' = strays \ {s}
    /\ open' = open \ {s}
    /\ state' = Mark(state, s, "closed")
    /\ UNCHANGED <<userVars, acceptor, admitting, pendingVars, starting, lost,
                   peerGone, routeVars, abandoned>>

PeerCloses(s) ==
    /\ s \in open \ peerGone
    /\ peerGone' = peerGone \cup {s}
    /\ UNCHANGED <<userVars, acceptor, pendingVars, socketVars, routeVars, abandoned>>

-----------------------------------------------------------------------------
(* Operations under _pending_route_lock *)

\* A call of a facade that finds the lock taken waits for it, and may be cancelled,
\* or find nothing to claim, when it is served.
CallWaits(u) ==
    /\ user[u] = "in"
    /\ op # NoOp
    /\ Cardinality(waiting) < MaxWaiting
    /\ waiting' = waiting \cup {u}
    /\ UNCHANGED <<userVars, acceptor, pendingVars, socketVars, peerGone, op, abandoned>>

CallReturns(u) ==
    /\ u \in waiting
    /\ waiting' = waiting \ {u}
    /\ UNCHANGED <<userVars, acceptor, pendingVars, socketVars, peerGone, op, abandoned>>

\* u has _pending_route_lock: a call made while it is free, or one that waited for it
\* and goes on whether or not the facade has stopped since.
Enters(u) ==
    /\ op = NoOp
    /\ user[u] = "in" \/ u \in waiting
    /\ waiting' = waiting \ {u}

\* _pause_pending_sniff: the sniff task is cancelled and joined.
Paused(s) == task' = [task EXCEPT ![s] = "none"]

\* pop_pending_socket_for_route with a session id or an address,
\* async_identify_pending_session and async_retire_pending_session select one
\* registered socket and pause it.
Select(u, kind, s) ==
    /\ Enters(u)
    /\ s \in pending
    /\ op' = [kind |-> kind, step |-> "paused", user |-> u, sock |-> s, todo |-> {}]
    /\ Paused(s)
    /\ abandoned' = abandoned \ {s}
    /\ UNCHANGED <<userVars, acceptor, pending, older, parked, socketVars, peerGone>>

\* pop_pending_socket_for_route with a PN that exactly one socket has shown: the
\* socket is claimed without a pause.
TakeMatched(u, s) ==
    /\ Enters(u)
    /\ s \in pending
    /\ Claimed(s)
    /\ Activated(u, s)
    /\ UNCHANGED <<userVars, acceptor, admitting, open, peerGone, op>>

\* No socket has shown the PN: a snapshot of candidates is probed one by one.
ProbeStart(u) ==
    /\ Enters(u)
    /\ \E C \in SUBSET pending \ {{}} :
         op' = [kind |-> "probe", step |-> "next", user |-> u, sock |-> NoSocket,
                todo |-> C]
    /\ UNCHANGED <<userVars, acceptor, pendingVars, socketVars, peerGone, abandoned>>

\* A candidate that is gone, or known to be another collector, which stays watched.
ProbeSkips(s) ==
    /\ op.step = "next"
    /\ s \in op.todo
    /\ op' = [op EXCEPT !.todo = @ \ {s}]
    /\ task' = ResumedTask(s)
    /\ parked' = ResumedParked(s)
    /\ abandoned' = abandoned \ {s}
    /\ UNCHANGED <<userVars, waiting, acceptor, pending, older, socketVars, peerGone>>

ProbePauses(s) ==
    /\ op.step = "next"
    /\ s \in op.todo
    /\ s \in pending
    /\ op' = [op EXCEPT !.step = "paused", !.sock = s, !.todo = @ \ {s}]
    /\ Paused(s)
    /\ abandoned' = abandoned \ {s}
    /\ UNCHANGED <<userVars, waiting, acceptor, pending, older, parked, socketVars, peerGone>>

ProbeEnds ==
    /\ op.step = "next"
    /\ op.todo = {}
    /\ op' = NoOp
    /\ UNCHANGED <<userVars, waiting, acceptor, pendingVars, socketVars, peerGone, abandoned>>

\* The pause is over.  Still registered, the socket is probed (its reader belongs
\* to the operation while it awaits) or, for a take or retire, disposed of.
PauseOver ==
    /\ op.step = "paused"
    /\ op.kind \in {"probe", "identify"}
    /\ op' = IF op.sock \in pending THEN [op EXCEPT !.step = "probing"]
             ELSE IF op.kind = "probe" THEN [op EXCEPT !.step = "next", !.sock = NoSocket]
             ELSE NoOp
    /\ UNCHANGED <<userVars, waiting, acceptor, pendingVars, socketVars, peerGone, abandoned>>

\* Variant: the claim after the pause trusts the selection before it.
TakesBlindly ==
    /\ op.step = "paused"
    /\ op.kind = "take"
    /\ op' = NoOp
    /\ Claimed(op.sock)
    /\ Activated(op.user, op.sock)
    /\ UNCHANGED <<userVars, waiting, acceptor, admitting, open, peerGone>>

TakeDone ==
    /\ op.step = "paused"
    /\ op.kind = "take"
    /\ op' = NoOp
    /\ IF op.sock \in pending
       THEN Claimed(op.sock) /\ Activated(op.user, op.sock)
       ELSE UNCHANGED <<pendingVars, connVars, state, abandoned>>
    /\ UNCHANGED <<userVars, waiting, acceptor, admitting, open, peerGone>>

RetireDone ==
    /\ op.step = "paused"
    /\ op.kind = "retire"
    /\ op' = NoOp
    /\ IF op.sock \in pending
       THEN CloseRegistered(op.sock)
       ELSE UNCHANGED <<pendingVars, state, open, abandoned>>
    /\ UNCHANGED <<userVars, waiting, acceptor, admitting, connVars, peerGone>>

\* The probe answered with the wanted PN.
ProbeClaims ==
    /\ op.step = "probing"
    /\ op.kind = "probe"
    /\ op.sock \in pending
    /\ op' = NoOp
    /\ Claimed(op.sock)
    /\ Activated(op.user, op.sock)
    /\ UNCHANGED <<userVars, waiting, acceptor, admitting, open, peerGone>>

\* Variant: the socket is left without a watcher.
ProbeRefusedUnwatched ==
    /\ op.step = "probing"
    /\ op' = IF op.kind = "probe" THEN [op EXCEPT !.step = "next", !.sock = NoSocket]
             ELSE NoOp
    /\ state' = Mark(state, op.sock, "live")
    /\ UNCHANGED <<userVars, waiting, acceptor, pendingVars, admitting, connVars, open, peerGone,
                   abandoned>>

\* No answer, another PN, or the end of an identity query: the outcome is marked,
\* even if the socket went away meanwhile, and the watcher comes back.
ProbeRefused ==
    /\ op.step = "probing"
    /\ op' = IF op.kind = "probe" THEN [op EXCEPT !.step = "next", !.sock = NoSocket]
             ELSE NoOp
    /\ state' = Mark(state, op.sock, "live")
    /\ task' = ResumedTask(op.sock)
    /\ parked' = ResumedParked(op.sock)
    /\ UNCHANGED <<userVars, waiting, acceptor, pending, older, admitting, connVars, open, peerGone,
                   abandoned>>

\* The caller is cancelled during the pause or the probe.  The finally clause of
\* the identity query restores the watcher; the other operations have none.
Cancelled ==
    /\ op.sock # NoSocket
    /\ op' = NoOp
    /\ IF op.kind = "identify"
       THEN /\ state' = IF op.sock \in pending THEN Mark(state, op.sock, "live") ELSE state
            /\ task' = ResumedTask(op.sock)
            /\ parked' = ResumedParked(op.sock)
            /\ UNCHANGED abandoned
       ELSE /\ abandoned' = abandoned \cup ({op.sock} \cap pending)
            /\ UNCHANGED <<state, task, parked>>
    /\ UNCHANGED <<userVars, waiting, acceptor, pending, older, admitting, connVars, open, peerGone>>

-----------------------------------------------------------------------------
Init ==
    /\ user = [u \in User |-> "out"]
    /\ ref = 0
    /\ acceptor = "none"
    /\ leave = "none"
    /\ todo = {}
    /\ cur = NoSocket
    /\ admitting = {}
    /\ pending = {}
    /\ older = {}
    /\ parked = {}
    /\ task = [s \in Socket |-> "none"]
    /\ conn = {} /\ starting = {} /\ strays = {} /\ lost = {}
    /\ state = [s \in Socket |-> "none"]
    /\ open = {}
    /\ peerGone = {}
    /\ op = NoOp
    /\ waiting = {}
    /\ abandoned = {}

UserStep(u) ==
    \/ Acquire(u) \/ BindDone(u) \/ BindFails(u)
    \/ Stop(u) \/ Leave(u) \/ Unreference(u) \/ Released(u)
    \/ CallWaits(u) \/ CallReturns(u)

SocketStep(s) ==
    \/ Accept(s) \/ Admit(s) \/ AdmitAborted(s)
    \/ LeaveTakes(s) \/ Disconnects(s) \/ ShutTakes(s)
    \/ Park(s) \/ SniffEof(s) \/ SniffRoutes(s) \/ WatchData(s) \/ WatchEnds(s)
    \/ RunStarts(s) \/ RunEnds(s) \/ PeerCloses(s)

RouteStep ==
    \/ \E u \in User, s \in Socket :
         \/ \E k \in {"take", "identify", "retire"} : Select(u, k, s)
         \/ TakeMatched(u, s)
    \/ \E u \in User : ProbeStart(u)
    \/ \E s \in Socket : ProbeSkips(s) \/ ProbePauses(s)
    \/ ProbeEnds \/ PauseOver \/ TakeDone \/ RetireDone
    \/ ProbeClaims \/ ProbeRefused \/ Cancelled

ReleaseStep == TaskJoined \/ LeaveSnapshot \/ Drained \/ Cleared

Next ==
    \/ \E u \in User : UserStep(u)
    \/ \E s \in Socket : SocketStep(s)
    \/ RouteStep
    \/ ReleaseStep
    \/ AcceptFails

Spec == Init /\ [][Next]_vars

\* The steps a release takes by itself, and those of a route operation.
ReleaseProgress ==
    \/ ReleaseStep
    \/ \E u \in User : Unreference(u) \/ Released(u)
    \/ \E s \in Socket : LeaveTakes(s) \/ Disconnects(s) \/ ShutTakes(s)

RouteProgress ==
    \/ PauseOver \/ TakeDone \/ RetireDone \/ ProbeRefused \/ ProbeEnds
    \/ \E s \in Socket : ProbeSkips(s) \/ ProbePauses(s)

\* Every await of the release and of a route operation is bounded (joins of
\* cancelled tasks, _close_writer_bounded, probe timeouts), an ended stream wakes
\* its reader, and a task made ready runs in the next turn of the event loop: a
\* watcher that is re-armed again and again on an ended stream gets its first step
\* before the next poll of a transport can pause it.
Fairness ==
    /\ WF_vars(ReleaseProgress)
    /\ WF_vars(RouteProgress)
    /\ WF_vars(\E s \in Socket : AdmitAborted(s))
    /\ \A s \in Socket :
         /\ SF_vars(SniffEof(s))
         /\ SF_vars(WatchEnds(s) /\ s \in peerGone)

FairSpec == Spec /\ Fairness

-----------------------------------------------------------------------------
(* Properties *)

TypeOK ==
    /\ user \in [User -> {"out", "binding", "in", "stopping", "leaving"}]
    /\ ref \in Nat
    /\ acceptor \in {"none", "open", "closing"}
    /\ leave \in {"none", "route", "detach", "drain", "pending", "conns"}
    /\ todo \subseteq Socket
    /\ cur \in Socket \cup {NoSocket}
    /\ admitting \subseteq Socket
    /\ pending \subseteq Socket
    /\ older \subseteq pending \X pending
    /\ parked \subseteq pending
    /\ task \in [Socket -> {"none", "sniff", "watch"}]
    /\ conn \subseteq Socket
    /\ starting \subseteq conn
    /\ strays \subseteq conn
    /\ lost \subseteq Socket
    /\ state \in [Socket -> {"none", "live", "routed"} \cup Terminal]
    /\ open \subseteq Socket
    /\ peerGone \subseteq Socket
    /\ op \in Ops
    /\ waiting \subseteq User
    /\ abandoned \subseteq Socket

\* Every socket this side has not closed is in exactly one place: with its
\* admission task, in _pending_sockets, with a connection, or in the hands of the
\* release that is closing it; and outside a shutdown no registered socket is
\* closed.  This is what the membership re-checks after every await of the route
\* operations and the remove-before-close order are for.  The one way out is the
\* facade that stops while its pop is suspended: the socket it is then handed is
\* in no table.
Custody ==
    /\ open \subseteq admitting \cup pending \cup conn \cup {cur} \cup lost
    /\ admitting \cap (pending \cup conn \cup lost) = {}
    /\ pending \cap (conn \cup lost) = {}
    /\ conn \cap lost = {}
    /\ ~ShuttingDown => pending \subseteq open

\* When no transport is inside start or stop, the reference count is the number of
\* transports that hold the listener, and a listener nobody refers to has neither
\* acceptor nor registered sockets, and no open one but what the two windows let
\* through: handed to a facade that had stopped, or disconnected before its run()
\* began.  Not one of _release's snapshots missed a socket that an admission, a
\* sniff task or a route operation moved behind its back.
ReleasedIsEmpty ==
    LockFree =>
        /\ ref = Cardinality({u \in User : user[u] \in {"in", "stopping"}})
        /\ (ref = 0) <=> (acceptor = "none")
        /\ ref = 0 => pending = {} /\ admitting = {} /\ open \subseteq lost \cup strays

\* "the socket must stay WATCHED: an unwatched registered socket never notices a
\* peer close" (_sniff_pending_socket): outside a shutdown, and
\* unless a route operation is using its reader.
AlwaysWatched ==
    \A s \in pending : task[s] # "none" \/ op.sock = s \/ ShuttingDown

\* A session that reached a terminal state never looks live again, however late
\* the probe or route that marks it.
TerminalStays ==
    [][\A s \in Socket : state[s] \in Terminal => state'[s] \in Terminal]_vars

\* A connection is never given a socket this side has already closed: an eviction or
\* a release that comes while an operation awaits the pause or the probe wins.
RoutedIsOpen ==
    [][\A s \in conn' \ conn : s \in open \/ ShuttingDown]_vars

\* Parking a socket makes room first: whatever watches re-armed by route operations
\* added, at most _MAX_PARKED_SOCKETS are parked once a sniff task has parked one.
ParkMakesRoom ==
    [][\A s \in Socket : task[s] = "sniff" /\ task'[s] = "watch" =>
          Cardinality(parked') <= MaxParked]_vars

\* A collector that hangs up while its socket is registered is noticed: the socket
\* leaves _pending_sockets (or lost its watcher to a cancelled operation).
PeerCloseNoticed ==
    \A s \in Socket : s \in pending /\ s \in peerGone ~> s \notin pending \/ s \in abandoned

\* A transport whose release has _LISTENERS_LOCK gets out.
LeaveEnds == \A u \in User : user[u] = "leaving" ~> user[u] = "out"
=============================================================================
