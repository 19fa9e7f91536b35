------------------------- MODULE CollectorConnection -------------------------
(***************************************************************************)
(* One connection object of the callback transport                           *)
(* (collector/transport/connections.py) over its lifetime: the sockets the   *)
(* listener binds to it one after the other, the reader of each socket, the  *)
(* requests that callers queue on it, and the route releases that close it.   *)
(*                                                                         *)
(* _CollectorConnection and _CollectorAtConnection share this design; the     *)
(* model is their union.  A request is framed (answered by transaction id),   *)
(* AT (one slot, no id), raw (one slot, no id, after a UART bootstrap) or     *)
(* auxiliary (a claim of the socket's AuxiliaryReadSession).  The mutable     *)
(* fields of the object outlive a socket, so every operation that resumes     *)
(* after an await may find a successor's fields in place of its own.          *)
(*                                                                         *)
(* Frames are read in two steps, the first byte and the rest.  What a reply   *)
(* says is left out; which request it answers, and on which socket it came,   *)
(* is kept.  The collector answers a request at most once, when it likes.     *)
(***************************************************************************)
EXTENDS Integers, FiniteSets

CONSTANTS
    Socket,         \* accepted sockets
    Request,        \* calls of async_send_*, async_query and async_write
    Nobody,         \* "no socket", "no request"
    Kinds,          \* the kinds of request callers make
    Replacing,      \* whether run() is called on an object in use: "never" (the
                    \* listener's rule), "settled" (once every earlier call has
                    \* installed its socket) or "overlapping" (at any time)
    TidModulus,     \* TIDCounter wraps here (2^16 in the code)
    MaxHeartbeats,  \* bound on the heartbeats this side sends
    MaxReleases     \* bound on the route releases

ASSUME ConnectionAssumption ==
    /\ IsFiniteSet(Socket) /\ IsFiniteSet(Request)
    /\ Nobody \notin Socket \cup Request
    /\ Kinds \subseteq {"framed", "at", "raw", "aux"}
    /\ Replacing \in {"never", "settled", "overlapping"}
    /\ MaxHeartbeats \in Nat
    /\ MaxReleases \in Nat

\* A late reply names its request as long as the counter has not come round.
ASSUME TidAssumption ==
    /\ TidModulus \in Nat
    /\ TidModulus > Cardinality(Request) + MaxHeartbeats

VARIABLES
    run,        \* run[s]: where the run() of socket s stands
    runEpoch,   \* runEpoch[s]: the epoch that run captured
    epoch,      \* _run_epoch
    writer,     \* _writer
    aux,        \* the socket of _auxiliary_session
    open,       \* sockets whose writer this side has not closed
    retired,    \* sockets whose AuxiliaryReadSession is closed
    enabled,    \* sockets whose AuxiliaryReadSession is enabled
    claim,      \* claim[s]: the request that owns the next auxiliary reply
    reader,     \* reader[s]: the reader task of s and the frame it assembles
    index,      \* sockets whose session id maps to this object
    byIp,       \* _connections still maps an address to this object
    byPn,       \* _connections_by_pn still maps a PN to this object
    release,    \* the route release that awaits disconnect()
    req,        \* req[r]: the call r
    lock,       \* the holder of _request_lock
    tid,        \* _tid
    pending,    \* _pending: transaction id -> request
    atSlot,     \* _pending_at_response
    rawSlot,    \* _pending_raw_response
    booted,     \* _raw_passthrough_bootstrapped
    wire,       \* wire[s]: what the collector may still answer on s
    beats,      \* heartbeats sent
    releases,   \* releases begun
    named,      \* history: <<s, t>>: bytes of s were recorded as identity of t # s
    bootedOn    \* history: the socket whose bootstrap set the flag

runVars == <<run, runEpoch, epoch>>
routeVars == <<index, byIp, byPn>>
sessionVars == <<writer, aux, open, retired, enabled, claim, reader>>
slotVars == <<pending, atSlot, rawSlot>>
requestVars == <<req, lock, tid, booted, wire, bootedOn>>
vars == <<run, runEpoch, epoch, writer, aux, open, retired, enabled, claim,
          reader, index, byIp, byPn, release, req, lock, tid, pending, atSlot,
          rawSlot, booted, wire, beats, releases, named, bootedOn>>

Tid == 0 .. TidModulus - 1
NoFrame == [kind |-> "none", of |-> Nobody, tid |-> 0, owner |-> Nobody]
Frame == [kind : {"none", "heartbeat", "framed", "at", "raw", "aux"},
          of : Request \cup {Nobody}, tid : Tid, owner : Request \cup {Nobody}]
NoRequest == [at |-> "idle", kind |-> "none", sock |-> Nobody, epoch |-> 0,
              tid |-> 0, future |-> "none", answer |-> <<Nobody, Nobody>>]

\* The connected property: the writer is open and its reader has not ended.
Connected == writer # Nobody /\ writer \in open /\ reader[writer].at # "done"

\* Variant: the counter is not masked.
NextTidUnmasked == tid + 1

\* TIDCounter.next
NextTid == (tid + 1) % TidModulus

\* SocketSendOwner.check and SocketSendOwner.check_reply
OwnerCheck(r) ==
    /\ writer = req[r].sock
    /\ epoch = req[r].epoch
    /\ Connected
ReplyCheck(r) ==
    /\ epoch = req[r].epoch
    /\ writer \in {Nobody, req[r].sock}

-----------------------------------------------------------------------------
(* Tearing a session down *)

\* The futures a disconnect fails: those in a slot of the object, and the claim
\* of the auxiliary session.
Detached ==
    {r \in Request :
        /\ req[r].future = "pending"
        /\ \/ \E t \in Tid : pending[t] = r
           \/ atSlot = r
           \/ rawSlot = r
           \/ aux # Nobody /\ claim[aux] = r}

\* Variant: the AT waiter is left to its timeout.
DetachKeepsAt ==
    /\ req' = [r \in Request |->
                 IF r \in Detached /\ atSlot # r
                 THEN [req[r] EXCEPT !.future = "failed"] ELSE req[r]]
    /\ writer' = Nobody
    /\ retired' = IF aux = Nobody THEN retired ELSE retired \cup {aux}
    /\ open' = open \ {writer}
    /\ pending' = [t \in Tid |-> Nobody]
    /\ rawSlot' = Nobody
    /\ atSlot' = atSlot

\* _disconnect up to its first await: the session leaves the object, its futures
\* fail, its writer closes and its reader is cancelled (it ends in CancelLands).
Detach ==
    /\ req' = [r \in Request |->
                 IF r \in Detached THEN [req[r] EXCEPT !.future = "failed"] ELSE req[r]]
    /\ writer' = Nobody
    /\ retired' = IF aux = Nobody THEN retired ELSE retired \cup {aux}
    /\ open' = open \ {writer}
    /\ pending' = [t \in Tid |-> Nobody]
    /\ atSlot' = Nobody
    /\ rawSlot' = Nobody

-----------------------------------------------------------------------------
(* Binding sockets: the listener's routing *)

\* _connection_is_unbound_placeholder
UnboundPlaceholder == ~Connected /\ index = {}

\* The listener binds a socket to an object that is idle and unassigned; the class
\* itself also takes one while another session is up.
MayBind ==
    \/ Replacing = "never" /\ UnboundPlaceholder
    \/ Replacing = "settled" /\ \A t \in Socket : run[t] \notin {"bound", "replacing"}
    \/ Replacing = "overlapping"

\* A route key finds this object: socket s is bound to it, under an address or a
\* PN, and its run() is scheduled (activate_pending_connection, the end of
\* _sniff_pending_socket).
Bind(s) ==
    /\ run[s] = "unbound"
    /\ byIp \/ byPn
    /\ MayBind
    /\ run' = [run EXCEPT ![s] = "bound"]
    /\ index' = index \cup {s}
    /\ \/ byIp' = TRUE /\ byPn' = byPn
       \/ byPn' = TRUE /\ byIp' = byIp
    /\ UNCHANGED <<runEpoch, epoch, sessionVars, slotVars, requestVars, release,
                   beats, releases, named>>

\* The object is in use, so s gets a new one, which takes over the route key.
BindElsewhere(s) ==
    /\ run[s] = "unbound"
    /\ ~UnboundPlaceholder
    /\ run' = [run EXCEPT ![s] = "elsewhere"]
    /\ \/ byIp' = FALSE /\ byPn' = byPn
       \/ byPn' = FALSE /\ byIp' = byIp
    /\ UNCHANGED <<runEpoch, epoch, index, sessionVars, slotVars, requestVars,
                   release, beats, releases, named>>

-----------------------------------------------------------------------------
(* run(): one per socket *)

\* The fields of the object are given to socket s and its reader starts.
Install(s) ==
    /\ run' = [run EXCEPT ![s] = "reading"]
    /\ aux' = s
    /\ writer' = s
    /\ reader' = [reader EXCEPT ![s].at = "boundary"]
    /\ booted' = FALSE
    /\ UNCHANGED <<enabled, claim, routeVars, lock, tid, wire, bootedOn, release,
                   beats, releases, named>>

\* run() up to the await of its reader.  The epoch moves on first; a connected
\* predecessor is disconnected, and the fields are set when that has returned.
Run(s) ==
    /\ run[s] \in {"bound", "replacing"}
    /\ IF run[s] = "bound"
       THEN epoch' = epoch + 1 /\ runEpoch' = [runEpoch EXCEPT ![s] = epoch + 1]
       ELSE UNCHANGED <<epoch, runEpoch>>
    /\ IF run[s] = "bound" /\ Connected
       THEN /\ Detach
            /\ run' = [run EXCEPT ![s] = "replacing"]
            /\ UNCHANGED <<aux, enabled, claim, reader, routeVars, lock, tid,
                           booted, wire, bootedOn, release, beats, releases, named>>
       ELSE /\ Install(s)
            /\ UNCHANGED <<open, retired, req, slotVars>>

\* Variant: the index of the object, not of the session, is cleared at the end
\* of a run whatever became of it.
DropsAlways(s) == TRUE

\* A run may clear the object's indexes only while it is the latest.
StillCurrent(s) == epoch = runEpoch[s]

\* _drop_connection_indexes_for_connection
DropIndexes == index' = {} /\ byIp' = FALSE /\ byPn' = FALSE

\* The finally of run(): the session id is unindexed at once; the latest run
\* disconnects and, when nothing is left to await, drops the object's indexes.
RunWakes(s) ==
    /\ run[s] = "reading"
    /\ reader[s].at = "done"
    /\ IF epoch = runEpoch[s]
       THEN /\ Detach
            /\ IF writer = Nobody
               THEN run' = [run EXCEPT ![s] = "done"] /\ DropIndexes
               ELSE /\ run' = [run EXCEPT ![s] = "closing"]
                    /\ index' = index \ {s}
                    /\ UNCHANGED <<byIp, byPn>>
       ELSE /\ run' = [run EXCEPT ![s] = "done"]
            /\ index' = index \ {s}
            /\ UNCHANGED <<byIp, byPn, writer, open, retired, req, slotVars>>
    /\ UNCHANGED <<runEpoch, epoch, aux, enabled, claim, reader, lock, tid, booted,
                   wire, bootedOn, release, beats, releases, named>>

\* Variant: a run that was overtaken waits for its turn.
ClosesOnlyCurrent(s) ==
    /\ run[s] = "closing"
    /\ StillCurrent(s)
    /\ run' = [run EXCEPT ![s] = "done"]
    /\ DropIndexes
    /\ UNCHANGED <<runEpoch, epoch, sessionVars, slotVars, requestVars, release,
                   beats, releases, named>>

\* The bounded cleanup is over; a run that was overtaken meanwhile leaves the
\* indexes to its successor.
RunCloses(s) ==
    /\ run[s] = "closing"
    /\ run' = [run EXCEPT ![s] = "done"]
    /\ IF StillCurrent(s) THEN DropIndexes ELSE UNCHANGED routeVars
    /\ UNCHANGED <<runEpoch, epoch, sessionVars, slotVars, requestVars, release,
                   beats, releases, named>>

-----------------------------------------------------------------------------
(* Releasing the route: release_collector_connections *)

\* The session matches the route that is released: disconnect() is awaited, or
\* has nothing to do and the indexes go at once.
ReleaseSession ==
    /\ release = "none"
    /\ releases < MaxReleases
    /\ releases' = releases + 1
    /\ index # {}
    /\ Detach
    /\ IF writer = Nobody
       THEN DropIndexes /\ UNCHANGED release
       ELSE release' = "session" /\ UNCHANGED routeVars
    /\ UNCHANGED <<runVars, aux, enabled, claim, reader, lock, tid, booted, wire,
                   bootedOn, beats, named>>

\* Only a route key matches: the key goes first, the other indexes after
\* disconnect() (_disconnect_connection_keys).
ReleaseKeys ==
    /\ release = "none"
    /\ releases < MaxReleases
    /\ releases' = releases + 1
    /\ byIp
    /\ Detach
    /\ byIp' = FALSE
    /\ IF writer = Nobody
       THEN index' = {} /\ byPn' = FALSE /\ UNCHANGED release
       ELSE /\ release' = "keys"
            /\ UNCHANGED <<index, byPn>>
    /\ UNCHANGED <<runVars, aux, enabled, claim, reader, lock, tid, booted, wire,
                   bootedOn, beats, named>>

\* disconnect() returns (its joins are bounded, so the reader may still be there):
\* the object's indexes go.
ReleaseEnds ==
    /\ release # "none"
    /\ release' = "none"
    /\ index' = {}
    /\ byPn' = FALSE
    /\ byIp' = (release = "keys" /\ byIp)
    /\ UNCHANGED <<runVars, sessionVars, slotVars, requestVars, beats, releases, named>>

-----------------------------------------------------------------------------
(* Requests.  Each awaits the request lock, then the write lock, then its     *)
(* reply; the fields it captured at the start say whose socket it is for.      *)

\* SocketSendOwner.capture, before the first await
Capture(r, k) ==
    /\ req[r].at = "idle"
    /\ Connected
    /\ req' = [req EXCEPT ![r] = [NoRequest EXCEPT !.at = "queued", !.kind = k,
                                                   !.sock = writer, !.epoch = epoch]]
    /\ UNCHANGED <<runVars, routeVars, sessionVars, slotVars, release, lock, tid,
                   booted, wire, bootedOn, beats, releases, named>>

\* Variant: a failed request keeps the lock.
EndKeepsLock(r, outcome) ==
    /\ req' = [req EXCEPT ![r].at = outcome, ![r].future = "none"]
    /\ lock' = IF lock = r /\ outcome = "ok" THEN Nobody ELSE lock
    /\ pending' = [t \in Tid |-> IF pending[t] = r THEN Nobody ELSE pending[t]]
    /\ atSlot' = IF atSlot = r THEN Nobody ELSE atSlot
    /\ rawSlot' = IF rawSlot = r THEN Nobody ELSE rawSlot
    /\ claim' = [s \in Socket |-> IF claim[s] = r THEN Nobody ELSE claim[s]]

\* The finally of a request: it leaves its slot and the lock.
EndRequest(r, outcome) ==
    /\ req' = [req EXCEPT ![r] =
                 IF outcome = "ok" THEN [@ EXCEPT !.at = "ok", !.tid = 0, !.future = "none"]
                                   ELSE [NoRequest EXCEPT !.at = "error"]]
    /\ lock' = IF lock = r THEN Nobody ELSE lock
    /\ pending' = [t \in Tid |-> IF pending[t] = r THEN Nobody ELSE pending[t]]
    /\ atSlot' = IF atSlot = r THEN Nobody ELSE atSlot
    /\ rawSlot' = IF rawSlot = r THEN Nobody ELSE rawSlot
    /\ claim' = [s \in Socket |-> IF claim[s] = r THEN Nobody ELSE claim[s]]

\* What r puts on its socket, and the collector may answer
Written(r, k) ==
    [wire EXCEPT ![req[r].sock] =
        @ \cup {[NoFrame EXCEPT !.kind = k, !.of = r, !.tid = req'[r].tid]}]

\* The lock is free but the session is not the captured one, or (raw) is in
\* auxiliary use, or (aux) is closed, busy with a frame, or claimed.
Refused(r) ==
    LET s == req[r].sock
    IN  IF req[r].kind = "aux"
        THEN \/ s \in retired \/ s \notin open
             \/ reader[s].at # "boundary"
             \/ claim[s] # Nobody
        ELSE ~OwnerCheck(r) \/ (req[r].kind = "raw" /\ aux \in enabled)

\* The request lock is acquired and the session is gone: the call fails.
Refuse(r) ==
    /\ req[r].at = "queued"
    /\ lock = Nobody
    /\ Refused(r)
    /\ EndRequest(r, "error")
    /\ UNCHANGED <<runVars, routeVars, writer, aux, open, retired, enabled, reader,
                   release, tid, booted, wire, bootedOn, beats, releases, named>>

\* async_send_collector under the lock: a transaction id and its future
AdmitFramed(r) ==
    /\ req[r].kind = "framed"
    /\ tid' = NextTid
    /\ req' = [req EXCEPT ![r].at = "held", ![r].tid = tid', ![r].future = "pending"]
    /\ pending' = [pending EXCEPT ![tid'] = r]
    /\ UNCHANGED <<atSlot, rawSlot, enabled, wire>>

\* async_query, async_write: the AT slot
AdmitAt(r) ==
    /\ req[r].kind = "at"
    /\ req' = [req EXCEPT ![r].at = "held", ![r].future = "pending"]
    /\ atSlot' = r
    /\ UNCHANGED <<tid, pending, rawSlot, enabled, wire>>

\* async_send_raw_payload: the raw slot, or first the query of the UART mode (the
\* bootstrap "none" has no exchange to be overtaken in, and is left out)
AdmitRaw(r) ==
    /\ req[r].kind = "raw"
    /\ IF booted
       THEN /\ req' = [req EXCEPT ![r].at = "held", ![r].future = "pending"]
            /\ rawSlot' = r
            /\ UNCHANGED <<atSlot, wire>>
       ELSE /\ req' = [req EXCEPT ![r].at = "boot", ![r].future = "pending"]
            /\ atSlot' = r
            /\ wire' = Written(r, "at")
            /\ UNCHANGED rawSlot
    /\ UNCHANGED <<tid, pending, enabled>>

\* AuxiliaryReadSession.send: the socket takes the mixed grammar from here on;
\* the claim comes with the write.
AdmitAux(r) ==
    /\ req[r].kind = "aux"
    /\ req' = [req EXCEPT ![r].at = "held"]
    /\ enabled' = enabled \cup {req[r].sock}
    /\ UNCHANGED <<tid, slotVars, wire>>

Admit(r) ==
    /\ req[r].at = "queued"
    /\ lock = Nobody
    /\ ~Refused(r)
    /\ lock' = r
    /\ \/ AdmitFramed(r)
       \/ AdmitAt(r)
       \/ AdmitRaw(r)
       \/ AdmitAux(r)
    /\ UNCHANGED <<runVars, routeVars, writer, aux, open, retired, claim, reader,
                   release, booted, bootedOn, beats, releases, named>>

\* The UART mode was read and is now written back: the second exchange of
\* _async_bootstrap_raw_passthrough_locked.
BootAgain(r) ==
    /\ req[r].at = "boot"
    /\ req[r].future = "set"
    /\ OwnerCheck(r)
    /\ req' = [req EXCEPT ![r].at = "boot2", ![r].future = "pending"]
    /\ atSlot' = r
    /\ wire' = Written(r, "at")
    /\ UNCHANGED <<runVars, routeVars, sessionVars, release, lock, tid, pending,
                   rawSlot, booted, bootedOn, beats, releases, named>>

\* Variant: the result of the bootstrap is recorded unchecked.
BootUnchecked(r) == TRUE

\* The owner.check at the end of the bootstrap
BootChecked(r) == OwnerCheck(r)

\* The bootstrap is over, answered, refused or timed out: the session counts as
\* bootstrapped if it is still the captured one, and the payload is next.
BootEnds(r) ==
    /\ req[r].at \in {"boot", "boot2"}
    /\ BootChecked(r)
    /\ booted' = TRUE
    /\ bootedOn' = req[r].sock
    /\ req' = [req EXCEPT ![r].at = "held", ![r].future = "pending"]
    /\ atSlot' = IF atSlot = r THEN Nobody ELSE atSlot
    /\ rawSlot' = r
    /\ UNCHANGED <<runVars, routeVars, sessionVars, release, lock, tid, pending,
                   wire, beats, releases, named>>

\* The checks under the write lock: _async_write, or those of the auxiliary send
MayWrite(r) ==
    IF req[r].kind = "aux"
    THEN LET s == req[r].sock
         IN  s \notin retired /\ s \in open /\ reader[s].at = "boundary"
    ELSE OwnerCheck(r)

\* The bytes go out; an auxiliary request claims the next auxiliary frame.
Write(r) ==
    /\ req[r].at = "held"
    /\ MayWrite(r)
    /\ IF req[r].kind = "aux"
       THEN /\ req' = [req EXCEPT ![r].at = "sent", ![r].future = "pending"]
            /\ claim' = [claim EXCEPT ![req[r].sock] = r]
       ELSE /\ req' = [req EXCEPT ![r].at = "sent"]
            /\ UNCHANGED claim
    /\ wire' = Written(r, req[r].kind)
    /\ UNCHANGED <<runVars, routeVars, writer, aux, open, retired, enabled, reader,
                   slotVars, release, lock, tid, booted, bootedOn, beats, releases,
                   named>>

\* The reply is in: it counts unless a successor has taken the object.
Finish(r) ==
    /\ req[r].at = "sent"
    /\ req[r].future = "set"
    /\ EndRequest(r, IF ReplyCheck(r) THEN "ok" ELSE "error")
    /\ UNCHANGED <<runVars, routeVars, writer, aux, open, retired, enabled, reader,
                   release, tid, booted, wire, bootedOn, beats, releases, named>>

\* Variant: an interrupted auxiliary exchange leaves the stream alone.
NoFence(r) == {}

\* The socket an interrupted auxiliary exchange closes: its reply, without an id,
\* would be taken for that of the next one.
Fenced(r) == IF req[r].kind = "aux" /\ req[r].at = "sent" THEN {req[r].sock} ELSE {}

\* A request fails: its future did, its reply or its drain timed out, its socket
\* was gone at the write, or its caller was cancelled (in the queue too).
Fail(r) ==
    /\ req[r].at \in {"queued", "boot", "boot2", "held", "sent"}
    /\ EndRequest(r, "error")
    /\ retired' = retired \cup Fenced(r)
    /\ open' = open \ Fenced(r)
    /\ UNCHANGED <<runVars, routeVars, writer, aux, enabled, reader, release, tid,
                   booted, wire, bootedOn, beats, releases, named>>

\* The heartbeat task takes a transaction id of the same counter.
Heartbeat ==
    /\ Connected
    /\ beats < MaxHeartbeats
    /\ beats' = beats + 1
    /\ tid' = NextTid
    /\ UNCHANGED <<runVars, routeVars, sessionVars, slotVars, release, req, lock,
                   booted, wire, bootedOn, releases, named>>

-----------------------------------------------------------------------------
(* The reader of a socket *)

\* Variant: cancellation alone is trusted to stop a reader.
Unguarded(s) == TRUE

\* Variant: the rest of an AT line is awaited outside the guard.
AtLineUnguarded(s) == s \notin retired \/ reader[s].frame.kind = "at"

\* AuxiliaryReadSession.read: what a reader obtains after its session was retired
\* is discarded.
ReadGuard(s) == s \notin retired

\* The first byte of a reply, or of a heartbeat of the collector's own under any
\* transaction id.  The auxiliary claim is captured now.
FirstByte(s) ==
    /\ reader[s].at = "boundary"
    /\ ReadGuard(s)
    /\ \/ \E m \in wire[s] :
            /\ reader' = [reader EXCEPT ![s] = [at |-> "frame",
                                                frame |-> [m EXCEPT !.owner = claim[s]]]]
            /\ wire' = [wire EXCEPT ![s] = @ \ {m}]
       \/ \E t \in Tid :
            /\ reader' = [reader EXCEPT ![s] = [at |-> "frame",
                              frame |-> [NoFrame EXCEPT !.kind = "heartbeat", !.tid = t]]]
            /\ UNCHANGED wire
    /\ UNCHANGED <<runVars, routeVars, writer, aux, open, retired, enabled, claim,
                   slotVars, release, req, lock, tid, booted, bootedOn, beats,
                   releases, named>>

\* The request whose future frame m completes: by id and function code, by slot,
\* or by the claim that was there at the first byte and still is.
Taker(s, m) ==
    CASE m.kind = "framed" -> pending[m.tid]
      [] m.kind = "heartbeat" -> Nobody
      [] m.kind = "at" -> atSlot
      [] m.kind = "raw" -> rawSlot
      [] OTHER -> IF claim[s] = m.owner THEN m.owner ELSE Nobody

\* The rest of the frame: it completes a waiting request or is dropped; an
\* auxiliary reply nobody owns ends the session; a heartbeat names the collector
\* of the object's current session.  (An FC2 or DTUPN reply names it as well, behind
\* the same guard of the reader.)
FrameEnds(s) ==
    /\ reader[s].at = "frame"
    /\ ReadGuard(s)
    /\ LET m == reader[s].frame
           r == Taker(s, m)
           taken == r # Nobody /\ req[r].future = "pending"
       IN  /\ req' = IF taken
                     THEN [req EXCEPT ![r].future = "set", ![r].answer = <<m.of, s>>]
                     ELSE req
           /\ reader' = [reader EXCEPT ![s] =
                            [at |-> IF m.kind = "aux" /\ ~taken THEN "done" ELSE "boundary",
                             frame |-> NoFrame]]
           /\ named' = IF m.kind = "heartbeat" /\ writer \notin {Nobody, s}
                       THEN named \cup {<<s, writer>>} ELSE named
    /\ UNCHANGED <<runVars, routeVars, writer, aux, open, retired, enabled, claim,
                   slotVars, release, lock, tid, booted, wire, bootedOn, beats,
                   releases>>

\* The task ends and what the collector still had to say on s is lost.
ReaderDone(s) ==
    /\ reader[s].at \in {"boundary", "frame"}
    /\ reader' = [reader EXCEPT ![s] = [at |-> "done", frame |-> NoFrame]]
    /\ wire' = [wire EXCEPT ![s] = {}]
    /\ UNCHANGED <<runVars, routeVars, writer, aux, open, retired, enabled, claim,
                   slotVars, release, req, lock, tid, booted, bootedOn, beats,
                   releases, named>>

\* End of stream, a reset, or a frame the reader gives up on
ReaderStops(s) == s \notin retired /\ ReaderDone(s)

\* The cancellation of a retired session's reader arrives.
CancelLands(s) == s \in retired /\ ReaderDone(s)

-----------------------------------------------------------------------------
Init ==
    /\ run = [s \in Socket |-> "unbound"]
    /\ runEpoch = [s \in Socket |-> 0]
    /\ epoch = 0
    /\ writer = Nobody
    /\ aux = Nobody
    /\ open = Socket
    /\ retired = {}
    /\ enabled = {}
    /\ claim = [s \in Socket |-> Nobody]
    /\ reader = [s \in Socket |-> [at |-> "none", frame |-> NoFrame]]
    /\ index = {}
    /\ byIp \in BOOLEAN
    /\ byPn = ~byIp
    /\ release = "none"
    /\ req = [r \in Request |-> NoRequest]
    /\ lock = Nobody
    /\ tid \in {0, TidModulus - 1}   \* new, or about to come round
    /\ pending = [t \in Tid |-> Nobody]
    /\ atSlot = Nobody
    /\ rawSlot = Nobody
    /\ booted = FALSE
    /\ wire = [s \in Socket |-> {}]
    /\ beats = 0
    /\ releases = 0
    /\ named = {}
    /\ bootedOn = Nobody

SocketNext(s) ==
    \/ Bind(s)
    \/ BindElsewhere(s)
    \/ Run(s)
    \/ RunWakes(s)
    \/ RunCloses(s)
    \/ FirstByte(s)
    \/ FrameEnds(s)
    \/ ReaderStops(s)
    \/ CancelLands(s)

RequestNext(r) ==
    \/ \E k \in Kinds : Capture(r, k)
    \/ Refuse(r)
    \/ Admit(r)
    \/ BootAgain(r)
    \/ BootEnds(r)
    \/ Write(r)
    \/ Finish(r)
    \/ Fail(r)

Next ==
    \/ \E s \in Socket : SocketNext(s)
    \/ \E r \in Request : RequestNext(r)
    \/ ReleaseSession
    \/ ReleaseKeys
    \/ ReleaseEnds
    \/ Heartbeat

Spec == Init /\ [][Next]_vars

\* What the event loop and the bounded waits of the code guarantee: a scheduled
\* run starts, a cancellation lands, a cleanup returns, and a request, which has
\* a timeout at every wait, ends.  Nothing is assumed of the collector.
Fairness ==
    /\ \A s \in Socket :
         /\ WF_vars(Run(s)) /\ WF_vars(RunWakes(s)) /\ WF_vars(RunCloses(s))
         /\ WF_vars(CancelLands(s))
    /\ \A r \in Request :
         /\ WF_vars(Refuse(r) \/ Admit(r))
         /\ WF_vars(BootEnds(r) \/ Write(r) \/ Finish(r)
                       \/ (req[r].at # "queued" /\ Fail(r)))
    /\ WF_vars(ReleaseEnds)

FairSpec == Spec /\ Fairness

-----------------------------------------------------------------------------
(* Properties *)

RunState == {"unbound", "elsewhere", "bound", "replacing", "reading", "closing", "done"}
RequestState == {"idle", "queued", "boot", "boot2", "held", "sent", "ok", "error"}
RequestRecord ==
    [at : RequestState, kind : Kinds \cup {"none"}, sock : Socket \cup {Nobody},
     epoch : Nat, tid : Tid, future : {"none", "pending", "set", "failed"},
     answer : (Request \cup {Nobody}) \X (Socket \cup {Nobody})]

RunsOK ==
    /\ run \in [Socket -> RunState]
    /\ runEpoch \in [Socket -> Nat]
    /\ epoch \in Nat
    /\ index \subseteq Socket
    /\ byIp \in BOOLEAN /\ byPn \in BOOLEAN
    /\ release \in {"none", "session", "keys"}
    /\ releases \in 0 .. MaxReleases
SessionsOK ==
    /\ writer \in Socket \cup {Nobody}
    /\ aux \in Socket \cup {Nobody}
    /\ open \subseteq Socket
    /\ retired \subseteq Socket
    /\ enabled \subseteq Socket
    /\ claim \in [Socket -> Request \cup {Nobody}]
    /\ booted \in BOOLEAN
    /\ bootedOn \in Socket \cup {Nobody}
    /\ named \subseteq Socket \X Socket
FramesOK ==
    /\ reader \in [Socket -> [at : {"none", "boundary", "frame", "done"}, frame : Frame]]
    /\ wire \in [Socket -> SUBSET Frame]
RequestsOK ==
    /\ req \in [Request -> RequestRecord]
    /\ lock \in Request \cup {Nobody}
    /\ tid \in Tid
    /\ pending \in [Tid -> Request \cup {Nobody}]
    /\ atSlot \in Request \cup {Nobody}
    /\ rawSlot \in Request \cup {Nobody}
    /\ beats \in 0 .. MaxHeartbeats

\* The fields of the connection object, the sockets and the requests have their
\* types.
TypeOK == RunsOK /\ SessionsOK /\ FramesOK /\ RequestsOK

Live(s) == run[s] = "reading" /\ writer = s /\ Connected

\* The run of an earlier socket, however late it ends, never takes a live
\* session's writer or index entry away; only a newer run and a release of the
\* route do.
OnlyOwnTeardown ==
    [][\A s \in Socket :
         (Live(s) /\ epoch' = epoch /\ releases' = releases /\ release' = release) =>
            /\ writer' = s
            /\ s \in index => s \in index']_vars

\* A reply completes the request it answers: by transaction id, and, for the
\* auxiliary reads that have none, because an interrupted exchange closes its socket.
ReplyIsOwn ==
    \A r \in Request :
        (req[r].at = "ok" /\ req[r].kind \in {"framed", "aux"}) => req[r].answer[1] = r

\* Whatever its kind, a request never succeeds with bytes of a socket other than
\* the one it was captured for: nothing migrates to a successor, and nothing
\* late of a predecessor arrives.
ReplyOnOwnSocket ==
    \A r \in Request : req[r].at = "ok" => req[r].answer[2] = req[r].sock

\* No caller waits on a session that is gone: an unresolved future belongs to the
\* object's current socket, so the next disconnect fails it.
NoOrphanedWait ==
    \A r \in Request : req[r].future = "pending" => req[r].sock = writer

\* A heartbeat names only the session it arrived on, even when its reader
\* outlives the session.
NamesOwnSession == named = {}

\* The raw route counts as bootstrapped only after an exchange on this socket.
BootstrapIsFresh == booted => bootedOn = aux

\* Every request ends, behind whatever others hold the lock and whatever happens
\* to its socket.
RequestEnds ==
    \A r \in Request : req[r].at = "queued" ~> req[r].at \in {"ok", "error"}

\* A socket whose reader has ended leaves the listener's index for good.
SessionRetires ==
    \A s \in Socket : reader[s].at = "done" ~> [](run[s] = "done" /\ s \notin index)

=============================================================================
