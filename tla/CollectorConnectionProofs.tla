---------------------- MODULE CollectorConnectionProofs ----------------------
(***************************************************************************)
(* Proofs about CollectorConnection, for every set of sockets and requests.   *)
(*                                                                         *)
(* BaseInv holds however run() is called: a call under way has the lock and    *)
(* its place (RequestsAimed, SlotsOwned, PendingInSlot), a socket that was not *)
(* installed is untouched and its reader lives within its run (SessionInv), an *)
(* id in use was taken within the last TidModulus ids (TidsFresh), and on a    *)
(* stream that is not fenced the one auxiliary reply under way is the          *)
(* claimant's (AuxFenced).                                                    *)
(*                                                                         *)
(* OrderInv needs that a run starts after every earlier one has installed its  *)
(* socket (Orderly): the writer is then the socket of the run with the current *)
(* epoch, and a reader that is neither retired nor ended reads for it.  Under   *)
(* the listener's own rule (Listener) it also has RouteInv.                    *)
(***************************************************************************)
EXTENDS CollectorConnection, FiniteSetTheorems, TLAPS

USE ConnectionAssumption DEF runVars, routeVars, sessionVars, slotVars, requestVars

-----------------------------------------------------------------------------
(* The operators of the model: types, and what they do to a call *)

\* The counter is not empty, so that 0 and its last value are ids.
LEMMA TidType == TidModulus \in Nat \ {0} /\ 0 \in Tid /\ TidModulus - 1 \in Tid
    BY TidAssumption, FS_CardinalityType DEF Tid

\* TIDCounter.next adds one and comes round at the modulus.
LEMMA NextTidIs ==
    ASSUME tid \in Tid
    PROVE  NextTid = IF tid = TidModulus - 1 THEN 0 ELSE tid + 1
    BY TidType DEF Tid, NextTid

\* The next id is an id.
LEMMA NextTidType == ASSUME tid \in Tid PROVE NextTid \in Tid
    BY NextTidIs, TidType DEF Tid

\* A call that has not begun is a call record.
LEMMA NoRequestType == NoRequest \in RequestRecord
    BY TidType DEF NoRequest, RequestRecord, RequestState

\* The absent frame is a frame record.
LEMMA NoFrameType == NoFrame \in Frame
    BY TidType DEF NoFrame, Frame

\* The states of a future
Futures == {"none", "pending", "set", "failed"}

\* A step leaves every call but r alone.
Others(r) == \A x \in Request : x # r => req'[x] = req[x]

\* A step of r leaves what it captured, and its answer, alone.
Kept(r) ==
    /\ req'[r].kind = req[r].kind /\ req'[r].sock = req[r].sock
    /\ req'[r].epoch = req[r].epoch /\ req'[r].answer = req[r].answer

\* An answer, or the lack of one, leaves the rest of call r alone.
SameCall(r) ==
    /\ req'[r].at = req[r].at /\ req'[r].kind = req[r].kind
    /\ req'[r].sock = req[r].sock /\ req'[r].epoch = req[r].epoch
    /\ req'[r].tid = req[r].tid

\* A call record keeps its type when a field gets a value of its type.
LEMMA SetField ==
    ASSUME NEW q \in RequestRecord
    PROVE  /\ \A a \in RequestState : [q EXCEPT !.at = a] \in RequestRecord
           /\ \A t \in Tid : [q EXCEPT !.tid = t] \in RequestRecord
           /\ \A f \in Futures : [q EXCEPT !.future = f] \in RequestRecord
           /\ \A w \in (Request \cup {Nobody}) \X (Socket \cup {Nobody}) :
                [q EXCEPT !.answer = w] \in RequestRecord
<1>1. \A a \in RequestState : [q EXCEPT !.at = a] \in RequestRecord
    BY DEF RequestRecord
<1>2. \A t \in Tid : [q EXCEPT !.tid = t] \in RequestRecord
    BY DEF RequestRecord
<1>3. \A f \in Futures : [q EXCEPT !.future = f] \in RequestRecord
    BY DEF RequestRecord, Futures
<1>4. \A w \in (Request \cup {Nobody}) \X (Socket \cup {Nobody}) :
        [q EXCEPT !.answer = w] \in RequestRecord
    BY DEF RequestRecord
<1> QED
    BY <1>1, <1>2, <1>3, <1>4

\* Storing record q for call r changes nothing else.
LEMMA StoresCall ==
    ASSUME req \in [Request -> RequestRecord], NEW r \in Request, NEW q \in RequestRecord,
           req' = [req EXCEPT ![r] = q]
    PROVE  req' \in [Request -> RequestRecord] /\ Others(r) /\ req'[r] = q
    BY DEF Others

\* Moving call r on changes its place and nothing else.
LEMMA SetAt ==
    ASSUME req \in [Request -> RequestRecord], NEW r \in Request, NEW a \in RequestState,
           req' = [req EXCEPT ![r].at = a]
    PROVE  /\ req' \in [Request -> RequestRecord]
           /\ Others(r)
           /\ req'[r].at = a /\ req'[r].tid = req[r].tid /\ req'[r].future = req[r].future
           /\ Kept(r)
<1>1. req'[r] = [req[r] EXCEPT !.at = a]
    OBVIOUS
<1>2. req'[r] \in RequestRecord
    BY <1>1, SetField
<1> QED
    BY <1>1, <1>2 DEF RequestRecord, Others, Kept

\* The same, with a new future.
LEMMA SetAtFuture ==
    ASSUME req \in [Request -> RequestRecord], NEW r \in Request, NEW a \in RequestState,
           NEW f \in Futures,
           req' = [req EXCEPT ![r].at = a, ![r].future = f]
    PROVE  /\ req' \in [Request -> RequestRecord]
           /\ Others(r)
           /\ req'[r].at = a /\ req'[r].tid = req[r].tid /\ req'[r].future = f
           /\ Kept(r)
<1> DEFINE p == [req[r] EXCEPT !.at = a]
           q == [p EXCEPT !.future = f]
<1>1. req' = [req EXCEPT ![r] = q]
    OBVIOUS
<1>2. p \in RequestRecord
    BY SetField
<1>3. /\ p.at = a /\ p.kind = req[r].kind /\ p.sock = req[r].sock
      /\ p.epoch = req[r].epoch /\ p.tid = req[r].tid
      /\ p.future = req[r].future /\ p.answer = req[r].answer
    BY DEF RequestRecord
<1> HIDE DEF p
<1>4. q \in RequestRecord
    BY <1>2, SetField
<1>5. /\ q.at = p.at /\ q.kind = p.kind /\ q.sock = p.sock
      /\ q.epoch = p.epoch /\ q.tid = p.tid
      /\ q.future = f /\ q.answer = p.answer
    BY <1>2 DEF RequestRecord
<1> HIDE DEF q
<1>6. req' \in [Request -> RequestRecord] /\ Others(r) /\ req'[r] = q
    BY <1>1, <1>4, StoresCall
<1> QED
    BY <1>3, <1>5, <1>6 DEF Kept, SameCall

\* The same, with a new transaction id and future.
LEMMA SetAtTidFuture ==
    ASSUME req \in [Request -> RequestRecord], NEW r \in Request, NEW a \in RequestState,
           NEW f \in Futures, NEW t \in Tid,
           req' = [req EXCEPT ![r].at = a, ![r].tid = t, ![r].future = f]
    PROVE  /\ req' \in [Request -> RequestRecord]
           /\ Others(r)
           /\ req'[r].at = a /\ req'[r].tid = t /\ req'[r].future = f
           /\ Kept(r)
<1> DEFINE p == [req[r] EXCEPT !.at = a]
           n == [p EXCEPT !.tid = t]
           q == [n EXCEPT !.future = f]
<1>1. req' = [req EXCEPT ![r] = q]
    OBVIOUS
<1>2. p \in RequestRecord
    BY SetField
<1>3. /\ p.at = a /\ p.kind = req[r].kind /\ p.sock = req[r].sock
      /\ p.epoch = req[r].epoch /\ p.tid = req[r].tid
      /\ p.future = req[r].future /\ p.answer = req[r].answer
    BY DEF RequestRecord
<1> HIDE DEF p
<1>4. n \in RequestRecord
    BY <1>2, SetField
<1>5. /\ n.at = p.at /\ n.kind = p.kind /\ n.sock = p.sock
      /\ n.epoch = p.epoch /\ n.tid = t
      /\ n.future = p.future /\ n.answer = p.answer
    BY <1>2 DEF RequestRecord
<1> HIDE DEF n
<1>6. q \in RequestRecord
    BY <1>4, SetField
<1>7. /\ q.at = n.at /\ q.kind = n.kind /\ q.sock = n.sock
      /\ q.epoch = n.epoch /\ q.tid = n.tid
      /\ q.future = f /\ q.answer = n.answer
    BY <1>4 DEF RequestRecord
<1>8. /\ q.at = a /\ q.kind = req[r].kind /\ q.sock = req[r].sock
      /\ q.epoch = req[r].epoch /\ q.tid = t
      /\ q.future = f /\ q.answer = req[r].answer
    BY <1>3, <1>5, <1>7
<1> HIDE DEF q
<1>9. req' \in [Request -> RequestRecord] /\ Others(r) /\ req'[r] = q
    BY <1>1, <1>6, StoresCall
<1> QED
    BY <1>8, <1>9 DEF Kept

\* Answering call r changes its future and its answer and nothing else.
LEMMA SetFutureAnswer ==
    ASSUME req \in [Request -> RequestRecord], NEW r \in Request,
           NEW f \in Futures, NEW w \in (Request \cup {Nobody}) \X (Socket \cup {Nobody}),
           req' = [req EXCEPT ![r].future = f, ![r].answer = w]
    PROVE  /\ req' \in [Request -> RequestRecord]
           /\ Others(r)
           /\ SameCall(r) /\ req'[r].future = f /\ req'[r].answer = w
<1> DEFINE p == [req[r] EXCEPT !.future = f]
           q == [p EXCEPT !.answer = w]
<1>1. req' = [req EXCEPT ![r] = q]
    OBVIOUS
<1>2. p \in RequestRecord
    BY SetField
<1>3. /\ p.at = req[r].at /\ p.kind = req[r].kind /\ p.sock = req[r].sock
      /\ p.epoch = req[r].epoch /\ p.tid = req[r].tid
      /\ p.future = f /\ p.answer = req[r].answer
    BY DEF RequestRecord
<1> HIDE DEF p
<1>4. q \in RequestRecord
    BY <1>2, SetField
<1>5. /\ q.at = p.at /\ q.kind = p.kind /\ q.sock = p.sock
      /\ q.epoch = p.epoch /\ q.tid = p.tid
      /\ q.future = p.future /\ q.answer = w
    BY <1>2 DEF RequestRecord
<1> HIDE DEF q
<1>6. req' \in [Request -> RequestRecord] /\ Others(r) /\ req'[r] = q
    BY <1>1, <1>4, StoresCall
<1> QED
    BY <1>3, <1>5, <1>6 DEF Kept, SameCall

\* Detach fails the futures it finds and changes nothing else of a call.
LEMMA DetachReq ==
    ASSUME TypeOK, Detach
    PROVE  /\ req' \in [Request -> RequestRecord]
           /\ \A q \in Request :
                /\ req'[q].at = req[q].at /\ req'[q].kind = req[q].kind
                /\ req'[q].sock = req[q].sock /\ req'[q].epoch = req[q].epoch
                /\ req'[q].tid = req[q].tid /\ req'[q].answer = req[q].answer
                /\ req'[q].future = IF q \in Detached THEN "failed" ELSE req[q].future
<1>1. req \in [Request -> RequestRecord]
    BY DEF TypeOK, RequestsOK, FramesOK
<1>2. req' = [r \in Request |->
                 IF r \in Detached THEN [req[r] EXCEPT !.future = "failed"] ELSE req[r]]
    BY DEF Detach
<1>3. ASSUME NEW q \in Request
      PROVE  /\ req'[q] \in RequestRecord
             /\ req'[q].at = req[q].at /\ req'[q].kind = req[q].kind
             /\ req'[q].sock = req[q].sock /\ req'[q].epoch = req[q].epoch
             /\ req'[q].tid = req[q].tid /\ req'[q].answer = req[q].answer
             /\ req'[q].future = IF q \in Detached THEN "failed" ELSE req[q].future
    <2>1. CASE q \in Detached
        BY <1>1, <1>2, <2>1 DEF RequestRecord
    <2>2. CASE q \notin Detached
        BY <1>1, <1>2, <2>2
    <2> QED
        BY <2>1, <2>2
<1> QED
    BY <1>2, <1>3

\* EndRequest ends r: a success keeps what it captured and its answer, a failure
\* forgets them.
LEMMA EndedReq ==
    ASSUME TypeOK, NEW r \in Request, NEW o \in {"ok", "error"}, EndRequest(r, o)
    PROVE  /\ req' \in [Request -> RequestRecord]
           /\ Others(r)
           /\ req'[r].at = o /\ req'[r].tid = 0 /\ req'[r].future = "none"
           /\ o = "ok" => Kept(r)
           /\ o = "error" => req'[r].kind = "none" /\ req'[r].sock = Nobody
<1> DEFINE new == IF o = "ok" THEN [req[r] EXCEPT !.at = "ok", !.tid = 0, !.future = "none"]
                              ELSE [NoRequest EXCEPT !.at = "error"]
<1>1. req \in [Request -> RequestRecord]
    BY DEF TypeOK, RequestsOK, FramesOK
<1>2. req' = [req EXCEPT ![r] = new]
    BY DEF EndRequest
<1>3. /\ new \in RequestRecord
      /\ new.at = o /\ new.tid = 0 /\ new.future = "none"
      /\ o = "ok" => /\ new.kind = req[r].kind /\ new.sock = req[r].sock
                     /\ new.epoch = req[r].epoch /\ new.answer = req[r].answer
      /\ o = "error" => new.kind = "none" /\ new.sock = Nobody
    <2>1. CASE o = "ok"
        <3> DEFINE p == [req[r] EXCEPT !.at = "ok"]
                   n == [p EXCEPT !.tid = 0]
        <3>1. new = [n EXCEPT !.future = "none"] /\ "ok" \in RequestState /\ "none" \in Futures
            BY <2>1 DEF RequestState, Futures
        <3>2. /\ p \in RequestRecord /\ p.at = "ok" /\ p.kind = req[r].kind
              /\ p.sock = req[r].sock /\ p.epoch = req[r].epoch /\ p.answer = req[r].answer
            BY <1>1, <3>1, SetField DEF RequestRecord
        <3> HIDE DEF p
        <3>3. /\ n \in RequestRecord /\ n.at = "ok" /\ n.kind = p.kind /\ n.tid = 0
              /\ n.sock = p.sock /\ n.epoch = p.epoch /\ n.answer = p.answer
            BY <3>2, TidType, SetField DEF RequestRecord
        <3> HIDE DEF n, new
        <3>4. /\ new \in RequestRecord /\ new.at = "ok" /\ new.kind = n.kind /\ new.tid = 0
              /\ new.sock = n.sock /\ new.epoch = n.epoch /\ new.answer = n.answer
              /\ new.future = "none"
            BY <3>1, <3>3, SetField DEF RequestRecord
        <3> QED
            BY <2>1, <3>2, <3>3, <3>4
    <2>2. CASE o = "error"
        BY <2>2, TidType DEF RequestRecord, RequestState, NoRequest
    <2> QED
        BY <2>1, <2>2
<1> HIDE DEF new
<1> QED
    BY <1>1, <1>2, <1>3 DEF Others, Kept

\* Frame f is what call r adds to the stream of its socket.
Adds(r, k, f) ==
    /\ f.kind = k /\ f.of = r /\ f.tid = req'[r].tid
    /\ \A t \in Socket : Written(r, k)[t] = wire[t] \cup (IF t = req[r].sock THEN {f} ELSE {})

\* What a call writes is one frame on its own socket.
LEMMA WrittenIs ==
    ASSUME TypeOK, NEW r \in Request, NEW k \in {"framed", "at", "raw", "aux", "none"},
           req[r].sock \in Socket, req'[r].tid \in Tid
    PROVE  Written(r, k) \in [Socket -> SUBSET Frame] /\ \E f \in Frame : Adds(r, k, f)
<1> DEFINE m == [NoFrame EXCEPT !.kind = k, !.of = r, !.tid = req'[r].tid]
<1>1. wire \in [Socket -> SUBSET Frame]
    BY DEF TypeOK, RequestsOK, FramesOK
<1>2. Written(r, k) = [wire EXCEPT ![req[r].sock] = @ \cup {m}]
    BY DEF Written
<1>3. m.kind = k /\ m.of = r /\ m.tid = req'[r].tid /\ m \in Frame
    BY DEF NoFrame, Frame
<1> HIDE DEF m
<1>4. \A t \in Socket : Written(r, k)[t] = wire[t] \cup (IF t = req[r].sock THEN {m} ELSE {})
    BY <1>1, <1>2
<1>5. Written(r, k) \in [Socket -> SUBSET Frame]
    BY <1>1, <1>2, <1>3
<1>6. Adds(r, k, m)
    BY <1>3, <1>4 DEF Adds
<1> QED
    BY <1>3, <1>5, <1>6

\* A reader changes nobody's stream but its own.
LEMMA ReaderAlone ==
    ASSUME TypeOK, NEW s \in Socket, NEW t \in Socket, t # s,
           FirstByte(s) \/ FrameEnds(s) \/ ReaderStops(s) \/ CancelLands(s)
    PROVE  reader'[t] = reader[t] /\ wire'[t] = wire[t]
<1> USE DEF TypeOK, FramesOK
<1>1. CASE FirstByte(s)
    <2>1. \E f : reader' = [reader EXCEPT ![s] = f]
        BY <1>1 DEF FirstByte
    <2>2. wire' = wire \/ \E m : wire' = [wire EXCEPT ![s] = @ \ {m}]
        BY <1>1 DEF FirstByte
    <2> QED
        BY <2>1, <2>2
<1>2. CASE FrameEnds(s)
    BY <1>2 DEF FrameEnds
<1>3. CASE ReaderStops(s) \/ CancelLands(s)
    BY <1>3 DEF ReaderStops, CancelLands, ReaderDone
<1> QED
    BY <1>1, <1>2, <1>3

\* A reader that takes a step was reading.
LEMMA ReaderMoves ==
    ASSUME TypeOK, NEW s \in Socket,
           FirstByte(s) \/ FrameEnds(s) \/ ReaderStops(s) \/ CancelLands(s)
    PROVE  reader[s].at \in {"boundary", "frame"} /\ reader'[s].at \in {"frame", "boundary", "done"}
<1> USE DEF TypeOK, FramesOK
<1>1. CASE FirstByte(s)
    <2>1. \E f : reader' = [reader EXCEPT ![s] = [at |-> "frame", frame |-> f]]
        BY <1>1 DEF FirstByte
    <2>2. reader[s].at = "boundary"
        BY <1>1 DEF FirstByte
    <2> QED
        BY <2>1, <2>2
<1>2. CASE FrameEnds(s)
    <2>1. \E a \in {"done", "boundary"} :
             reader' = [reader EXCEPT ![s] = [at |-> a, frame |-> NoFrame]]
        BY <1>2 DEF FrameEnds
    <2> QED
        BY <1>2, <2>1 DEF FrameEnds
<1>3. CASE ReaderStops(s) \/ CancelLands(s)
    BY <1>3 DEF ReaderStops, CancelLands, ReaderDone
<1> QED
    BY <1>1, <1>2, <1>3

\* A call writes on no socket but its own.
LEMMA WrittenElsewhere ==
    ASSUME TypeOK, NEW r, NEW k, NEW t \in Socket, t # req[r].sock
    PROVE  Written(r, k)[t] = wire[t]
    BY DEF TypeOK, FramesOK, Written

\* The places of a call that holds the lock
Active == {"boot", "boot2", "held", "sent"}

\* A call under way is for a socket; one that has not begun or has failed is not,
\* and only a call that holds the lock has a future.
RequestsAimed ==
    \A r \in Request :
        /\ req[r].at \in Active \cup {"queued", "ok"} => req[r].sock \in Socket
        /\ req[r].at \in {"idle", "error"} => req[r].sock = Nobody
        /\ req[r].at \in Active => req[r].kind # "none" /\ lock = r
        /\ req[r].at \in {"boot", "boot2"} => req[r].kind = "raw"
        /\ req[r].at \notin Active => req[r].future = "none"

\* A call that passes the owner check is for a socket.
LEMMA ActiveSocket ==
    ASSUME TypeOK, NEW r \in Request, OwnerCheck(r)
    PROVE req[r].sock \in Socket
    BY DEF TypeOK, SessionsOK, OwnerCheck, Connected

\* What the steps of a call do to it; every other call is left alone.
LEMMA CaptureDoes ==
    ASSUME TypeOK, NEW r \in Request, NEW k \in Kinds, Capture(r, k)
    PROVE  /\ req' \in [Request -> RequestRecord]
           /\ Others(r)
           /\ req[r].at = "idle" /\ writer \in Socket /\ Connected
           /\ req'[r].at = "queued" /\ req'[r].kind = k /\ req'[r].sock = writer
           /\ req'[r].epoch = epoch /\ req'[r].future = "none"
<1> DEFINE new == [NoRequest EXCEPT !.at = "queued", !.kind = k, !.sock = writer, !.epoch = epoch]
<1>1. /\ req' = [req EXCEPT ![r] = new] /\ req[r].at = "idle"
      /\ writer \in Socket /\ Connected
    BY DEF Capture, Connected, TypeOK, SessionsOK
<1>2. /\ new.at = "queued" /\ new.kind = k /\ new.sock = writer
      /\ new.epoch = epoch /\ new.future = "none" /\ new \in RequestRecord
    BY TidType DEF NoRequest, RequestRecord, RequestState, TypeOK, SessionsOK, RunsOK
<1> HIDE DEF new
<1> QED
    BY <1>1, <1>2 DEF TypeOK, RequestsOK, Others

\* Admit moves r from the queue to its first write, under the lock.
LEMMA AdmitDoes ==
    ASSUME TypeOK, NEW r \in Request, Admit(r)
    PROVE  /\ req' \in [Request -> RequestRecord]
           /\ Others(r)
           /\ req[r].at = "queued" /\ lock = Nobody /\ lock' = r
           /\ Kept(r)
           /\ req'[r].tid = IF req[r].kind = "framed" THEN NextTid ELSE req[r].tid
           /\ req'[r].future = IF req[r].kind = "aux" THEN req[r].future ELSE "pending"
           /\ req'[r].at = IF req[r].kind = "raw" /\ ~booted THEN "boot" ELSE "held"
           /\ req[r].kind \in {"framed", "at", "raw", "aux"}
           /\ req[r].kind # "aux" => OwnerCheck(r)
<1>1. req \in [Request -> RequestRecord] /\ tid \in Tid
    BY DEF TypeOK, RequestsOK
<1>2. /\ req[r].at = "queued" /\ lock = Nobody /\ lock' = r
      /\ req[r].kind # "aux" => OwnerCheck(r)
    BY DEF Admit, Refused
<1>3. CASE AdmitFramed(r)
    <2>1. /\ req' = [req EXCEPT ![r].at = "held", ![r].tid = NextTid, ![r].future = "pending"]
          /\ req[r].kind = "framed"
        BY <1>3 DEF AdmitFramed
    <2>2. NextTid \in Tid /\ "held" \in RequestState /\ "pending" \in Futures
        BY <1>1, NextTidType DEF RequestState, Futures
    <2>3. /\ req' \in [Request -> RequestRecord]
          /\ Others(r)
          /\ req'[r].at = "held" /\ req'[r].tid = NextTid /\ req'[r].future = "pending"
          /\ Kept(r)
        BY <1>1, <2>1, <2>2, SetAtTidFuture
    <2> QED
        BY <1>2, <2>1, <2>3
<1>4. CASE AdmitAt(r)
    <2>1. /\ req' = [req EXCEPT ![r].at = "held", ![r].future = "pending"]
          /\ req[r].kind = "at"
        BY <1>4 DEF AdmitAt
    <2>2. "held" \in RequestState /\ "pending" \in Futures
        BY DEF RequestState, Futures
    <2>3. /\ req' \in [Request -> RequestRecord]
          /\ Others(r)
          /\ req'[r].at = "held" /\ req'[r].tid = req[r].tid /\ req'[r].future = "pending"
          /\ Kept(r)
        BY <1>1, <2>1, <2>2, SetAtFuture
    <2> QED
        BY <1>2, <2>1, <2>3
<1>5. CASE AdmitRaw(r)
    <2> DEFINE a == IF booted THEN "held" ELSE "boot"
    <2>1. req' = [req EXCEPT ![r].at = a, ![r].future = "pending"] /\ req[r].kind = "raw"
        BY <1>5 DEF AdmitRaw
    <2>2. a \in RequestState /\ "pending" \in Futures
        BY DEF RequestState, Futures
    <2> HIDE DEF a
    <2>3. /\ req' \in [Request -> RequestRecord]
          /\ Others(r)
          /\ req'[r].at = a /\ req'[r].tid = req[r].tid /\ req'[r].future = "pending"
          /\ Kept(r)
        BY <1>1, <2>1, <2>2, SetAtFuture
    <2> QED
        BY <1>2, <2>1, <2>3 DEF a
<1>6. CASE AdmitAux(r)
    <2>1. req' = [req EXCEPT ![r].at = "held"] /\ req[r].kind = "aux"
        BY <1>6 DEF AdmitAux
    <2>2. "held" \in RequestState
        BY DEF RequestState
    <2>3. /\ req' \in [Request -> RequestRecord] /\ Others(r) /\ Kept(r)
          /\ req'[r].at = "held" /\ req'[r].tid = req[r].tid /\ req'[r].future = req[r].future
        BY <1>1, <2>1, <2>2, SetAt, Zenon
    <2> QED
        BY <1>2, <2>1, <2>3
<1> QED
    BY <1>3, <1>4, <1>5, <1>6 DEF Admit

\* The bootstrap steps keep r under the lock with a new future.
LEMMA BootDoes ==
    ASSUME TypeOK, NEW r \in Request, BootAgain(r) \/ BootEnds(r)
    PROVE  /\ req' \in [Request -> RequestRecord]
           /\ Others(r)
           /\ req[r].at \in {"boot", "boot2"} /\ OwnerCheck(r)
           /\ BootAgain(r) => req'[r].at = "boot2"
           /\ BootEnds(r) => req'[r].at = "held"
           /\ req'[r].at \in {"boot2", "held"}
           /\ req'[r].tid = req[r].tid /\ req'[r].future = "pending" /\ Kept(r)
<1>1. req \in [Request -> RequestRecord]
    BY DEF TypeOK, RequestsOK
<1>2. "held" \in RequestState /\ "boot2" \in RequestState /\ "pending" \in Futures
    BY DEF RequestState, Futures
<1>3. CASE BootAgain(r)
    <2>1. /\ req' = [req EXCEPT ![r].at = "boot2", ![r].future = "pending"]
          /\ req[r].at = "boot" /\ OwnerCheck(r)
        BY <1>3 DEF BootAgain
    <2>2. /\ req' \in [Request -> RequestRecord]
          /\ Others(r)
          /\ req'[r].at = "boot2" /\ req'[r].tid = req[r].tid /\ req'[r].future = "pending"
          /\ Kept(r)
        BY <1>1, <1>2, <2>1, SetAtFuture
    <2>3. ~BootEnds(r)
        BY <2>2, <1>1 DEF BootEnds, RequestRecord
    <2> QED
        BY <2>1, <2>2, <2>3
<1>4. CASE BootEnds(r) /\ ~BootAgain(r)
    <2>1. /\ req' = [req EXCEPT ![r].at = "held", ![r].future = "pending"]
          /\ req[r].at \in {"boot", "boot2"} /\ OwnerCheck(r)
        BY <1>4 DEF BootEnds, BootChecked
    <2>2. /\ req' \in [Request -> RequestRecord]
          /\ Others(r)
          /\ req'[r].at = "held" /\ req'[r].tid = req[r].tid /\ req'[r].future = "pending"
          /\ Kept(r)
        BY <1>1, <1>2, <2>1, SetAtFuture
    <2> QED
        BY <1>4, <2>1, <2>2
<1> QED
    BY <1>3, <1>4

\* Write moves r from held to sent.
LEMMA WriteDoes ==
    ASSUME TypeOK, NEW r \in Request, Write(r)
    PROVE  /\ req' \in [Request -> RequestRecord]
           /\ Others(r)
           /\ req[r].at = "held" /\ MayWrite(r)
           /\ req'[r].at = "sent" /\ req'[r].tid = req[r].tid /\ Kept(r)
           /\ req'[r].future = IF req[r].kind = "aux" THEN "pending" ELSE req[r].future
<1>1. req \in [Request -> RequestRecord]
    BY DEF TypeOK, RequestsOK
<1>2. "sent" \in RequestState /\ "pending" \in Futures
    BY DEF RequestState, Futures
<1>3. req[r].at = "held" /\ MayWrite(r)
    BY DEF Write
<1>4. CASE req[r].kind = "aux"
    <2>1. req' = [req EXCEPT ![r].at = "sent", ![r].future = "pending"]
        BY <1>4 DEF Write
    <2>2. /\ req' \in [Request -> RequestRecord] /\ Others(r) /\ Kept(r)
          /\ req'[r].at = "sent" /\ req'[r].tid = req[r].tid /\ req'[r].future = "pending"
        BY <1>1, <1>2, <2>1, SetAtFuture, Zenon
    <2> QED
        BY <1>3, <1>4, <2>2
<1>5. CASE req[r].kind # "aux"
    <2>1. req' = [req EXCEPT ![r].at = "sent"]
        BY <1>5 DEF Write
    <2> QED
        BY <1>1, <1>2, <1>3, <1>5, <2>1, SetAt
<1> QED
    BY <1>4, <1>5

\* The end of a frame completes its taker or nothing.
LEMMA FrameDoes ==
    ASSUME TypeOK, NEW s \in Socket, FrameEnds(s)
    PROVE  /\ req' \in [Request -> RequestRecord]
           /\ \/ req' = req
              \/ \E r \in Request :
                    /\ r = Taker(s, reader[s].frame) /\ req[r].future = "pending"
                    /\ Others(r)
                    /\ SameCall(r) /\ req'[r].future = "set"
                    /\ req'[r].answer = <<reader[s].frame.of, s>>
<1>1. req \in [Request -> RequestRecord]
    BY DEF TypeOK, RequestsOK
<1> DEFINE m == reader[s].frame
           r == Taker(s, m)
<1>2. m.of \in Request \cup {Nobody} /\ m.owner \in Request \cup {Nobody} /\ m.tid \in Tid
    BY DEF TypeOK, FramesOK, Frame
<1>3. r \in Request \cup {Nobody}
    BY <1>2 DEF Taker, TypeOK, RequestsOK, SessionsOK
<1>4. \/ req' = req
      \/ /\ r # Nobody /\ req[r].future = "pending"
         /\ req' = [req EXCEPT ![r].future = "set", ![r].answer = <<m.of, s>>]
    BY DEF FrameEnds
<1>5. CASE req' = req
    BY <1>1, <1>5
<1>6. CASE /\ r # Nobody /\ req[r].future = "pending"
           /\ req' = [req EXCEPT ![r].future = "set", ![r].answer = <<m.of, s>>]
    <2>1. r \in Request
        BY <1>3, <1>6
    <2>2. <<m.of, s>> \in (Request \cup {Nobody}) \X (Socket \cup {Nobody}) /\ "set" \in Futures
        BY <1>2 DEF Futures
    <2> HIDE DEF r, m
    <2>3. /\ req' \in [Request -> RequestRecord]
          /\ Others(r)
          /\ SameCall(r) /\ req'[r].future = "set"
          /\ req'[r].answer = <<m.of, s>>
        BY <1>1, <1>6, <2>1, <2>2, SetFutureAnswer
    <2> QED
        BY <1>6, <2>1, <2>3 DEF r, m
<1> QED
    BY <1>4, <1>5, <1>6

\* A new object has its types.
LEMMA InitTyped == Init => TypeOK
<1> SUFFICES ASSUME Init PROVE TypeOK
    OBVIOUS
<1>1. RunsOK
    BY DEF Init, RunsOK, RunState
<1>2. SessionsOK
    BY DEF Init, SessionsOK
<1>3. FramesOK
    BY NoFrameType DEF Init, FramesOK
<1>4. RequestsOK
    BY NoRequestType, TidType DEF Init, RequestsOK
<1> QED
    BY <1>1, <1>2, <1>3, <1>4 DEF TypeOK

\* Every step keeps the types of the runs, the indexes and the release.
LEMMA RunsTyped ==
    ASSUME TypeOK, Next
    PROVE  RunsOK'
<1> USE DEF TypeOK, RunsOK, RunState, DropIndexes
<1>1. ASSUME NEW s \in Socket, Bind(s) \/ BindElsewhere(s)
      PROVE  RunsOK'
    BY <1>1 DEF Bind, BindElsewhere
<1>2. ASSUME NEW s \in Socket, Run(s)
      PROVE  RunsOK'
    BY <1>2 DEF Run, Install
<1>3. ASSUME NEW s \in Socket, RunWakes(s)
      PROVE  RunsOK'
    BY <1>3 DEF RunWakes
<1>4. ASSUME NEW s \in Socket, RunCloses(s)
      PROVE  RunsOK'
    BY <1>4 DEF RunCloses
<1>5. ASSUME NEW s \in Socket, FirstByte(s) \/ FrameEnds(s) \/ ReaderStops(s) \/ CancelLands(s)
      PROVE  RunsOK'
    BY <1>5 DEF FirstByte, FrameEnds, ReaderStops, CancelLands, ReaderDone
<1>6. ASSUME NEW r \in Request, RequestNext(r)
      PROVE  RunsOK'
    BY <1>6 DEF RequestNext, Capture, Refuse, Admit, BootAgain, BootEnds, Write, Finish, Fail
<1>7. CASE ReleaseSession \/ ReleaseKeys
    <2>1. byIp' \in BOOLEAN /\ byPn' \in BOOLEAN
        BY <1>7, Zenon DEF ReleaseSession, ReleaseKeys
    <2>2. releases' = releases + 1 /\ releases < MaxReleases
        BY <1>7 DEF ReleaseSession, ReleaseKeys
    <2>3. UNCHANGED runVars /\ index' \in {{}, index} /\ release' \in {"none", "session", "keys"}
        BY <1>7 DEF ReleaseSession, ReleaseKeys
    <2> QED
        BY <2>1, <2>2, <2>3
<1>8. CASE ReleaseEnds
    <2>1. byIp' \in BOOLEAN /\ byPn' \in BOOLEAN
        BY <1>8, Zenon DEF ReleaseEnds
    <2> QED
        BY <1>8, <2>1 DEF ReleaseEnds
<1>9. CASE Heartbeat
    BY <1>9 DEF Heartbeat
<1> QED
    BY <1>1, <1>2, <1>3, <1>4, <1>5, <1>6, <1>7, <1>8, <1>9 DEF Next, SocketNext

\* Every step keeps the types of the session fields.
LEMMA SessionsTyped ==
    ASSUME TypeOK, RequestsAimed, Next
    PROVE  SessionsOK'
<1> USE DEF TypeOK, SessionsOK
<1>1. ASSUME NEW s \in Socket, Bind(s) \/ BindElsewhere(s) \/ RunCloses(s)
      PROVE  SessionsOK'
    BY <1>1 DEF Bind, BindElsewhere, RunCloses
<1>2. ASSUME NEW s \in Socket, Run(s)
      PROVE  SessionsOK'
    BY <1>2 DEF Run, Install, Detach
<1>3. ASSUME NEW s \in Socket, RunWakes(s)
      PROVE  SessionsOK'
    BY <1>3 DEF RunWakes, Detach
<1>4. ASSUME NEW s \in Socket, FirstByte(s) \/ ReaderStops(s) \/ CancelLands(s)
      PROVE  SessionsOK'
    BY <1>4 DEF FirstByte, ReaderStops, CancelLands, ReaderDone
<1>5. ASSUME NEW s \in Socket, FrameEnds(s)
      PROVE  SessionsOK'
    <2>1. UNCHANGED <<writer, aux, open, retired, enabled, claim, booted, bootedOn>>
        BY <1>5 DEF FrameEnds
    <2>2. named' = named \/ (writer \notin {Nobody, s} /\ named' = named \cup {<<s, writer>>})
        BY <1>5 DEF FrameEnds
    <2> QED
        BY <2>1, <2>2
<1>6. ASSUME NEW r \in Request, \E k \in Kinds : Capture(r, k)
      PROVE  SessionsOK'
    BY <1>6 DEF Capture
<1>7. ASSUME NEW r \in Request, Refuse(r) \/ Finish(r) \/ Fail(r)
      PROVE  SessionsOK'
    <2>1. Fenced(r) \subseteq Socket
        BY DEF Fenced, RequestsAimed, Active
    <2> QED
        BY <1>7, <2>1 DEF Refuse, Finish, Fail, EndRequest
<1>8. ASSUME NEW r \in Request, Admit(r)
      PROVE  SessionsOK'
    <2>1. CASE req[r].kind = "aux"
        <3>1. req[r].sock \in Socket
            BY <1>8, <2>1 DEF Admit, Refused, FramesOK
        <3> QED
            BY <1>8, <3>1 DEF Admit, AdmitFramed, AdmitAt, AdmitRaw, AdmitAux
    <2>2. CASE req[r].kind # "aux"
        BY <1>8, <2>2 DEF Admit, AdmitFramed, AdmitAt, AdmitRaw, AdmitAux
    <2> QED
        BY <2>1, <2>2
<1>9. ASSUME NEW r \in Request, BootAgain(r) \/ BootEnds(r)
      PROVE  SessionsOK'
    BY <1>9, ActiveSocket DEF BootAgain, BootEnds, BootChecked
<1>10. ASSUME NEW r \in Request, Write(r)
      PROVE  SessionsOK'
    BY <1>10 DEF Write
<1>11. CASE ReleaseSession \/ ReleaseKeys
    BY <1>11 DEF ReleaseSession, ReleaseKeys, Detach
<1>12. CASE ReleaseEnds \/ Heartbeat
    BY <1>12 DEF ReleaseEnds, Heartbeat
<1> QED
    BY <1>1, <1>2, <1>3, <1>4, <1>5, <1>6, <1>7, <1>8, <1>9, <1>10, <1>11, <1>12
       DEF Next, SocketNext, RequestNext

\* Every step keeps the types of the readers and of what is on the wire.
LEMMA FramesTyped ==
    ASSUME TypeOK, Next
    PROVE  FramesOK'
<1> USE DEF TypeOK, FramesOK
<1>1. ASSUME NEW s \in Socket, Bind(s) \/ BindElsewhere(s) \/ RunWakes(s) \/ RunCloses(s)
      PROVE  FramesOK'
    BY <1>1 DEF Bind, BindElsewhere, RunWakes, RunCloses
<1>2. ASSUME NEW s \in Socket, Run(s)
      PROVE  FramesOK'
    <2>1. wire' = wire /\ (reader' = reader \/ reader' = [reader EXCEPT ![s].at = "boundary"])
        BY <1>2 DEF Run, Install
    <2> QED
        BY <2>1
<1>3. ASSUME NEW s \in Socket, FirstByte(s)
      PROVE  FramesOK'
    <2>1. ASSUME NEW m \in Frame
          PROVE  [m EXCEPT !.owner = claim[s]] \in Frame
        BY DEF Frame, SessionsOK
    <2>2. ASSUME NEW t \in Tid
          PROVE  [NoFrame EXCEPT !.kind = "heartbeat", !.tid = t] \in Frame
        BY DEF Frame, NoFrame
    <2>3. \E f \in Frame : reader' = [reader EXCEPT ![s] = [at |-> "frame", frame |-> f]]
        BY <1>3, <2>1, <2>2 DEF FirstByte
    <2>4. wire' = wire \/ \E m : wire' = [wire EXCEPT ![s] = @ \ {m}]
        BY <1>3 DEF FirstByte
    <2> QED
        BY <2>3, <2>4
<1>4. ASSUME NEW s \in Socket, FrameEnds(s)
      PROVE  FramesOK'
    <2>1. wire' = wire /\ \E a \in {"done", "boundary"} :
             reader' = [reader EXCEPT ![s] = [at |-> a, frame |-> NoFrame]]
        BY <1>4 DEF FrameEnds
    <2> QED
        BY <2>1, NoFrameType
<1>5. ASSUME NEW s \in Socket, ReaderStops(s) \/ CancelLands(s)
      PROVE  FramesOK'
    BY <1>5, NoFrameType DEF ReaderStops, CancelLands, ReaderDone
<1>6. ASSUME NEW r \in Request, \E k \in Kinds : Capture(r, k)
      PROVE  FramesOK'
    BY <1>6 DEF Capture
<1>7. ASSUME NEW r \in Request, Refuse(r) \/ BootEnds(r) \/ Finish(r) \/ Fail(r)
      PROVE  FramesOK'
    BY <1>7 DEF Refuse, BootEnds, Finish, Fail
<1>8. ASSUME NEW r \in Request, Admit(r)
      PROVE  FramesOK'
    <2>1. CASE AdmitRaw(r) /\ ~booted
        <3>1. OwnerCheck(r)
            BY <1>8, <2>1 DEF Admit, AdmitRaw, Refused
        <3>2. req'[r].tid \in Tid
            BY <2>1 DEF AdmitRaw, RequestsOK, RequestRecord
        <3>3. reader' = reader /\ wire' = Written(r, "at")
            BY <1>8, <2>1 DEF Admit, AdmitRaw
        <3> QED
            BY <3>1, <3>2, <3>3, ActiveSocket, WrittenIs
    <2>2. CASE ~(AdmitRaw(r) /\ ~booted)
        BY <1>8, <2>2 DEF Admit, AdmitFramed, AdmitAt, AdmitRaw, AdmitAux
    <2> QED
        BY <2>1, <2>2
<1>9. ASSUME NEW r \in Request, BootAgain(r)
      PROVE  FramesOK'
    <2>1. req'[r].tid \in Tid
        BY <1>9 DEF BootAgain, RequestsOK, RequestRecord
    <2>2. reader' = reader /\ wire' = Written(r, "at") /\ OwnerCheck(r)
        BY <1>9 DEF BootAgain
    <2> QED
        BY <2>1, <2>2, ActiveSocket, WrittenIs
<1>10. ASSUME NEW r \in Request, Write(r)
      PROVE  FramesOK'
    <2>1. req'[r].tid \in Tid
        BY <1>10 DEF Write, RequestsOK, RequestRecord
    <2>2. req[r].kind \in {"framed", "at", "raw", "aux", "none"}
        BY DEF RequestsOK, RequestRecord
    <2>3. reader' = reader /\ wire' = Written(r, req[r].kind) /\ MayWrite(r)
        BY <1>10 DEF Write
    <2>4. req[r].sock \in Socket
        BY <2>3, ActiveSocket DEF MayWrite, SessionsOK
    <2> QED
        BY <2>1, <2>2, <2>3, <2>4, WrittenIs
<1>11. CASE ReleaseSession \/ ReleaseKeys \/ ReleaseEnds \/ Heartbeat
    BY <1>11 DEF ReleaseSession, ReleaseKeys, ReleaseEnds, Heartbeat
<1> QED
    BY <1>1, <1>2, <1>3, <1>4, <1>5, <1>6, <1>7, <1>8, <1>9, <1>10, <1>11
       DEF Next, SocketNext, RequestNext

\* Every step keeps the types of the calls, the counter and the slots.
LEMMA RequestsTyped ==
    ASSUME TypeOK, Next
    PROVE  RequestsOK'
<1> USE DEF TypeOK, RequestsOK
<1>1. ASSUME NEW s \in Socket, Bind(s) \/ BindElsewhere(s) \/ RunCloses(s)
      PROVE  RequestsOK'
    BY <1>1 DEF Bind, BindElsewhere, RunCloses
<1>2. ASSUME NEW s \in Socket, Run(s)
      PROVE  RequestsOK'
    <2>1. CASE Detach
        BY <1>2, <2>1, DetachReq DEF Run, Detach, Install
    <2>2. CASE ~Detach
        BY <1>2, <2>2 DEF Run, Install
    <2> QED
        BY <2>1, <2>2
<1>3. ASSUME NEW s \in Socket, RunWakes(s)
      PROVE  RequestsOK'
    <2>1. CASE Detach
        BY <1>3, <2>1, DetachReq DEF RunWakes, Detach
    <2>2. CASE ~Detach
        BY <1>3, <2>2 DEF RunWakes
    <2> QED
        BY <2>1, <2>2
<1>4. ASSUME NEW s \in Socket, FirstByte(s) \/ ReaderStops(s) \/ CancelLands(s)
      PROVE  RequestsOK'
    BY <1>4 DEF FirstByte, ReaderStops, CancelLands, ReaderDone
<1>5. ASSUME NEW s \in Socket, FrameEnds(s)
      PROVE  RequestsOK'
    BY <1>5, FrameDoes DEF FrameEnds
<1>6. ASSUME NEW r \in Request, NEW k \in Kinds, Capture(r, k)
      PROVE  RequestsOK'
    BY <1>6, CaptureDoes DEF Capture
<1>7. ASSUME NEW r \in Request, NEW o \in {"ok", "error"}, EndRequest(r, o), tid' = tid,
             beats' = beats
      PROVE  RequestsOK'
    BY <1>7, EndedReq DEF EndRequest
<1>8. ASSUME NEW r \in Request, Admit(r)
      PROVE  RequestsOK'
    <2>1. req' \in [Request -> RequestRecord]
        BY <1>8, AdmitDoes
    <2> QED
        BY <1>8, <2>1, NextTidType DEF Admit, AdmitFramed, AdmitAt, AdmitRaw, AdmitAux
<1>9. ASSUME NEW r \in Request, BootAgain(r) \/ BootEnds(r)
      PROVE  RequestsOK'
    BY <1>9, BootDoes DEF BootAgain, BootEnds
<1>10. ASSUME NEW r \in Request, Write(r)
      PROVE  RequestsOK'
    BY <1>10, WriteDoes DEF Write
<1>11. CASE ReleaseSession \/ ReleaseKeys
    BY <1>11, DetachReq DEF ReleaseSession, ReleaseKeys, Detach
<1>12. CASE ReleaseEnds \/ Heartbeat
    BY <1>12, NextTidType DEF ReleaseEnds, Heartbeat
<1>13. ASSUME NEW r \in Request, Refuse(r) \/ Finish(r) \/ Fail(r)
      PROVE  RequestsOK'
    BY <1>7, <1>13 DEF Refuse, Finish, Fail
<1> QED
    BY <1>1, <1>2, <1>3, <1>4, <1>5, <1>6, <1>8, <1>9, <1>10, <1>11, <1>12, <1>13
       DEF Next, SocketNext, RequestNext

\* A call under way keeps its socket and the lock.
LEMMA RequestsStayAimed ==
    ASSUME TypeOK, RequestsAimed, Next
    PROVE  RequestsAimed'
<1> USE DEF TypeOK, RequestsOK, RequestsAimed, Active
<1>1. ASSUME NEW s \in Socket, Bind(s) \/ BindElsewhere(s) \/ RunCloses(s)
      PROVE  RequestsAimed'
    BY <1>1 DEF Bind, BindElsewhere, RunCloses
<1>2. ASSUME Detach, lock' = lock
      PROVE  RequestsAimed'
    BY <1>2, DetachReq DEF Detached
<1>3. ASSUME NEW s \in Socket, Run(s) \/ RunWakes(s)
      PROVE  RequestsAimed'
    BY <1>2, <1>3 DEF Run, Install, RunWakes
<1>4. ASSUME NEW s \in Socket, FirstByte(s) \/ ReaderStops(s) \/ CancelLands(s)
      PROVE  RequestsAimed'
    BY <1>4 DEF FirstByte, ReaderStops, CancelLands, ReaderDone
<1>5. ASSUME NEW s \in Socket, FrameEnds(s)
      PROVE  RequestsAimed'
    <2>1. lock' = lock
        BY <1>5 DEF FrameEnds
    <2> QED
        BY <1>5, <2>1, FrameDoes DEF Others, SameCall
<1>6. ASSUME NEW r \in Request, NEW k \in Kinds, Capture(r, k)
      PROVE  RequestsAimed'
    <2>1. lock' = lock
        BY <1>6 DEF Capture
    <2> QED
        BY <1>6, <2>1, CaptureDoes DEF Others
<1>7. ASSUME NEW r \in Request, NEW o \in {"ok", "error"}, EndRequest(r, o),
             o = "ok" => req[r].at \in Active
      PROVE  RequestsAimed'
    <2>1. lock' = IF lock = r THEN Nobody ELSE lock
        BY <1>7 DEF EndRequest
    <2> QED
        BY <1>7, <2>1, EndedReq DEF Others, Kept
<1>8. ASSUME NEW r \in Request, Admit(r)
      PROVE  RequestsAimed'
    BY <1>8, AdmitDoes DEF Others, Kept
<1>9. ASSUME NEW r \in Request, BootAgain(r) \/ BootEnds(r) \/ Write(r)
      PROVE  RequestsAimed'
    <2>1. lock' = lock
        BY <1>9 DEF BootAgain, BootEnds, Write
    <2> QED
        BY <1>9, <2>1, BootDoes, WriteDoes DEF Others, Kept
<1>10. ASSUME NEW r \in Request, Refuse(r) \/ Finish(r) \/ Fail(r)
      PROVE  RequestsAimed'
    BY <1>7, <1>10 DEF Refuse, Finish, Fail
<1>11. CASE ReleaseSession \/ ReleaseKeys
    BY <1>2, <1>11 DEF ReleaseSession, ReleaseKeys
<1>12. CASE ReleaseEnds \/ Heartbeat
    BY <1>12 DEF ReleaseEnds, Heartbeat
<1> QED
    BY <1>1, <1>3, <1>4, <1>5, <1>6, <1>8, <1>9, <1>10, <1>11, <1>12
       DEF Next, SocketNext, RequestNext

Fresh == {"unbound", "elsewhere", "bound", "replacing"}

\* A socket whose run has not given it the object is open, unread and unknown to
\* every call.
FreshUntouched ==
    \A s \in Socket : run[s] \in Fresh =>
        /\ s \in open /\ s \notin retired
        /\ reader[s].at = "none" /\ wire[s] = {} /\ claim[s] = Nobody
        /\ writer # s /\ aux # s
        /\ \A r \in Request : req[r].sock # s

\* A socket whose run has not installed it is untouched.
LEMMA FreshStays ==
    ASSUME TypeOK, RequestsAimed, FreshUntouched, Next
    PROVE  FreshUntouched'
<1> USE DEF TypeOK, RunsOK, SessionsOK, FreshUntouched, Fresh
<1>a1. ASSUME NEW s \in Socket, Bind(s) \/ BindElsewhere(s) \/ RunCloses(s)
      PROVE  FreshUntouched'
    BY <1>a1 DEF Bind, BindElsewhere, RunCloses
<1>a2. ASSUME NEW s \in Socket, Run(s)
      PROVE  FreshUntouched'
    <2>1. CASE run[s] = "bound" /\ Connected
        BY <1>a2, <2>1, DetachReq DEF Run, Detach, Connected
    <2>2. CASE ~(run[s] = "bound" /\ Connected)
        BY <1>a2, <2>2 DEF Run, Install, FramesOK
    <2> QED
        BY <2>1, <2>2
<1>a3. ASSUME NEW s \in Socket, RunWakes(s)
      PROVE  FreshUntouched'
    <2>1. CASE epoch = runEpoch[s]
        BY <1>a3, <2>1, DetachReq DEF RunWakes, Detach
    <2>2. CASE epoch # runEpoch[s]
        BY <1>a3, <2>2 DEF RunWakes
    <2> QED
        BY <2>1, <2>2
<1>a4. ASSUME NEW s \in Socket, FirstByte(s) \/ ReaderStops(s) \/ CancelLands(s)
      PROVE  FreshUntouched'
    <2>1. /\ UNCHANGED <<run, open, retired, claim, writer, aux, req>>
          /\ reader[s].at \in {"boundary", "frame"}
        BY <1>a4 DEF FirstByte, ReaderStops, CancelLands, ReaderDone
    <2>2. \A t \in Socket : t # s => reader'[t] = reader[t] /\ wire'[t] = wire[t]
        BY <1>a4, ReaderAlone
    <2> QED
        BY <2>1, <2>2
<1>a5. ASSUME NEW s \in Socket, FrameEnds(s)
      PROVE  FreshUntouched'
    <2>1. \A r \in Request : req'[r].sock = req[r].sock
        BY <1>a5, FrameDoes DEF Others, SameCall
    <2>2. /\ UNCHANGED <<run, open, retired, wire, claim, writer, aux>>
          /\ reader[s].at = "frame" /\ \A t \in Socket : t # s => reader'[t] = reader[t]
        BY <1>a5 DEF FrameEnds, FramesOK
    <2> QED
        BY <2>1, <2>2
<1>a6. ASSUME NEW r \in Request, NEW k \in Kinds, Capture(r, k)
      PROVE  FreshUntouched'
    <2>1. UNCHANGED <<run, open, retired, reader, wire, claim, writer, aux>>
        BY <1>a6 DEF Capture
    <2> QED
        BY <1>a6, <2>1, CaptureDoes DEF Others
<1>a7. ASSUME NEW r \in Request, Admit(r)
      PROVE  FreshUntouched'
    <2>1. UNCHANGED <<run, open, retired, reader, claim, writer, aux>>
        BY <1>a7 DEF Admit
    <2>2. req[r].sock \in Socket /\ Others(r) /\ Kept(r)
        BY <1>a7, AdmitDoes DEF RequestsAimed, Active, RequestRecord
    <2>3. wire' = wire \/ wire' = Written(r, "at")
        BY <1>a7 DEF Admit, AdmitFramed, AdmitAt, AdmitRaw, AdmitAux
    <2>4. \A t \in Socket : t # req[r].sock => wire'[t] = wire[t]
        BY <2>2, <2>3, WrittenElsewhere
    <2> QED
        BY <2>1, <2>2, <2>4 DEF Others, Kept
<1>a8. ASSUME NEW r \in Request, BootAgain(r) \/ BootEnds(r)
      PROVE  FreshUntouched'
    <2>1. UNCHANGED <<run, open, retired, reader, claim, writer, aux>>
        BY <1>a8 DEF BootAgain, BootEnds
    <2>2. req[r].sock \in Socket /\ Others(r) /\ Kept(r)
        BY <1>a8, BootDoes DEF RequestsAimed, Active, RequestRecord
    <2>3. wire' = wire \/ wire' = Written(r, "at")
        BY <1>a8 DEF BootAgain, BootEnds
    <2>4. \A t \in Socket : t # req[r].sock => wire'[t] = wire[t]
        BY <2>2, <2>3, WrittenElsewhere
    <2> QED
        BY <2>1, <2>2, <2>4 DEF Others, Kept
<1>a9. ASSUME NEW r \in Request, Write(r)
      PROVE  FreshUntouched'
    <2>1. UNCHANGED <<run, open, retired, reader, writer, aux>>
        BY <1>a9 DEF Write
    <2>2. req[r].sock \in Socket /\ Others(r) /\ Kept(r)
        BY <1>a9, WriteDoes DEF RequestsAimed, Active
    <2>3. /\ wire' = Written(r, req[r].kind)
          /\ claim' = claim \/ claim' = [claim EXCEPT ![req[r].sock] = r]
        BY <1>a9 DEF Write
    <2>4. \A t \in Socket : t # req[r].sock => wire'[t] = wire[t] /\ claim'[t] = claim[t]
        BY <2>2, <2>3, WrittenElsewhere
    <2> QED
        BY <2>1, <2>2, <2>4 DEF Others, Kept
<1>a10. ASSUME NEW r \in Request, Refuse(r) \/ Finish(r) \/ Fail(r)
      PROVE  FreshUntouched'
    <2>1. UNCHANGED <<run, reader, wire, writer, aux>>
        BY <1>a10 DEF Refuse, Finish, Fail
    <2>2. \E o \in {"ok", "error"} : EndRequest(r, o)
        BY <1>a10 DEF Refuse, Finish, Fail
    <2>3. \A x \in Request : req'[x].sock \in {req[x].sock, Nobody}
        BY <2>2, EndedReq DEF Others, Kept
    <2>4. claim' = [s \in Socket |-> IF claim[s] = r THEN Nobody ELSE claim[s]]
        BY <2>2 DEF EndRequest
    <2>5. retired' \subseteq retired \cup {req[r].sock} /\ open \ {req[r].sock} \subseteq open'
        BY <1>a10 DEF Refuse, Finish, Fail, Fenced
    <2> QED
        BY <2>1, <2>3, <2>4, <2>5
<1>a11. CASE ReleaseSession \/ ReleaseKeys
    <2>1. Detach /\ UNCHANGED <<run, reader, wire, claim, aux>>
        BY <1>a11 DEF ReleaseSession, ReleaseKeys
    <2> QED
        BY <2>1, DetachReq DEF Detach
<1>a12. CASE ReleaseEnds \/ Heartbeat
    BY <1>a12 DEF ReleaseEnds, Heartbeat
<1> QED
    BY <1>a1, <1>a2, <1>a3, <1>a4, <1>a5, <1>a6, <1>a7, <1>a8, <1>a9, <1>a10, <1>a11, <1>a12
       DEF Next, SocketNext, RequestNext


Started(s) == run[s] \notin {"unbound", "elsewhere", "bound"}

\* The reader of a socket begins with its run and ends before it; a socket this
\* side closed has a retired session.
ReaderFollowsRun ==
    \A s \in Socket :
        /\ run[s] = "reading" => reader[s].at # "none"
        /\ run[s] \in {"closing", "done"} => reader[s].at = "done"
        /\ s \notin open => s \in retired

\* The auxiliary session is the writer's; when the writer is gone it is retired.
AuxFollowsWriter ==
    /\ writer # Nobody => aux = writer
    /\ writer = Nobody /\ aux # Nobody => aux \in retired

\* No run captured an epoch of the future, and no two the same one.
EpochsOrdered ==
    /\ \A s \in Socket : runEpoch[s] <= epoch
    /\ \A s, t \in Socket : Started(s) /\ Started(t) /\ runEpoch[s] = runEpoch[t] => s = t

SessionInv == FreshUntouched /\ ReaderFollowsRun /\ AuxFollowsWriter /\ EpochsOrdered

\* A reader lives within its run.
LEMMA ReaderFollows ==
    ASSUME TypeOK, SessionInv, Next
    PROVE  ReaderFollowsRun'
<1> USE DEF TypeOK, RunsOK, SessionsOK, SessionInv, ReaderFollowsRun
<1>a1. ASSUME NEW s \in Socket, Bind(s) \/ BindElsewhere(s) \/ RunCloses(s)
      PROVE  ReaderFollowsRun'
    BY <1>a1 DEF Bind, BindElsewhere, RunCloses
<1>a2. ASSUME NEW s \in Socket, Run(s)
      PROVE  ReaderFollowsRun'
    <2>1. CASE run[s] = "bound" /\ Connected
        BY <1>a2, <2>1 DEF Run, Detach, AuxFollowsWriter
    <2>2. CASE ~(run[s] = "bound" /\ Connected)
        BY <1>a2, <2>2 DEF Run, Install, FramesOK
    <2> QED
        BY <2>1, <2>2
<1>a3. ASSUME NEW s \in Socket, RunWakes(s)
      PROVE  ReaderFollowsRun'
    BY <1>a3 DEF RunWakes, Detach, AuxFollowsWriter
<1>a4. ASSUME NEW s \in Socket, FirstByte(s) \/ FrameEnds(s) \/ ReaderStops(s)
              \/ CancelLands(s)
      PROVE  ReaderFollowsRun'
    <2>1. UNCHANGED <<run, open, retired>>
        BY <1>a4 DEF FirstByte, FrameEnds, ReaderStops, CancelLands, ReaderDone
    <2> QED
        BY <1>a4, <2>1, ReaderAlone, ReaderMoves
<1>a5. ASSUME NEW r \in Request, (\E k \in Kinds : Capture(r, k)) \/ Refuse(r)
              \/ Admit(r) \/ BootAgain(r) \/ BootEnds(r) \/ Write(r) \/ Finish(r)
      PROVE  ReaderFollowsRun'
    BY <1>a5 DEF Capture, Refuse, Admit, BootAgain, BootEnds, Write, Finish
<1>a6. ASSUME NEW r \in Request, Fail(r)
      PROVE  ReaderFollowsRun'
    BY <1>a6 DEF Fail
<1>a7. CASE ReleaseSession \/ ReleaseKeys
    BY <1>a7 DEF ReleaseSession, ReleaseKeys, Detach, AuxFollowsWriter
<1>a8. CASE ReleaseEnds \/ Heartbeat
    BY <1>a8 DEF ReleaseEnds, Heartbeat
<1> QED
    BY <1>a1, <1>a2, <1>a3, <1>a4, <1>a5, <1>a6, <1>a7, <1>a8
       DEF Next, SocketNext, RequestNext

\* The auxiliary session goes with its writer.
LEMMA AuxFollows ==
    ASSUME TypeOK, AuxFollowsWriter, Next
    PROVE  AuxFollowsWriter'
<1> USE DEF TypeOK, SessionsOK, AuxFollowsWriter
<1>a1. ASSUME NEW s \in Socket, Bind(s) \/ BindElsewhere(s) \/ RunCloses(s)
      PROVE  AuxFollowsWriter'
    BY <1>a1 DEF Bind, BindElsewhere, RunCloses
<1>a2. ASSUME NEW s \in Socket, Run(s)
      PROVE  AuxFollowsWriter'
    BY <1>a2 DEF Run, Install, Detach
<1>a3. ASSUME NEW s \in Socket, RunWakes(s)
      PROVE  AuxFollowsWriter'
    BY <1>a3 DEF RunWakes, Detach
<1>a4. ASSUME NEW s \in Socket, FirstByte(s) \/ FrameEnds(s) \/ ReaderStops(s)
              \/ CancelLands(s)
      PROVE  AuxFollowsWriter'
    BY <1>a4 DEF FirstByte, FrameEnds, ReaderStops, CancelLands, ReaderDone
<1>a5. ASSUME NEW r \in Request, (\E k \in Kinds : Capture(r, k)) \/ Refuse(r)
              \/ Admit(r) \/ BootAgain(r) \/ BootEnds(r) \/ Write(r) \/ Finish(r)
              \/ Fail(r)
      PROVE  AuxFollowsWriter'
    BY <1>a5 DEF Capture, Fail, Refuse, Admit, BootAgain, BootEnds, Write, Finish
<1>a6. CASE ReleaseSession \/ ReleaseKeys
    BY <1>a6 DEF ReleaseSession, ReleaseKeys, Detach
<1>a7. CASE ReleaseEnds \/ Heartbeat
    BY <1>a7 DEF ReleaseEnds, Heartbeat
<1> QED
    BY <1>a1, <1>a2, <1>a3, <1>a4, <1>a5, <1>a6, <1>a7
       DEF Next, SocketNext, RequestNext

\* Each run takes an epoch of its own.
LEMMA EpochsStayOrdered ==
    ASSUME TypeOK, EpochsOrdered, Next
    PROVE  EpochsOrdered'
<1> USE DEF TypeOK, RunsOK, EpochsOrdered, Started
<1>a1. ASSUME NEW s \in Socket, Bind(s) \/ BindElsewhere(s) \/ RunCloses(s)
      PROVE  EpochsOrdered'
    BY <1>a1 DEF Bind, BindElsewhere, RunCloses
<1>a2. ASSUME NEW s \in Socket, Run(s)
      PROVE  EpochsOrdered'
    <2>1. run' = [run EXCEPT ![s] = run'[s]] /\ run'[s] \in {"replacing", "reading"}
        BY <1>a2 DEF Run, Install
    <2>2. CASE run[s] = "bound"
        <3>1. epoch' = epoch + 1 /\ runEpoch' = [runEpoch EXCEPT ![s] = epoch + 1]
            BY <1>a2, <2>2 DEF Run
        <3> QED
            BY <2>1, <2>2, <3>1
    <2>3. CASE run[s] # "bound"
        <3>1. UNCHANGED <<epoch, runEpoch>> /\ run[s] = "replacing"
            BY <1>a2, <2>3 DEF Run
        <3> QED
            BY <2>1, <2>3, <3>1
    <2> QED
        BY <2>2, <2>3
<1>a3. ASSUME NEW s \in Socket, RunWakes(s)
      PROVE  EpochsOrdered'
    <2>1. /\ UNCHANGED <<epoch, runEpoch>> /\ run[s] = "reading"
          /\ \E x \in {"closing", "done"} : run' = [run EXCEPT ![s] = x]
        BY <1>a3 DEF RunWakes
    <2> QED
        BY <2>1
<1>a4. ASSUME NEW s \in Socket, FirstByte(s) \/ FrameEnds(s) \/ ReaderStops(s)
              \/ CancelLands(s)
      PROVE  EpochsOrdered'
    BY <1>a4 DEF FirstByte, FrameEnds, ReaderStops, CancelLands, ReaderDone
<1>a5. ASSUME NEW r \in Request, (\E k \in Kinds : Capture(r, k)) \/ Refuse(r)
              \/ Admit(r) \/ BootAgain(r) \/ BootEnds(r) \/ Write(r) \/ Finish(r)
              \/ Fail(r)
      PROVE  EpochsOrdered'
    <2>1. UNCHANGED runVars
        BY <1>a5 DEF Capture, Fail, Refuse, Admit, BootAgain, BootEnds, Write, Finish
    <2> QED
        BY <2>1
<1>a6. CASE ReleaseSession \/ ReleaseKeys
    BY <1>a6 DEF ReleaseSession, ReleaseKeys
<1>a7. CASE ReleaseEnds \/ Heartbeat
    BY <1>a7 DEF ReleaseEnds, Heartbeat
<1> QED
    BY <1>a1, <1>a2, <1>a3, <1>a4, <1>a5, <1>a6, <1>a7
       DEF Next, SocketNext, RequestNext

\* The flag is set for the current session only.
LEMMA BootstrapStaysFresh ==
    ASSUME TypeOK, AuxFollowsWriter, BootstrapIsFresh, Next
    PROVE  BootstrapIsFresh'
<1> USE DEF TypeOK, SessionsOK, BootstrapIsFresh
<1>a1. ASSUME NEW s \in Socket, Bind(s) \/ BindElsewhere(s) \/ RunCloses(s)
      PROVE  BootstrapIsFresh'
    BY <1>a1 DEF Bind, BindElsewhere, RunCloses
<1>a2. ASSUME NEW s \in Socket, Run(s)
      PROVE  BootstrapIsFresh'
    BY <1>a2 DEF Run, Install
<1>a3. ASSUME NEW s \in Socket, RunWakes(s)
      PROVE  BootstrapIsFresh'
    BY <1>a3 DEF RunWakes
<1>a4. ASSUME NEW s \in Socket, FirstByte(s) \/ FrameEnds(s) \/ ReaderStops(s)
              \/ CancelLands(s)
      PROVE  BootstrapIsFresh'
    BY <1>a4 DEF FirstByte, FrameEnds, ReaderStops, CancelLands, ReaderDone
<1>a5. ASSUME NEW r \in Request, (\E k \in Kinds : Capture(r, k)) \/ Refuse(r)
              \/ Admit(r) \/ BootAgain(r) \/ Write(r) \/ Finish(r) \/ Fail(r)
      PROVE  BootstrapIsFresh'
    BY <1>a5 DEF Capture, Fail, Refuse, Admit, BootAgain, Write, Finish
<1>a6. ASSUME NEW r \in Request, BootEnds(r)
      PROVE  BootstrapIsFresh'
    BY <1>a6 DEF BootEnds, BootChecked, OwnerCheck, Connected, AuxFollowsWriter
<1>a7. CASE ReleaseSession \/ ReleaseKeys
    BY <1>a7 DEF ReleaseSession, ReleaseKeys
<1>a8. CASE ReleaseEnds \/ Heartbeat
    BY <1>a8 DEF ReleaseEnds, Heartbeat
<1> QED
    BY <1>a1, <1>a2, <1>a3, <1>a4, <1>a5, <1>a6, <1>a7, <1>a8
       DEF Next, SocketNext, RequestNext


-----------------------------------------------------------------------------
(* Whose socket it is *)

Orderly == Replacing # "overlapping"
Listener == Replacing = "never"

\* One run at a time is between its call and the installation of its socket.
OneStarting ==
    \A s, t \in Socket :
        run[s] \in {"bound", "replacing"} /\ run[t] \in {"bound", "replacing"} => s = t

\* The writer belongs to the run that holds the current epoch, and a run that
\* waits for its predecessor's disconnect is still the latest.
OwnerIsLatest ==
    /\ writer # Nobody => run[writer] = "reading" /\ runEpoch[writer] = epoch
    /\ \A s \in Socket : run[s] = "replacing" => writer = Nobody /\ runEpoch[s] = epoch

\* A reader whose session is not retired reads for the writer.
OnlyOwnerReads ==
    \A s \in Socket : reader[s].at \in {"boundary", "frame"} /\ s \notin retired => writer = s

\* With the listener's rule no run ever replaces one: at most one socket is bound
\* or read, the index knows it as long as a route key leads here, and a release
\* by key leaves no key behind unless the released session is still to wake.
RouteInv ==
    /\ \A s \in Socket : run[s] # "replacing"
    /\ byIp \/ byPn => \A s \in Socket : run[s] \in {"bound", "reading"} => s \in index
    /\ \A s, t \in Socket :
          run[s] \in {"bound", "reading"} /\ run[t] \in {"bound", "reading"} => s = t
    /\ release = "keys" =>
          /\ ~byIp
          /\ byPn => /\ writer = Nobody
                     /\ \E w \in Socket : run[w] = "reading" /\ runEpoch[w] = epoch

ListenerInv == Listener => RouteInv

\* One run starts at a time.
LEMMA StartsOneByOne ==
    ASSUME TypeOK, Orderly, OneStarting, ListenerInv, Next
    PROVE  OneStarting'
<1> USE DEF TypeOK, RunsOK, OneStarting
<1>a1. ASSUME NEW s \in Socket, Bind(s)
      PROVE  OneStarting'
    <2>1. \A t \in Socket : run[t] \notin {"bound", "replacing"}
        BY <1>a1 DEF Bind, MayBind, UnboundPlaceholder, Orderly, ListenerInv, Listener, RouteInv
    <2>2. run' = [run EXCEPT ![s] = "bound"]
        BY <1>a1 DEF Bind
    <2> QED
        BY <2>1, <2>2
<1>a2. ASSUME NEW s \in Socket, BindElsewhere(s) \/ RunWakes(s) \/ RunCloses(s)
      PROVE  OneStarting'
    <2>1. \E x \in {"elsewhere", "closing", "done"} : run' = [run EXCEPT ![s] = x]
        BY <1>a2 DEF BindElsewhere, RunWakes, RunCloses
    <2> QED
        BY <2>1
<1>a3. ASSUME NEW s \in Socket, Run(s)
      PROVE  OneStarting'
    <2>1. run[s] \in {"bound", "replacing"} /\ \E x : run' = [run EXCEPT ![s] = x]
        BY <1>a3 DEF Run, Install
    <2> QED
        BY <2>1
<1>a4. ASSUME NEW s \in Socket, FirstByte(s) \/ FrameEnds(s) \/ ReaderStops(s)
              \/ CancelLands(s)
      PROVE  OneStarting'
    BY <1>a4 DEF FirstByte, FrameEnds, ReaderStops, CancelLands, ReaderDone
<1>a5. ASSUME NEW r \in Request, (\E k \in Kinds : Capture(r, k)) \/ Refuse(r)
              \/ Admit(r) \/ BootAgain(r) \/ BootEnds(r) \/ Write(r) \/ Finish(r)
              \/ Fail(r)
      PROVE  OneStarting'
    BY <1>a5 DEF Capture, Fail, Refuse, Admit, BootAgain, BootEnds, Write, Finish
<1>a6. CASE ReleaseSession \/ ReleaseKeys
    BY <1>a6 DEF ReleaseSession, ReleaseKeys
<1>a7. CASE ReleaseEnds \/ Heartbeat
    BY <1>a7 DEF ReleaseEnds, Heartbeat
<1> QED
    BY <1>a1, <1>a2, <1>a3, <1>a4, <1>a5, <1>a6, <1>a7
       DEF Next, SocketNext, RequestNext

\* The writer is the latest run's.
LEMMA OwnerStaysLatest ==
    ASSUME TypeOK, SessionInv, Orderly, OneStarting, OwnerIsLatest, Next
    PROVE  OwnerIsLatest'
<1> USE DEF TypeOK, RunsOK, SessionsOK, OwnerIsLatest
<1>a1. ASSUME NEW s \in Socket, Bind(s) \/ BindElsewhere(s) \/ RunCloses(s)
      PROVE  OwnerIsLatest'
    BY <1>a1 DEF Bind, BindElsewhere, RunCloses, SessionInv, FreshUntouched, Fresh
<1>a2. ASSUME NEW s \in Socket, Run(s)
      PROVE  OwnerIsLatest'
    <2>1. CASE run[s] = "bound" /\ Connected
        BY <1>a2, <2>1 DEF Run, Detach, OneStarting
    <2>2. CASE run[s] = "bound" /\ ~Connected
        BY <1>a2, <2>2 DEF Run, Install, OneStarting
    <2>3. CASE run[s] = "replacing"
        BY <1>a2, <2>3 DEF Run, Install, OneStarting
    <2> QED
        BY <1>a2, <2>1, <2>2, <2>3 DEF Run
<1>a3. ASSUME NEW s \in Socket, RunWakes(s)
      PROVE  OwnerIsLatest'
    BY <1>a3 DEF RunWakes, Detach, SessionInv, EpochsOrdered, Started
<1>a4. ASSUME NEW s \in Socket, FirstByte(s) \/ FrameEnds(s) \/ ReaderStops(s)
              \/ CancelLands(s)
      PROVE  OwnerIsLatest'
    BY <1>a4 DEF FirstByte, FrameEnds, ReaderStops, CancelLands, ReaderDone
<1>a5. ASSUME NEW r \in Request, (\E k \in Kinds : Capture(r, k)) \/ Refuse(r)
              \/ Admit(r) \/ BootAgain(r) \/ BootEnds(r) \/ Write(r) \/ Finish(r)
              \/ Fail(r)
      PROVE  OwnerIsLatest'
    BY <1>a5 DEF Capture, Fail, Refuse, Admit, BootAgain, BootEnds, Write, Finish
<1>a6. CASE ReleaseSession \/ ReleaseKeys
    BY <1>a6 DEF ReleaseSession, ReleaseKeys, Detach
<1>a7. CASE ReleaseEnds \/ Heartbeat
    BY <1>a7 DEF ReleaseEnds, Heartbeat
<1> QED
    BY <1>a1, <1>a2, <1>a3, <1>a4, <1>a5, <1>a6, <1>a7
       DEF Next, SocketNext, RequestNext

\* Only the writer's reader goes on reading.
LEMMA OwnerStaysReader ==
    ASSUME TypeOK, SessionInv, Orderly, OwnerIsLatest, OnlyOwnerReads, Next
    PROVE  OnlyOwnerReads'
<1> USE DEF TypeOK, RunsOK, SessionsOK, OnlyOwnerReads
<1>a1. ASSUME NEW s \in Socket, Bind(s) \/ BindElsewhere(s) \/ RunCloses(s)
      PROVE  OnlyOwnerReads'
    BY <1>a1 DEF Bind, BindElsewhere, RunCloses
<1>a2. ASSUME NEW s \in Socket, Run(s)
      PROVE  OnlyOwnerReads'
    <2>1. CASE run[s] = "bound" /\ Connected
        BY <1>a2, <2>1 DEF Run, Detach, SessionInv, AuxFollowsWriter
    <2>2. CASE ~(run[s] = "bound" /\ Connected)
        <3>1. \A t \in Socket : ~(reader[t].at \in {"boundary", "frame"} /\ t \notin retired)
            BY <1>a2, <2>2 DEF Run, Connected, SessionInv, ReaderFollowsRun, OwnerIsLatest
        <3>2. writer' = s /\ retired' = retired /\ \A t \in Socket : t # s => reader'[t] = reader[t]
            BY <1>a2, <2>2 DEF Run, Install, FramesOK
        <3> QED
            BY <3>1, <3>2
    <2> QED
        BY <2>1, <2>2
<1>a3. ASSUME NEW s \in Socket, RunWakes(s)
      PROVE  OnlyOwnerReads'
    BY <1>a3 DEF RunWakes, Detach, SessionInv, AuxFollowsWriter
<1>a4. ASSUME NEW s \in Socket, FirstByte(s) \/ FrameEnds(s) \/ ReaderStops(s)
              \/ CancelLands(s)
      PROVE  OnlyOwnerReads'
    <2>1. /\ UNCHANGED <<writer, retired>>
          /\ reader[s].at \in {"boundary", "frame"}
        BY <1>a4 DEF FirstByte, FrameEnds, ReaderStops, CancelLands, ReaderDone
    <2> QED
        BY <1>a4, <2>1, ReaderAlone
<1>a5. ASSUME NEW r \in Request, (\E k \in Kinds : Capture(r, k)) \/ Refuse(r)
              \/ Admit(r) \/ BootAgain(r) \/ BootEnds(r) \/ Write(r) \/ Finish(r)
              \/ Fail(r)
      PROVE  OnlyOwnerReads'
    BY <1>a5 DEF Capture, Fail, Refuse, Admit, BootAgain, BootEnds, Write, Finish
<1>a6. CASE ReleaseSession \/ ReleaseKeys
    BY <1>a6 DEF ReleaseSession, ReleaseKeys, Detach, SessionInv, AuxFollowsWriter
<1>a7. CASE ReleaseEnds \/ Heartbeat
    BY <1>a7 DEF ReleaseEnds, Heartbeat
<1> QED
    BY <1>a1, <1>a2, <1>a3, <1>a4, <1>a5, <1>a6, <1>a7
       DEF Next, SocketNext, RequestNext

\* The listener's rule keeps sockets apart.
LEMMA RoutesStay ==
    ASSUME TypeOK, SessionInv, Listener, OneStarting, OwnerIsLatest, RouteInv, Next
    PROVE  RouteInv'
<1> USE DEF TypeOK, RunsOK, SessionsOK, RouteInv
<1>a1. ASSUME NEW s \in Socket, Bind(s)
      PROVE  RouteInv'
    <2>1. /\ \A t \in Socket : run[t] \notin {"bound", "reading"} /\ release # "keys"
          /\ index' = {s} /\ run' = [run EXCEPT ![s] = "bound"] /\ release' = release
        BY <1>a1 DEF Bind, MayBind, UnboundPlaceholder, Listener
    <2> QED
        BY <2>1
<1>a2. ASSUME NEW s \in Socket, BindElsewhere(s)
      PROVE  RouteInv'
    <2>1. /\ run' = [run EXCEPT ![s] = "elsewhere"] /\ run[s] = "unbound"
          /\ UNCHANGED <<index, release, writer, epoch, runEpoch>>
          /\ (~byIp' /\ byPn' = byPn) \/ (~byPn' /\ byIp' = byIp)
        BY <1>a2 DEF BindElsewhere
    <2> QED
        BY <2>1
<1>a3. ASSUME NEW s \in Socket, Run(s)
      PROVE  RouteInv'
    <2>1. run[s] = "bound" /\ ~Connected
        BY <1>a3 DEF Run, Connected, OwnerIsLatest
    <2>2. /\ run' = [run EXCEPT ![s] = "reading"] /\ UNCHANGED <<index, byIp, byPn, release>>
        BY <1>a3, <2>1 DEF Run, Install
    <2>3. ~(release = "keys" /\ byPn)
        BY <2>1
    <2> QED
        BY <2>1, <2>2, <2>3
<1>a4. ASSUME NEW s \in Socket, RunWakes(s)
      PROVE  RouteInv'
    <2>1. /\ run[s] = "reading" /\ UNCHANGED <<epoch, runEpoch, release>>
          /\ \E x \in {"closing", "done"} : run' = [run EXCEPT ![s] = x]
        BY <1>a4 DEF RunWakes
    <2>2. \A t \in Socket : run'[t] \notin {"bound", "reading", "replacing"}
        BY <2>1
    <2>3. release = "keys" => ~byIp' /\ ~byPn'
        BY <1>a4 DEF RunWakes, DropIndexes
    <2> QED
        BY <2>1, <2>2, <2>3
<1>a5. ASSUME NEW s \in Socket, RunCloses(s)
      PROVE  RouteInv'
    <2>1. /\ run[s] = "closing" /\ run' = [run EXCEPT ![s] = "done"]
          /\ UNCHANGED <<epoch, runEpoch, release, writer>>
          /\ UNCHANGED <<index, byIp, byPn>> \/ (~byIp' /\ ~byPn')
        BY <1>a5 DEF RunCloses, DropIndexes
    <2> QED
        BY <2>1
<1>a6. ASSUME NEW s \in Socket, FirstByte(s) \/ FrameEnds(s) \/ ReaderStops(s)
              \/ CancelLands(s)
      PROVE  RouteInv'
    <2>1. UNCHANGED <<run, runEpoch, epoch, index, byIp, byPn, release, writer>>
        BY <1>a6 DEF FirstByte, FrameEnds, ReaderStops, CancelLands, ReaderDone
    <2> QED
        BY <2>1
<1>a7. ASSUME NEW r \in Request, (\E k \in Kinds : Capture(r, k)) \/ Refuse(r)
              \/ Admit(r) \/ BootAgain(r) \/ BootEnds(r) \/ Write(r) \/ Finish(r)
              \/ Fail(r)
      PROVE  RouteInv'
    <2>1. UNCHANGED <<run, runEpoch, epoch, index, byIp, byPn, release, writer>>
        BY <1>a7 DEF Capture, Fail, Refuse, Admit, BootAgain, BootEnds, Write, Finish
    <2> QED
        BY <2>1
<1>a8. CASE ReleaseSession
    <2>1. /\ UNCHANGED <<run, runEpoch, epoch>> /\ release' \in {"none", "session"}
          /\ UNCHANGED <<index, byIp, byPn>> \/ (~byIp' /\ ~byPn')
        BY <1>a8 DEF ReleaseSession, DropIndexes
    <2> QED
        BY <2>1
<1>a9. CASE ReleaseKeys
    <2>1. UNCHANGED <<run, runEpoch, epoch>> /\ ~byIp' /\ writer' = Nobody /\ byIp
        BY <1>a9 DEF ReleaseKeys, Detach
    <2>2. CASE writer = Nobody
        <3>1. ~byPn' /\ release' = "none"
            BY <1>a9, <2>2 DEF ReleaseKeys
        <3> QED
            BY <2>1, <3>1
    <2>3. CASE writer # Nobody
        <3>1. byPn' = byPn /\ index' = index /\ run[writer] = "reading" /\ runEpoch[writer] = epoch
            BY <1>a9, <2>3 DEF ReleaseKeys, OwnerIsLatest
        <3> QED
            BY <2>1, <2>3, <3>1
    <2> QED
        BY <2>2, <2>3
<1>a10. CASE ReleaseEnds
    <2>1. UNCHANGED runVars /\ release' = "none" /\ ~byPn' /\ ~byIp'
        BY <1>a10 DEF ReleaseEnds
    <2> QED
        BY <2>1
<1>a11. CASE Heartbeat
    <2>1. UNCHANGED <<run, runEpoch, epoch, index, byIp, byPn, release, writer>>
        BY <1>a11 DEF Heartbeat
    <2> QED
        BY <2>1
<1> QED
    BY <1>a1, <1>a2, <1>a3, <1>a4, <1>a5, <1>a6, <1>a7, <1>a8, <1>a9, <1>a10, <1>a11
       DEF Next, SocketNext, RequestNext


-----------------------------------------------------------------------------
(* Whose reply it is *)

\* What stands in a slot is a call of the slot's kind, at the stage that waits
\* for it; a claim is that of a call on its own socket.
SlotsOwned ==
    /\ \A t \in Tid : pending[t] # Nobody =>
          /\ req[pending[t]].kind = "framed" /\ req[pending[t]].tid = t
          /\ req[pending[t]].at \in {"held", "sent"}
    /\ atSlot # Nobody =>
          \/ req[atSlot].kind = "at" /\ req[atSlot].at \in {"held", "sent"}
          \/ req[atSlot].kind = "raw" /\ req[atSlot].at \in {"boot", "boot2"}
    /\ rawSlot # Nobody => req[rawSlot].kind = "raw" /\ req[rawSlot].at \in {"held", "sent"}
    /\ \A s \in Socket : claim[s] # Nobody =>
          /\ req[claim[s]].kind = "aux" /\ req[claim[s]].at = "sent"
          /\ req[claim[s]].sock = s

\* An unresolved future is in the slot of its kind, where a disconnect finds it.
PendingInSlot ==
    \A r \in Request : req[r].future = "pending" =>
        /\ req[r].kind = "framed" => pending[req[r].tid] = r
        /\ req[r].kind = "at" => atSlot = r
        /\ req[r].kind = "raw" => r = IF req[r].at \in {"held", "sent"} THEN rawSlot ELSE atSlot
        /\ req[r].kind = "aux" => req[r].at = "sent" /\ claim[req[r].sock] = r

\* The slots hold calls of their kind.
LEMMA SlotsStayOwned ==
    ASSUME TypeOK, RequestsAimed, SlotsOwned, Next
    PROVE  SlotsOwned'
<1> USE DEF TypeOK, RequestsOK, SessionsOK, SlotsOwned
<1>a1. ASSUME NEW s \in Socket, Bind(s) \/ BindElsewhere(s) \/ RunCloses(s)
      PROVE  SlotsOwned'
    <2>1. UNCHANGED <<req, pending, atSlot, rawSlot, claim>>
        BY <1>a1 DEF Bind, BindElsewhere, RunCloses
    <2> QED
        BY <2>1
<1>a2. ASSUME NEW s \in Socket, Run(s) \/ RunWakes(s)
      PROVE  SlotsOwned'
    <2>1. CASE Detach
        <3>1. claim' = claim
            BY <1>a2 DEF Run, RunWakes, Install
        <3> QED
            BY <2>1, <3>1, DetachReq DEF Detach
    <2>2. CASE ~Detach
        <3>1. UNCHANGED <<req, pending, atSlot, rawSlot, claim>>
            BY <1>a2, <2>2 DEF Run, RunWakes, Install
        <3> QED
            BY <3>1
    <2> QED
        BY <2>1, <2>2
<1>a3. ASSUME NEW s \in Socket, FirstByte(s) \/ ReaderStops(s) \/ CancelLands(s)
      PROVE  SlotsOwned'
    <2>1. UNCHANGED <<req, pending, atSlot, rawSlot, claim>>
        BY <1>a3 DEF FirstByte, ReaderStops, CancelLands, ReaderDone
    <2> QED
        BY <2>1
<1>a4. ASSUME NEW s \in Socket, FrameEnds(s)
      PROVE  SlotsOwned'
    <2>1. UNCHANGED <<pending, atSlot, rawSlot, claim>>
        BY <1>a4 DEF FrameEnds
    <2>2. \A x \in Request : SameCall(x)
        BY <1>a4, FrameDoes DEF Others, SameCall
    <2> QED
        BY <2>1, <2>2 DEF SameCall
<1>a5. ASSUME NEW r \in Request, NEW k \in Kinds, Capture(r, k)
      PROVE  SlotsOwned'
    <2>1. UNCHANGED <<pending, atSlot, rawSlot, claim>>
        BY <1>a5 DEF Capture
    <2> QED
        BY <1>a5, <2>1, CaptureDoes DEF Others
<1>a6. ASSUME NEW r \in Request, Admit(r)
      PROVE  SlotsOwned'
    <2>1. claim' = claim /\ Others(r) /\ Kept(r) /\ req[r].at = "queued"
        BY <1>a6, AdmitDoes DEF Admit
    <2>2. CASE req[r].kind = "framed"
        <3>1. UNCHANGED <<atSlot, rawSlot>> /\ pending' = [pending EXCEPT ![NextTid] = r]
            BY <1>a6, <2>2 DEF Admit, AdmitFramed, AdmitAt, AdmitRaw, AdmitAux
        <3>2. req'[r].tid = NextTid /\ req'[r].at = "held"
            BY <1>a6, <2>2, AdmitDoes
        <3> QED
            BY <2>1, <2>2, <3>1, <3>2, NextTidType DEF Others, Kept
    <2>3. CASE req[r].kind = "at"
        <3>1. UNCHANGED <<pending, rawSlot>> /\ atSlot' = r
            BY <1>a6, <2>3 DEF Admit, AdmitFramed, AdmitAt, AdmitRaw, AdmitAux
        <3>2. req'[r].at = "held"
            BY <1>a6, <2>3, AdmitDoes
        <3> QED
            BY <2>1, <2>3, <3>1, <3>2 DEF Others, Kept
    <2>4. CASE req[r].kind = "raw"
        <3>1. pending' = pending /\ AdmitRaw(r)
            BY <1>a6, <2>4 DEF Admit, AdmitFramed, AdmitAt, AdmitRaw, AdmitAux
        <3>2. IF booted THEN req'[r].at = "held" /\ rawSlot' = r /\ atSlot' = atSlot
                        ELSE req'[r].at = "boot" /\ atSlot' = r /\ rawSlot' = rawSlot
            BY <1>a6, <2>4, <3>1, AdmitDoes DEF AdmitRaw
        <3> QED
            BY <2>1, <2>4, <3>1, <3>2 DEF Others, Kept
    <2>5. CASE req[r].kind = "aux"
        <3>1. UNCHANGED <<pending, atSlot, rawSlot>>
            BY <1>a6, <2>5 DEF Admit, AdmitFramed, AdmitAt, AdmitRaw, AdmitAux
        <3> QED
            BY <2>1, <2>5, <3>1 DEF Others, Kept
    <2> QED
        BY <1>a6, <2>2, <2>3, <2>4, <2>5, AdmitDoes
<1>a7. ASSUME NEW r \in Request, BootAgain(r)
      PROVE  SlotsOwned'
    <2>1. UNCHANGED <<pending, rawSlot, claim>> /\ atSlot' = r
        BY <1>a7 DEF BootAgain
    <2>2. req[r].kind = "raw"
        BY <1>a7 DEF BootAgain, RequestsAimed
    <2> QED
        BY <1>a7, <2>1, <2>2, BootDoes DEF Others, Kept
<1>a8. ASSUME NEW r \in Request, BootEnds(r)
      PROVE  SlotsOwned'
    <2>1. /\ UNCHANGED <<pending, claim>> /\ rawSlot' = r
          /\ atSlot' = IF atSlot = r THEN Nobody ELSE atSlot
        BY <1>a8 DEF BootEnds
    <2>2. req[r].kind = "raw"
        BY <1>a8 DEF BootEnds, RequestsAimed
    <2> QED
        BY <1>a8, <2>1, <2>2, BootDoes DEF Others, Kept
<1>a9. ASSUME NEW r \in Request, Write(r)
      PROVE  SlotsOwned'
    <2>1. /\ UNCHANGED slotVars
          /\ claim' = IF req[r].kind = "aux" THEN [claim EXCEPT ![req[r].sock] = r] ELSE claim
        BY <1>a9 DEF Write
    <2>2. req[r].sock \in Socket
        BY <1>a9 DEF Write, RequestsAimed, Active
    <2> QED
        BY <1>a9, <2>1, <2>2, WriteDoes DEF Others, Kept
<1>a10. ASSUME NEW r \in Request, Refuse(r) \/ Finish(r) \/ Fail(r)
      PROVE  SlotsOwned'
    <2>1. \E o \in {"ok", "error"} : EndRequest(r, o)
        BY <1>a10 DEF Refuse, Finish, Fail
    <2>2. Others(r)
        BY <2>1, EndedReq
    <2>3. /\ pending' = [t \in Tid |-> IF pending[t] = r THEN Nobody ELSE pending[t]]
          /\ atSlot' = IF atSlot = r THEN Nobody ELSE atSlot
          /\ rawSlot' = IF rawSlot = r THEN Nobody ELSE rawSlot
          /\ claim' = [s \in Socket |-> IF claim[s] = r THEN Nobody ELSE claim[s]]
        BY <2>1 DEF EndRequest
    <2> QED
        BY <2>2, <2>3 DEF Others
<1>a11. CASE ReleaseSession \/ ReleaseKeys
    <2>1. Detach /\ claim' = claim
        BY <1>a11 DEF ReleaseSession, ReleaseKeys
    <2> QED
        BY <2>1, DetachReq DEF Detach
<1>a12. CASE ReleaseEnds \/ Heartbeat
    <2>1. UNCHANGED <<req, pending, atSlot, rawSlot, claim>>
        BY <1>a12 DEF ReleaseEnds, Heartbeat
    <2> QED
        BY <2>1
<1> QED
    BY <1>a1, <1>a2, <1>a3, <1>a4, <1>a5, <1>a6, <1>a7, <1>a8, <1>a9, <1>a10, <1>a11, <1>a12
       DEF Next, SocketNext, RequestNext

\* A call that holds the lock has one of the four kinds.
LEMMA RequestKinds ==
    ASSUME TypeOK, RequestsAimed, NEW r \in Request, req[r].future = "pending"
    PROVE  req[r].kind \in {"framed", "at", "raw", "aux"} /\ req[r].tid \in Tid
    BY DEF TypeOK, RequestsOK, RequestRecord, RequestsAimed, Active

\* A future that is awaited stays where a disconnect finds it.
LEMMA PendingStaysInSlot ==
    ASSUME TypeOK, RequestsAimed, SlotsOwned, PendingInSlot, Next
    PROVE  PendingInSlot'
<1> USE DEF TypeOK, RequestsOK, SessionsOK, RequestsAimed, Active, PendingInSlot
<1>a1. ASSUME NEW s \in Socket, Bind(s) \/ BindElsewhere(s) \/ RunCloses(s)
      PROVE  PendingInSlot'
    <2>1. UNCHANGED <<req, pending, atSlot, rawSlot, claim>>
        BY <1>a1 DEF Bind, BindElsewhere, RunCloses
    <2> QED
        BY <2>1
<1>a2. ASSUME NEW s \in Socket, Run(s) \/ RunWakes(s)
      PROVE  PendingInSlot'
    <2>1. CASE Detach
        <3>1. claim' = claim
            BY <1>a2 DEF Run, RunWakes, Install
        <3>2. \A x \in Request : req'[x].future = "pending" => req[x].kind = "aux"
            BY <2>1, DetachReq, RequestKinds DEF Detached
        <3> QED
            BY <2>1, <3>1, <3>2, DetachReq
    <2>2. CASE ~Detach
        <3>1. UNCHANGED <<req, pending, atSlot, rawSlot, claim>>
            BY <1>a2, <2>2 DEF Run, RunWakes, Install
        <3> QED
            BY <3>1
    <2> QED
        BY <2>1, <2>2
<1>a3. ASSUME NEW s \in Socket, FirstByte(s) \/ ReaderStops(s) \/ CancelLands(s)
      PROVE  PendingInSlot'
    <2>1. UNCHANGED <<req, pending, atSlot, rawSlot, claim>>
        BY <1>a3 DEF FirstByte, ReaderStops, CancelLands, ReaderDone
    <2> QED
        BY <2>1
<1>a4. ASSUME NEW s \in Socket, FrameEnds(s)
      PROVE  PendingInSlot'
    <2>1. UNCHANGED <<pending, atSlot, rawSlot, claim>>
        BY <1>a4 DEF FrameEnds
    <2>2. \A x \in Request : req'[x].future = "pending" => req'[x] = req[x]
        BY <1>a4, FrameDoes DEF Others
    <2> QED
        BY <2>1, <2>2
<1>a5. ASSUME NEW r \in Request, NEW k \in Kinds, Capture(r, k)
      PROVE  PendingInSlot'
    <2>1. UNCHANGED <<pending, atSlot, rawSlot, claim>>
        BY <1>a5 DEF Capture
    <2> QED
        BY <1>a5, <2>1, CaptureDoes DEF Others
<1>a6. ASSUME NEW r \in Request, Admit(r)
      PROVE  PendingInSlot'
    <2>1. /\ claim' = claim /\ Others(r) /\ Kept(r) /\ req[r].at = "queued"
          /\ \A x \in Request : req[x].future # "pending"
        BY <1>a6, AdmitDoes DEF Admit
    <2>2. CASE req[r].kind = "framed"
        <3>1. pending' = [pending EXCEPT ![NextTid] = r]
            BY <1>a6, <2>2 DEF Admit, AdmitFramed, AdmitAt, AdmitRaw, AdmitAux
        <3>2. req'[r].tid = NextTid
            BY <1>a6, <2>2, AdmitDoes
        <3> QED
            BY <2>1, <2>2, <3>1, <3>2, NextTidType DEF Others, Kept
    <2>3. CASE req[r].kind = "at"
        <3>1. atSlot' = r
            BY <1>a6, <2>3 DEF Admit, AdmitFramed, AdmitAt, AdmitRaw, AdmitAux
        <3> QED
            BY <2>1, <2>3, <3>1 DEF Others, Kept
    <2>4. CASE req[r].kind = "raw"
        <3>1. AdmitRaw(r)
            BY <1>a6, <2>4 DEF Admit, AdmitFramed, AdmitAt, AdmitAux
        <3>2. IF booted THEN req'[r].at = "held" /\ rawSlot' = r
                        ELSE req'[r].at = "boot" /\ atSlot' = r
            BY <1>a6, <2>4, <3>1, AdmitDoes DEF AdmitRaw
        <3> QED
            BY <2>1, <2>4, <3>2 DEF Others, Kept
    <2>5. CASE req[r].kind = "aux"
        <3>1. req'[r].future # "pending"
            BY <1>a6, <2>1, <2>5, AdmitDoes
        <3> QED
            BY <2>1, <3>1 DEF Others
    <2> QED
        BY <1>a6, <2>2, <2>3, <2>4, <2>5, AdmitDoes
<1>a7. ASSUME NEW r \in Request, BootAgain(r)
      PROVE  PendingInSlot'
    <2>1. atSlot' = r /\ req[r].at = "boot"
        BY <1>a7 DEF BootAgain
    <2>2. Others(r) /\ Kept(r) /\ req'[r].at = "boot2"
        BY <1>a7, BootDoes
    <2> QED
        BY <2>1, <2>2 DEF Others, Kept
<1>a8. ASSUME NEW r \in Request, BootEnds(r)
      PROVE  PendingInSlot'
    <2>1. rawSlot' = r /\ req[r].at \in {"boot", "boot2"}
        BY <1>a8 DEF BootEnds
    <2>2. Others(r) /\ Kept(r) /\ req'[r].at = "held"
        BY <1>a8, BootDoes
    <2> QED
        BY <2>1, <2>2 DEF Others, Kept
<1>a9. ASSUME NEW r \in Request, Write(r)
      PROVE  PendingInSlot'
    <2>1. /\ UNCHANGED slotVars
          /\ claim' = IF req[r].kind = "aux" THEN [claim EXCEPT ![req[r].sock] = r] ELSE claim
        BY <1>a9 DEF Write
    <2>2. req[r].sock \in Socket /\ req[r].at = "held"
        BY <1>a9 DEF Write
    <2> QED
        BY <1>a9, <2>1, <2>2, WriteDoes DEF Others, Kept
<1>a10. ASSUME NEW r \in Request, Refuse(r) \/ Finish(r) \/ Fail(r)
      PROVE  PendingInSlot'
    <2>1. \E o \in {"ok", "error"} : EndRequest(r, o)
        BY <1>a10 DEF Refuse, Finish, Fail
    <2>2. Others(r) /\ req'[r].future = "none" /\ req'[r].at \in {"ok", "error"}
        BY <2>1, EndedReq
    <2>3. /\ pending' = [t \in Tid |-> IF pending[t] = r THEN Nobody ELSE pending[t]]
          /\ atSlot' = IF atSlot = r THEN Nobody ELSE atSlot
          /\ rawSlot' = IF rawSlot = r THEN Nobody ELSE rawSlot
          /\ claim' = [s \in Socket |-> IF claim[s] = r THEN Nobody ELSE claim[s]]
        BY <2>1 DEF EndRequest
    <2>4. \A x \in Request : req[x].tid \in Tid
        BY DEF RequestRecord
    <2> QED
        BY <2>2, <2>3, <2>4 DEF Others
<1>a11. CASE ReleaseSession \/ ReleaseKeys
    <2>1. Detach /\ claim' = claim
        BY <1>a11 DEF ReleaseSession, ReleaseKeys
    <2>2. \A x \in Request : req'[x].future = "pending" => req[x].kind = "aux"
        BY <2>1, DetachReq, RequestKinds DEF Detached
    <2> QED
        BY <2>1, <2>2, DetachReq
<1>a12. CASE ReleaseEnds \/ Heartbeat
    <2>1. UNCHANGED <<req, pending, atSlot, rawSlot, claim>>
        BY <1>a12 DEF ReleaseEnds, Heartbeat
    <2> QED
        BY <2>1
<1> QED
    BY <1>a1, <1>a2, <1>a3, <1>a4, <1>a5, <1>a6, <1>a7, <1>a8, <1>a9, <1>a10, <1>a11, <1>a12
       DEF Next, SocketNext, RequestNext

\* With the listener's rule a disconnect fails every future that is awaited.
LEMMA DetachFailsAll ==
    ASSUME TypeOK, RequestsAimed, PendingInSlot, AuxFollowsWriter, NoOrphanedWait, Detach
    PROVE  \A x \in Request : req'[x].future # "pending"
<1> SUFFICES ASSUME NEW x \in Request, req[x].future = "pending"
             PROVE  x \in Detached
    BY DetachReq
<1>1. /\ req[x].sock \in Socket /\ req[x].sock = writer /\ aux = writer
      /\ req[x].kind \in {"framed", "at", "raw", "aux"} /\ req[x].tid \in Tid
    BY RequestKinds DEF RequestsAimed, Active, NoOrphanedWait, AuxFollowsWriter, TypeOK,
       RequestsOK, RequestRecord
<1> QED
    BY <1>1 DEF Detached, PendingInSlot

\* Only calls of the current socket wait.
LEMMA NobodyIsOrphaned ==
    ASSUME TypeOK, RequestsAimed, PendingInSlot, SessionInv, Listener, OneStarting,
           OwnerIsLatest, OnlyOwnerReads, RouteInv, NoOrphanedWait, Next
    PROVE  NoOrphanedWait'
<1> USE DEF TypeOK, RequestsAimed, Active, SessionInv, NoOrphanedWait
<1>a1. ASSUME NEW s \in Socket, Bind(s) \/ BindElsewhere(s) \/ RunCloses(s)
      PROVE  NoOrphanedWait'
    <2>1. UNCHANGED <<req, writer>>
        BY <1>a1 DEF Bind, BindElsewhere, RunCloses
    <2> QED
        BY <2>1
<1>a2. ASSUME NEW s \in Socket, Run(s)
      PROVE  NoOrphanedWait'
    <2>1. run[s] = "bound" /\ writer = Nobody
        BY <1>a2 DEF Run, OwnerIsLatest, RouteInv, RunsOK, SessionsOK
    <2>2. req' = req
        BY <1>a2, <2>1 DEF Run, Connected
    <2> QED
        BY <2>1, <2>2
<1>a3. ASSUME NEW s \in Socket, RunWakes(s)
      PROVE  NoOrphanedWait'
    <2>1. Detach \/ UNCHANGED <<req, writer>>
        BY <1>a3 DEF RunWakes
    <2> QED
        BY <2>1, DetachFailsAll
<1>a4. ASSUME NEW s \in Socket, FirstByte(s) \/ ReaderStops(s) \/ CancelLands(s)
      PROVE  NoOrphanedWait'
    <2>1. UNCHANGED <<req, writer>>
        BY <1>a4 DEF FirstByte, ReaderStops, CancelLands, ReaderDone
    <2> QED
        BY <2>1
<1>a5. ASSUME NEW s \in Socket, FrameEnds(s)
      PROVE  NoOrphanedWait'
    <2>1. writer' = writer
        BY <1>a5 DEF FrameEnds
    <2> QED
        BY <1>a5, <2>1, FrameDoes DEF Others, SameCall
<1>a6. ASSUME NEW r \in Request, NEW k \in Kinds, Capture(r, k)
      PROVE  NoOrphanedWait'
    <2>1. writer' = writer
        BY <1>a6 DEF Capture
    <2> QED
        BY <1>a6, <2>1, CaptureDoes DEF Others
<1>a7. ASSUME NEW r \in Request, Admit(r)
      PROVE  NoOrphanedWait'
    <2>1. writer' = writer
        BY <1>a7 DEF Admit
    <2> QED
        BY <1>a7, <2>1, AdmitDoes DEF Others, Kept, OwnerCheck
<1>a8. ASSUME NEW r \in Request, BootAgain(r) \/ BootEnds(r)
      PROVE  NoOrphanedWait'
    <2>1. writer' = writer
        BY <1>a8 DEF BootAgain, BootEnds
    <2> QED
        BY <1>a8, <2>1, BootDoes DEF Others, Kept, OwnerCheck
<1>a9. ASSUME NEW r \in Request, Write(r)
      PROVE  NoOrphanedWait'
    <2>1. writer' = writer /\ req[r].sock \in Socket
        BY <1>a9 DEF Write
    <2>2. req[r].kind = "aux" => writer = req[r].sock
        BY <1>a9, <2>1 DEF Write, MayWrite, OnlyOwnerReads
    <2> QED
        BY <1>a9, <2>1, <2>2, WriteDoes DEF Others, Kept
<1>a10. ASSUME NEW r \in Request, Refuse(r) \/ Finish(r) \/ Fail(r)
      PROVE  NoOrphanedWait'
    <2>1. \E o \in {"ok", "error"} : EndRequest(r, o)
        BY <1>a10 DEF Refuse, Finish, Fail
    <2>2. Others(r) /\ req'[r].future = "none" /\ req'[r].at \in {"ok", "error"}
        BY <2>1, EndedReq
    <2>3. writer' = writer
        BY <1>a10 DEF Refuse, Finish, Fail
    <2> QED
        BY <2>2, <2>3 DEF Others
<1>a11. CASE ReleaseSession \/ ReleaseKeys
    <2>1. Detach
        BY <1>a11 DEF ReleaseSession, ReleaseKeys
    <2> QED
        BY <2>1, DetachFailsAll
<1>a12. CASE ReleaseEnds \/ Heartbeat
    <2>1. UNCHANGED <<req, writer>>
        BY <1>a12 DEF ReleaseEnds, Heartbeat
    <2> QED
        BY <2>1
<1> QED
    BY <1>a1, <1>a2, <1>a3, <1>a4, <1>a5, <1>a6, <1>a7, <1>a8, <1>a9, <1>a10, <1>a11, <1>a12
       DEF Next, SocketNext, RequestNext

\* A call under way holds the epoch of its socket's run; a reply it got while that
\* epoch is the current one came on its socket.
EpochCaptured ==
    \A r \in Request :
        req[r].at \in Active \cup {"queued"} => runEpoch[req[r].sock] = req[r].epoch
AnsweredHere ==
    \A r \in Request :
        req[r].future = "set" /\ req[r].epoch = epoch => req[r].answer[2] = req[r].sock

ReplyInv == EpochCaptured /\ AnsweredHere /\ ReplyOnOwnSocket

\* A call keeps the epoch it captured.
LEMMA EpochStaysCaptured ==
    ASSUME TypeOK, RequestsAimed, SessionInv, OwnerIsLatest, EpochCaptured, Next
    PROVE  EpochCaptured'
<1> USE DEF TypeOK, RequestsAimed, Active, EpochCaptured
<1>a1. ASSUME NEW s \in Socket, Bind(s) \/ BindElsewhere(s) \/ RunCloses(s)
      PROVE  EpochCaptured'
    <2>1. UNCHANGED <<req, runEpoch, epoch>>
        BY <1>a1 DEF Bind, BindElsewhere, RunCloses
    <2> QED
        BY <2>1
<1>a2. ASSUME NEW s \in Socket, Run(s)
      PROVE  EpochCaptured'
    <2>1. \A x \in Request : SameCall(x)
        BY <1>a2, DetachReq DEF Run, SameCall
    <2>2. \/ runEpoch' = runEpoch
          \/ (run[s] = "bound" /\ \A t \in Socket : t # s => runEpoch'[t] = runEpoch[t])
        BY <1>a2 DEF Run, RunsOK
    <2> QED
        BY <2>1, <2>2 DEF SameCall, SessionInv, FreshUntouched, Fresh
<1>a3. ASSUME NEW s \in Socket, RunWakes(s)
      PROVE  EpochCaptured'
    <2>1. (\A x \in Request : SameCall(x)) /\ runEpoch' = runEpoch
        BY <1>a3, DetachReq DEF RunWakes, SameCall
    <2> QED
        BY <2>1 DEF SameCall
<1>a4. ASSUME NEW s \in Socket, FirstByte(s) \/ ReaderStops(s) \/ CancelLands(s)
      PROVE  EpochCaptured'
    <2>1. UNCHANGED <<req, runEpoch, epoch>>
        BY <1>a4 DEF FirstByte, ReaderStops, CancelLands, ReaderDone
    <2> QED
        BY <2>1
<1>a5. ASSUME NEW s \in Socket, FrameEnds(s)
      PROVE  EpochCaptured'
    <2>1. runEpoch' = runEpoch
        BY <1>a5 DEF FrameEnds
    <2>2. \/ req' = req
          \/ \E y \in Request : Others(y) /\ SameCall(y)
        BY <1>a5, FrameDoes
    <2>3. ASSUME NEW x \in Request
          PROVE  SameCall(x)
        BY <2>2 DEF SameCall, Others
    <2> QED
        BY <2>1, <2>3 DEF SameCall
<1>a6. ASSUME NEW r \in Request, NEW k \in Kinds, Capture(r, k)
      PROVE  EpochCaptured'
    <2>1. runEpoch' = runEpoch
        BY <1>a6 DEF Capture
    <2> QED
        BY <1>a6, <2>1, CaptureDoes DEF Others, OwnerIsLatest, SessionsOK
<1>a7. ASSUME NEW r \in Request, Admit(r)
      PROVE  EpochCaptured'
    <2>1. runEpoch' = runEpoch
        BY <1>a7 DEF Admit
    <2> QED
        BY <1>a7, <2>1, AdmitDoes DEF Others, Kept
<1>a8. ASSUME NEW r \in Request, BootAgain(r) \/ BootEnds(r)
      PROVE  EpochCaptured'
    <2>1. runEpoch' = runEpoch
        BY <1>a8 DEF BootAgain, BootEnds
    <2> QED
        BY <1>a8, <2>1, BootDoes DEF Others, Kept
<1>a9. ASSUME NEW r \in Request, Write(r)
      PROVE  EpochCaptured'
    <2>1. runEpoch' = runEpoch
        BY <1>a9 DEF Write
    <2> QED
        BY <1>a9, <2>1, WriteDoes DEF Others, Kept
<1>a10. ASSUME NEW r \in Request, Refuse(r) \/ Finish(r) \/ Fail(r)
      PROVE  EpochCaptured'
    <2>1. \E o \in {"ok", "error"} : EndRequest(r, o)
        BY <1>a10 DEF Refuse, Finish, Fail
    <2>2. Others(r) /\ req'[r].future = "none" /\ req'[r].at \in {"ok", "error"}
        BY <2>1, EndedReq
    <2>3. runEpoch' = runEpoch
        BY <1>a10 DEF Refuse, Finish, Fail
    <2> QED
        BY <2>2, <2>3 DEF Others
<1>a11. CASE ReleaseSession \/ ReleaseKeys
    <2>1. (\A x \in Request : SameCall(x)) /\ runEpoch' = runEpoch
        BY <1>a11, DetachReq DEF ReleaseSession, ReleaseKeys, SameCall
    <2> QED
        BY <2>1 DEF SameCall
<1>a12. CASE ReleaseEnds \/ Heartbeat
    <2>1. UNCHANGED <<req, runEpoch, epoch>>
        BY <1>a12 DEF ReleaseEnds, Heartbeat
    <2> QED
        BY <2>1
<1> QED
    BY <1>a1, <1>a2, <1>a3, <1>a4, <1>a5, <1>a6, <1>a7, <1>a8, <1>a9, <1>a10, <1>a11, <1>a12
       DEF Next, SocketNext, RequestNext

\* The frame that ends on s completes call x.
AnswerOn(s, x) ==
    /\ FrameEnds(s) /\ x = Taker(s, reader[s].frame)
    /\ req[x].future = "pending" /\ SameCall(x)
    /\ req'[x].answer = <<reader[s].frame.of, s>>

\* A future is set by a frame that completes it, and stays as it is until its call
\* goes on.
SetByFrame ==
    \A x \in Request : req'[x].future = "set" =>
        \/ req[x].future = "set" /\ Kept(x)
        \/ \E s \in Socket : AnswerOn(s, x)

\* A call succeeds when its reply is in and passes the check, once.
OkByFinish ==
    \A x \in Request : req'[x].at = "ok" =>
        /\ Kept(x)
        /\ req[x].at = "ok" \/ (req[x].at = "sent" /\ req[x].future = "set" /\ ReplyCheck(x))

\* No step but the end of a frame sets a future.
LEMMA SetOnlyByFrame ==
    ASSUME TypeOK, RequestsAimed, Next
    PROVE  SetByFrame
<1> USE DEF TypeOK, RequestsAimed, Active, SetByFrame
<1>a1. ASSUME NEW s \in Socket, Bind(s) \/ BindElsewhere(s) \/ RunCloses(s)
      PROVE  SetByFrame
    BY <1>a1 DEF Bind, BindElsewhere, RunCloses, Kept
<1>a2. ASSUME NEW s \in Socket, Run(s) \/ RunWakes(s)
      PROVE  SetByFrame
    <2>1. Detach \/ req' = req
        BY <1>a2 DEF Run, RunWakes
    <2> QED
        BY <2>1, DetachReq DEF Kept
<1>a3. ASSUME NEW s \in Socket, FirstByte(s) \/ ReaderStops(s) \/ CancelLands(s)
      PROVE  SetByFrame
    BY <1>a3 DEF FirstByte, ReaderStops, CancelLands, ReaderDone, Kept
<1>a4. ASSUME NEW s \in Socket, FrameEnds(s)
      PROVE  SetByFrame
    <2>1. CASE req' = req
        BY <2>1 DEF Kept
    <2>2. CASE req' # req
        <3>1. PICK r \in Request : AnswerOn(s, r) /\ Others(r)
            BY <1>a4, <2>2, FrameDoes DEF AnswerOn
        <3> QED
            BY <3>1 DEF Others, Kept
    <2> QED
        BY <2>1, <2>2
<1>a5. ASSUME NEW r \in Request, NEW k \in Kinds, Capture(r, k)
      PROVE  SetByFrame
    BY <1>a5, CaptureDoes DEF Others, Kept
<1>a6. ASSUME NEW r \in Request, Admit(r)
      PROVE  SetByFrame
    BY <1>a6, AdmitDoes DEF Others, Kept
<1>a7. ASSUME NEW r \in Request, BootAgain(r) \/ BootEnds(r)
      PROVE  SetByFrame
    BY <1>a7, BootDoes DEF Others, Kept
<1>a8. ASSUME NEW r \in Request, Write(r)
      PROVE  SetByFrame
    BY <1>a8, WriteDoes DEF Others, Kept
<1>a9. ASSUME NEW r \in Request, Refuse(r) \/ Fail(r)
      PROVE  SetByFrame
    <2>1. EndRequest(r, "error")
        BY <1>a9 DEF Refuse, Fail
    <2>2. Others(r) /\ req'[r].future = "none" /\ req'[r].at = "error"
        BY <2>1, EndedReq
    <2> QED
        BY <2>2 DEF Others, Kept
<1>a10. ASSUME NEW r \in Request, Finish(r)
      PROVE  SetByFrame
    <2>1. \E o \in {"ok", "error"} : EndRequest(r, o)
        BY <1>a10 DEF Finish
    <2>2. Others(r) /\ req'[r].future = "none"
        BY <2>1, EndedReq
    <2> QED
        BY <2>2 DEF Others, Kept
<1>a11. CASE ReleaseSession \/ ReleaseKeys
    <2>1. Detach
        BY <1>a11 DEF ReleaseSession, ReleaseKeys
    <2> QED
        BY <2>1, DetachReq DEF Kept
<1>a12. CASE ReleaseEnds \/ Heartbeat
    BY <1>a12 DEF ReleaseEnds, Heartbeat, Kept
<1> QED
    BY <1>a1, <1>a2, <1>a3, <1>a4, <1>a5, <1>a6, <1>a7, <1>a8, <1>a9, <1>a10, <1>a11, <1>a12
       DEF Next, SocketNext, RequestNext

\* No step but Finish makes a call succeed.
LEMMA OkOnlyByFinish ==
    ASSUME TypeOK, RequestsAimed, Next
    PROVE  OkByFinish
<1> USE DEF TypeOK, RequestsAimed, Active, OkByFinish
<1>a1. ASSUME NEW s \in Socket, Bind(s) \/ BindElsewhere(s) \/ RunCloses(s)
      PROVE  OkByFinish
    BY <1>a1 DEF Bind, BindElsewhere, RunCloses, Kept
<1>a2. ASSUME NEW s \in Socket, Run(s) \/ RunWakes(s)
      PROVE  OkByFinish
    <2>1. Detach \/ req' = req
        BY <1>a2 DEF Run, RunWakes
    <2> QED
        BY <2>1, DetachReq DEF Kept
<1>a3. ASSUME NEW s \in Socket, FirstByte(s) \/ ReaderStops(s) \/ CancelLands(s)
      PROVE  OkByFinish
    BY <1>a3 DEF FirstByte, ReaderStops, CancelLands, ReaderDone, Kept
<1>a4. ASSUME NEW s \in Socket, FrameEnds(s)
      PROVE  OkByFinish
    <2>1. \A x \in Request : req'[x].at = "ok" => req'[x] = req[x]
        BY <1>a4, FrameDoes DEF Others, SameCall
    <2>2. \A x \in Request : req'[x].at = "ok" => req[x].at = "ok"
        BY <2>1
    <2> QED
        BY <2>1, <2>2 DEF Kept
<1>a5. ASSUME NEW r \in Request, NEW k \in Kinds, Capture(r, k)
      PROVE  OkByFinish
    BY <1>a5, CaptureDoes DEF Others, Kept
<1>a6. ASSUME NEW r \in Request, Admit(r)
      PROVE  OkByFinish
    BY <1>a6, AdmitDoes DEF Others, Kept
<1>a7. ASSUME NEW r \in Request, BootAgain(r) \/ BootEnds(r)
      PROVE  OkByFinish
    BY <1>a7, BootDoes DEF Others, Kept
<1>a8. ASSUME NEW r \in Request, Write(r)
      PROVE  OkByFinish
    BY <1>a8, WriteDoes DEF Others, Kept
<1>a9. ASSUME NEW r \in Request, Refuse(r) \/ Fail(r)
      PROVE  OkByFinish
    <2>1. EndRequest(r, "error")
        BY <1>a9 DEF Refuse, Fail
    <2>2. Others(r) /\ req'[r].future = "none" /\ req'[r].at = "error"
        BY <2>1, EndedReq
    <2> QED
        BY <2>2 DEF Others, Kept
<1>a10. ASSUME NEW r \in Request, Finish(r)
      PROVE  OkByFinish
    <2>1. /\ req[r].at = "sent" /\ req[r].future = "set"
          /\ IF ReplyCheck(r) THEN EndRequest(r, "ok") ELSE EndRequest(r, "error")
        BY <1>a10 DEF Finish
    <2>2. Others(r) /\ (req'[r].at = "ok" => ReplyCheck(r) /\ Kept(r))
        BY <2>1, EndedReq
    <2> QED
        BY <2>1, <2>2 DEF Others, Kept
<1>a11. CASE ReleaseSession \/ ReleaseKeys
    <2>1. Detach
        BY <1>a11 DEF ReleaseSession, ReleaseKeys
    <2> QED
        BY <2>1, DetachReq DEF Kept
<1>a12. CASE ReleaseEnds \/ Heartbeat
    BY <1>a12 DEF ReleaseEnds, Heartbeat, Kept
<1> QED
    BY <1>a1, <1>a2, <1>a3, <1>a4, <1>a5, <1>a6, <1>a7, <1>a8, <1>a9, <1>a10, <1>a11, <1>a12
       DEF Next, SocketNext, RequestNext

\* Epochs only move on.
LEMMA EpochMoves ==
    ASSUME Next
    PROVE  epoch' = epoch \/ epoch' = epoch + 1
<1>1. ASSUME NEW s \in Socket, SocketNext(s)
      PROVE  epoch' = epoch \/ epoch' = epoch + 1
    BY <1>1 DEF SocketNext, Bind, BindElsewhere, Run, RunWakes, RunCloses, FirstByte, FrameEnds,
       ReaderStops, CancelLands, ReaderDone
<1>2. ASSUME NEW r \in Request, RequestNext(r)
      PROVE  epoch' = epoch
    BY <1>2 DEF RequestNext, Capture, Refuse, Admit, BootAgain, BootEnds, Write, Finish, Fail
<1> QED
    BY <1>1, <1>2 DEF Next, ReleaseSession, ReleaseKeys, ReleaseEnds, Heartbeat

\* A reply that may count came on the socket of its call.
LEMMA AnswersStayHere ==
    ASSUME TypeOK, RequestsAimed, SessionInv, OwnerIsLatest, OnlyOwnerReads, EpochCaptured,
           AnsweredHere, Next
    PROVE  AnsweredHere'
<1> SUFFICES ASSUME NEW x \in Request, req'[x].future = "set", req'[x].epoch = epoch'
             PROVE  req'[x].answer[2] = req'[x].sock
    BY DEF AnsweredHere
<1>1. CASE req[x].future = "set" /\ Kept(x)
    <2>1. req[x].at \in Active /\ req[x].sock \in Socket
        BY <1>1 DEF RequestsAimed, Active
    <2>2. req[x].epoch <= epoch /\ epoch \in Nat /\ req[x].epoch \in Nat
        BY <2>1 DEF EpochCaptured, SessionInv, EpochsOrdered, TypeOK, RunsOK, RequestsOK,
           RequestRecord
    <2>3. req[x].epoch = epoch
        BY <1>1, <2>2, EpochMoves DEF Kept
    <2> QED
        BY <1>1, <2>3 DEF AnsweredHere, Kept
<1>2. ASSUME NEW s \in Socket, AnswerOn(s, x)
      PROVE  req'[x].answer[2] = req'[x].sock
    <2>1. /\ epoch' = epoch /\ writer = s
          /\ run[s] = "reading" /\ runEpoch[s] = epoch
        BY <1>2 DEF AnswerOn, FrameEnds, ReadGuard, OnlyOwnerReads, OwnerIsLatest
    <2>2. /\ req[x].at \in Active /\ req[x].sock \in Socket /\ req[x].epoch = epoch
          /\ req'[x].answer[2] = s /\ req'[x].sock = req[x].sock
        BY <1>2, <2>1 DEF AnswerOn, SameCall, RequestsAimed, Active
    <2>3. runEpoch[req[x].sock] = epoch
        BY <2>2 DEF EpochCaptured
    <2>4. Started(req[x].sock) /\ Started(s)
        BY <2>1, <2>2 DEF Started, SessionInv, FreshUntouched, Fresh
    <2> QED
        BY <2>1, <2>2, <2>3, <2>4 DEF SessionInv, EpochsOrdered
<1> QED
    BY <1>1, <1>2, SetOnlyByFrame DEF SetByFrame

\* A call that succeeds did so on its own socket.
LEMMA OwnSocketStays ==
    ASSUME TypeOK, RequestsAimed, AnsweredHere, ReplyOnOwnSocket, Next
    PROVE  ReplyOnOwnSocket'
<1> SUFFICES ASSUME NEW x \in Request, req'[x].at = "ok"
             PROVE  req'[x].answer[2] = req'[x].sock
    BY DEF ReplyOnOwnSocket
<1>1. Kept(x) /\ (req[x].at = "ok" \/ (req[x].future = "set" /\ ReplyCheck(x)))
    BY OkOnlyByFinish DEF OkByFinish
<1> QED
    BY <1>1 DEF Kept, ReplyCheck, AnsweredHere, ReplyOnOwnSocket

\* A heartbeat of a retired session is not even parsed, so it names its own.
LEMMA NamesStayOwn ==
    ASSUME OnlyOwnerReads, NamesOwnSession, Next
    PROVE  NamesOwnSession'
<1> USE DEF NamesOwnSession
<1>1. ASSUME NEW s \in Socket, FrameEnds(s)
      PROVE  NamesOwnSession'
    <2>1. writer = s
        BY <1>1 DEF FrameEnds, ReadGuard, OnlyOwnerReads
    <2> QED
        BY <1>1, <2>1 DEF FrameEnds
<1>2. ASSUME NEW s \in Socket, SocketNext(s), ~FrameEnds(s)
      PROVE  named' = named
    BY <1>2 DEF SocketNext, Bind, BindElsewhere, Run, Install, RunWakes, RunCloses, FirstByte,
       ReaderStops, CancelLands, ReaderDone
<1>3. ASSUME NEW r \in Request, RequestNext(r)
      PROVE  named' = named
    BY <1>3 DEF RequestNext, Capture, Refuse, Admit, BootAgain, BootEnds, Write, Finish, Fail
<1> QED
    BY <1>1, <1>2, <1>3 DEF Next, ReleaseSession, ReleaseKeys, ReleaseEnds, Heartbeat

-----------------------------------------------------------------------------
(* Transaction ids: none comes round while a reply under it can still arrive *)

\* The calls that have left the queue; each took at most one transaction id.
Used == {r \in Request : req[r].at \notin {"idle", "queued"}}

\* A bound on the ids taken so far.
Taken == Cardinality(Used) + beats

\* How many ids ago counter c stood at t.
Ago(c, t) == IF t <= c THEN c - t ELSE c - t + TidModulus

FramedActive(r) == req[r].kind = "framed" /\ req[r].at \in Active

\* The frames that are under way on s.
Frames(s) == wire[s] \cup {reader[s].frame}

\* The id of a call under way, and of a reply that can still arrive, was taken
\* recently; a reply under the id of a call is the reply to it.
TidsFresh ==
    /\ \A r \in Request : FramedActive(r) => Ago(tid, req[r].tid) < Taken
    /\ \A s \in Socket : \A m \in Frames(s) : m.kind = "framed" =>
          /\ Ago(tid, m.tid) < Taken
          /\ \A r \in Request : FramedActive(r) /\ req[r].tid = m.tid => m.of = r

\* Fewer ids were taken than the counter has (TidAssumption).
LEMMA TakenBounded ==
    ASSUME TypeOK
    PROVE  IsFiniteSet(Used) /\ Taken \in Nat /\ Taken < TidModulus
<1>1. IsFiniteSet(Used) /\ Cardinality(Used) <= Cardinality(Request)
    BY FS_Subset DEF Used
<1>2. Cardinality(Used) \in Nat /\ Cardinality(Request) \in Nat
    BY <1>1, FS_CardinalityType
<1>3. beats \in Nat /\ beats <= MaxHeartbeats
    BY DEF TypeOK, RequestsOK
<1> QED
    BY <1>1, <1>2, <1>3, TidAssumption DEF Taken

\* An id taken less than n ids ago is taken less than n + 1 ids ago when the counter
\* moves on, and the counter does not reach it.
LEMMA AgoMoves ==
    ASSUME NEW c \in Tid, NEW t \in Tid, NEW n \in Nat, n < TidModulus, Ago(c, t) < n
    PROVE  /\ Ago((c + 1) % TidModulus, t) < n + 1
           /\ n < TidModulus - 1 \/ Ago(c, t) < TidModulus - 1
           /\ (c + 1) % TidModulus # t
           /\ Ago(t, t) = 0
<1>1. (c + 1) % TidModulus = IF c = TidModulus - 1 THEN 0 ELSE c + 1
    BY TidType DEF Tid
<1> QED
    BY <1>1, TidType DEF Ago, Tid

\* An id is taken for a call that leaves the queue, or for a heartbeat.
LEMMA TidMoves ==
    ASSUME TypeOK, TypeOK', RequestsAimed, Next
    PROVE  \/ tid' = tid /\ Taken <= Taken'
           \/ tid' = NextTid /\ Taken' = Taken + 1
<1>0. /\ IsFiniteSet(Used) /\ IsFiniteSet(Used')
      /\ Cardinality(Used) \in Nat /\ Cardinality(Used') \in Nat /\ beats \in Nat
    BY TakenBounded, FS_CardinalityType, FS_Subset DEF Used, TypeOK, RequestsOK
<1>1. ASSUME Used \subseteq Used', tid' = tid, beats' = beats
      PROVE  tid' = tid /\ Taken <= Taken'
    BY <1>0, <1>1, FS_Subset DEF Taken
<1>2. ASSUME NEW r \in Request, Admit(r), req[r].kind = "framed"
      PROVE  tid' = NextTid /\ Taken' = Taken + 1
    <2>1. tid' = NextTid /\ beats' = beats
        BY <1>2 DEF Admit, AdmitFramed, AdmitAt, AdmitRaw, AdmitAux
    <2>2. r \notin Used /\ Used' = Used \cup {r}
        BY <1>2, AdmitDoes DEF Used, Others
    <2>3. Cardinality(Used') = Cardinality(Used) + 1
        BY <1>0, <2>2, FS_AddElement
    <2> QED
        BY <1>0, <2>1, <2>3 DEF Taken
<1>3. ASSUME Heartbeat
      PROVE  tid' = NextTid /\ Taken' = Taken + 1
    <2>1. tid' = NextTid /\ beats' = beats + 1 /\ Used' = Used
        BY <1>3 DEF Heartbeat, Used
    <2> QED
        BY <1>0, <2>1 DEF Taken
<1>4. ASSUME NEW s \in Socket, SocketNext(s)
      PROVE  Used \subseteq Used' /\ tid' = tid /\ beats' = beats
    <2>1. tid' = tid /\ beats' = beats
        BY <1>4 DEF SocketNext, Bind, BindElsewhere, Run, Install, RunWakes, RunCloses,
           FirstByte, FrameEnds, ReaderStops, CancelLands, ReaderDone
    <2>2. req' = req \/ Detach \/ FrameEnds(s)
        BY <1>4 DEF SocketNext, Bind, BindElsewhere, Run, Install, RunWakes, RunCloses,
           FirstByte, ReaderStops, CancelLands, ReaderDone
    <2>3. \A x \in Request : req'[x].at = req[x].at
        BY <2>2, DetachReq, FrameDoes DEF Others, SameCall
    <2> QED
        BY <2>1, <2>3 DEF Used
<1>5. ASSUME NEW r \in Request, RequestNext(r), ~(Admit(r) /\ req[r].kind = "framed")
      PROVE  Used \subseteq Used' /\ tid' = tid /\ beats' = beats
    <2>1. tid' = tid /\ beats' = beats
        BY <1>5 DEF RequestNext, Capture, Refuse, Admit, AdmitFramed, AdmitAt, AdmitRaw, AdmitAux,
           BootAgain, BootEnds, Write, Finish, Fail
    <2>2. CASE \E k \in Kinds : Capture(r, k)
        BY <2>1, <2>2, CaptureDoes DEF Used, Others
    <2>3. CASE Refuse(r) \/ Finish(r) \/ Fail(r)
        <3>1. \E o \in {"ok", "error"} : EndRequest(r, o)
            BY <2>3 DEF Refuse, Finish, Fail
        <3>2. Others(r) /\ req'[r].at \in {"ok", "error"}
            BY <3>1, EndedReq
        <3> QED
            BY <2>1, <3>2 DEF Used, Others
    <2>4. CASE Admit(r)
        BY <2>1, <2>4, AdmitDoes DEF Used, Others
    <2>5. CASE BootAgain(r) \/ BootEnds(r)
        BY <2>1, <2>5, BootDoes DEF Used, Others
    <2>6. CASE Write(r)
        BY <2>1, <2>6, WriteDoes DEF Used, Others
    <2> QED
        BY <1>5, <2>2, <2>3, <2>4, <2>5, <2>6 DEF RequestNext
<1>6. CASE ReleaseSession \/ ReleaseKeys \/ ReleaseEnds
    <2>1. tid' = tid /\ beats' = beats /\ (Detach \/ req' = req)
        BY <1>6 DEF ReleaseSession, ReleaseKeys, ReleaseEnds
    <2> QED
        BY <1>1, <2>1, DetachReq DEF Used
<1> QED
    BY <1>1, <1>2, <1>3, <1>4, <1>5, <1>6 DEF Next

\* A call is framed and under way because it was, or has just taken its id.
FramedByAdmit ==
    \A x \in Request : FramedActive(x)' =>
        \/ FramedActive(x) /\ req'[x].tid = req[x].tid
        \/ /\ Admit(x) /\ req'[x].tid = NextTid /\ tid' = NextTid
           /\ UNCHANGED reader /\ wire' = wire

\* No step but Admit puts a framed call under way.
LEMMA FramedOnlyByAdmit ==
    ASSUME TypeOK, RequestsAimed, Next
    PROVE  FramedByAdmit
<1> USE DEF TypeOK, RequestsAimed, Active, FramedByAdmit, FramedActive
<1>a1. ASSUME NEW s \in Socket, Bind(s) \/ BindElsewhere(s) \/ RunCloses(s)
      PROVE  FramedByAdmit
    BY <1>a1 DEF Bind, BindElsewhere, RunCloses
<1>a2. ASSUME NEW s \in Socket, Run(s) \/ RunWakes(s)
      PROVE  FramedByAdmit
    <2>1. Detach \/ req' = req
        BY <1>a2 DEF Run, RunWakes
    <2> QED
        BY <2>1, DetachReq
<1>a3. ASSUME NEW s \in Socket, FirstByte(s) \/ ReaderStops(s) \/ CancelLands(s)
      PROVE  FramedByAdmit
    BY <1>a3 DEF FirstByte, ReaderStops, CancelLands, ReaderDone
<1>a4. ASSUME NEW s \in Socket, FrameEnds(s)
      PROVE  FramedByAdmit
    BY <1>a4, FrameDoes DEF Others, SameCall
<1>a5. ASSUME NEW r \in Request, NEW k \in Kinds, Capture(r, k)
      PROVE  FramedByAdmit
    BY <1>a5, CaptureDoes DEF Others
<1>a6. ASSUME NEW r \in Request, Admit(r)
      PROVE  FramedByAdmit
    <2>1. CASE req[r].kind = "framed"
        <3>1. tid' = NextTid /\ UNCHANGED reader /\ wire' = wire
            BY <1>a6, <2>1 DEF Admit, AdmitFramed, AdmitAt, AdmitRaw, AdmitAux
        <3> QED
            BY <1>a6, <2>1, <3>1, AdmitDoes DEF Others, Kept
    <2>2. CASE req[r].kind # "framed"
        BY <1>a6, <2>2, AdmitDoes DEF Others, Kept
    <2> QED
        BY <2>1, <2>2
<1>a7. ASSUME NEW r \in Request, BootAgain(r) \/ BootEnds(r)
      PROVE  FramedByAdmit
    BY <1>a7, BootDoes DEF Others, Kept
<1>a8. ASSUME NEW r \in Request, Write(r)
      PROVE  FramedByAdmit
    BY <1>a8, WriteDoes DEF Others, Kept
<1>a9. ASSUME NEW r \in Request, Refuse(r) \/ Finish(r) \/ Fail(r)
      PROVE  FramedByAdmit
    <2>1. \E o \in {"ok", "error"} : EndRequest(r, o)
        BY <1>a9 DEF Refuse, Finish, Fail
    <2>2. Others(r) /\ req'[r].future = "none" /\ req'[r].at \in {"ok", "error"}
        BY <2>1, EndedReq
    <2> QED
        BY <2>2 DEF Others
<1>a10. CASE ReleaseSession \/ ReleaseKeys
    <2>1. Detach
        BY <1>a10 DEF ReleaseSession, ReleaseKeys
    <2> QED
        BY <2>1, DetachReq
<1>a11. CASE ReleaseEnds \/ Heartbeat
    BY <1>a11 DEF ReleaseEnds, Heartbeat
<1> QED
    BY <1>a1, <1>a2, <1>a3, <1>a4, <1>a5, <1>a6, <1>a7, <1>a8, <1>a9, <1>a10, <1>a11
       DEF Next, SocketNext, RequestNext

\* A framed reply is under way because it was, or its call has just been written.
FramesByWrite ==
    \A s \in Socket : \A m \in Frames(s)' : m.kind = "framed" =>
        \/ \E f \in Frames(s) : f.kind = "framed" /\ f.of = m.of /\ f.tid = m.tid
        \/ \E r \in Request : Write(r) /\ FramedActive(r) /\ m.of = r /\ m.tid = req[r].tid

\* No step but Write puts a framed reply under way.
LEMMA FramedOnlyByWrite ==
    ASSUME TypeOK, RequestsAimed, Next
    PROVE  FramesByWrite
<1> USE DEF TypeOK, FramesOK, RequestsAimed, Active, FramesByWrite, Frames
<1>a1. ASSUME NEW s \in Socket, Bind(s) \/ BindElsewhere(s) \/ RunCloses(s)
      PROVE  FramesByWrite
    <2>1. UNCHANGED <<reader, wire>>
        BY <1>a1 DEF Bind, BindElsewhere, RunCloses
    <2> QED
        BY <2>1
<1>a2. ASSUME NEW s \in Socket, Run(s)
      PROVE  FramesByWrite
    <2>1. wire' = wire /\ (reader' = reader \/ reader' = [reader EXCEPT ![s].at = "boundary"])
        BY <1>a2 DEF Run, Install
    <2>2. \A t \in Socket : reader'[t].frame = reader[t].frame
        BY <2>1
    <2> QED
        BY <2>1, <2>2
<1>a3. ASSUME NEW s \in Socket, RunWakes(s)
      PROVE  FramesByWrite
    <2>1. UNCHANGED <<reader, wire>>
        BY <1>a3 DEF RunWakes
    <2> QED
        BY <2>1
<1>a4. ASSUME NEW s \in Socket, FirstByte(s)
      PROVE  FramesByWrite
    <2>1. CASE \E m \in wire[s] :
                    /\ reader' = [reader EXCEPT ![s] = [at |-> "frame",
                                                        frame |-> [m EXCEPT !.owner = claim[s]]]]
                    /\ wire' = [wire EXCEPT ![s] = @ \ {m}]
        <3>1. PICK m \in wire[s] :
                    /\ reader' = [reader EXCEPT ![s] = [at |-> "frame",
                                                        frame |-> [m EXCEPT !.owner = claim[s]]]]
                    /\ wire' = [wire EXCEPT ![s] = @ \ {m}]
            BY <2>1
        <3>2. /\ reader'[s].frame.kind = m.kind /\ reader'[s].frame.of = m.of
              /\ reader'[s].frame.tid = m.tid
            BY <3>1 DEF Frame
        <3>3. wire'[s] \subseteq wire[s]
            BY <3>1
        <3> QED
            BY <1>a4, <3>2, <3>3, ReaderAlone
    <2>2. CASE \E t \in Tid :
                    /\ reader' = [reader EXCEPT ![s] = [at |-> "frame",
                             frame |-> [NoFrame EXCEPT !.kind = "heartbeat", !.tid = t]]]
                    /\ UNCHANGED wire
        <3>1. reader'[s].frame.kind = "heartbeat" /\ wire' = wire
            BY <2>2 DEF NoFrame
        <3> QED
            BY <1>a4, <3>1, ReaderAlone
    <2> QED
        BY <1>a4, <2>1, <2>2 DEF FirstByte
<1>a5. ASSUME NEW s \in Socket, FrameEnds(s)
      PROVE  FramesByWrite
    <2>1. wire' = wire /\ \E a : reader' = [reader EXCEPT ![s] = [at |-> a, frame |-> NoFrame]]
        BY <1>a5 DEF FrameEnds
    <2> QED
        BY <2>1 DEF NoFrame
<1>a6. ASSUME NEW s \in Socket, ReaderStops(s) \/ CancelLands(s)
      PROVE  FramesByWrite
    <2>1. /\ wire' = [wire EXCEPT ![s] = {}]
          /\ reader' = [reader EXCEPT ![s] = [at |-> "done", frame |-> NoFrame]]
        BY <1>a6 DEF ReaderStops, CancelLands, ReaderDone
    <2> QED
        BY <2>1 DEF NoFrame
<1>a7. ASSUME NEW r \in Request, (\E k \in Kinds : Capture(r, k)) \/ Refuse(r)
              \/ BootEnds(r) \/ Finish(r) \/ Fail(r)
      PROVE  FramesByWrite
    <2>1. UNCHANGED <<reader, wire>>
        BY <1>a7 DEF Capture, Refuse, BootEnds, Finish, Fail
    <2> QED
        BY <2>1
<1>a8. ASSUME NEW r \in Request, Admit(r)
      PROVE  FramesByWrite
    <2>1. reader' = reader /\ (wire' = wire \/ (wire' = Written(r, "at") /\ OwnerCheck(r)))
        BY <1>a8 DEF Admit, AdmitFramed, AdmitAt, AdmitRaw, AdmitAux, Refused
    <2>2. CASE wire' = wire
        BY <2>1, <2>2
    <2>3. CASE wire' = Written(r, "at") /\ OwnerCheck(r)
        <3>1. req'[r].tid \in Tid /\ req[r].sock \in Socket
            BY <1>a8, <2>3, AdmitDoes, ActiveSocket DEF RequestRecord
        <3>2. PICK f \in Frame : Adds(r, "at", f)
            BY <3>1, WrittenIs
        <3>3. f.kind = "at" /\ \A t \in Socket : wire'[t] \subseteq wire[t] \cup {f}
            BY <2>3, <3>2 DEF Adds
        <3> QED
            BY <2>1, <3>2, <3>3
    <2> QED
        BY <2>1, <2>2, <2>3
<1>a9. ASSUME NEW r \in Request, BootAgain(r)
      PROVE  FramesByWrite
    <2>1. reader' = reader /\ wire' = Written(r, "at") /\ OwnerCheck(r)
        BY <1>a9 DEF BootAgain
    <2>2. req'[r].tid \in Tid /\ req[r].sock \in Socket
        BY <1>a9, <2>1, BootDoes, ActiveSocket DEF RequestRecord
    <2>3. PICK f \in Frame : Adds(r, "at", f)
        BY <2>2, WrittenIs
    <2>4. f.kind = "at" /\ \A t \in Socket : wire'[t] \subseteq wire[t] \cup {f}
        BY <2>1, <2>3 DEF Adds
    <2> QED
        BY <2>1, <2>3, <2>4
<1>a10. ASSUME NEW r \in Request, Write(r)
      PROVE  FramesByWrite
    <2>1. /\ reader' = reader /\ wire' = Written(r, req[r].kind)
          /\ req[r].at = "held" /\ req[r].sock \in Socket
        BY <1>a10 DEF Write
    <2>2. req'[r].tid \in Tid /\ req'[r].tid = req[r].tid
        BY <1>a10, WriteDoes DEF RequestRecord
    <2>3. req[r].kind \in {"framed", "at", "raw", "aux", "none"}
        BY DEF RequestsOK, RequestRecord
    <2>4. PICK f \in Frame : Adds(r, req[r].kind, f)
        BY <2>1, <2>2, <2>3, WrittenIs
    <2>5. /\ f.kind = req[r].kind /\ f.of = r /\ f.tid = req'[r].tid
          /\ \A t \in Socket : wire'[t] \subseteq wire[t] \cup {f}
        BY <2>1, <2>4 DEF Adds
    <2> QED
        BY <1>a10, <2>1, <2>2, <2>4, <2>5 DEF FramedActive
<1>a11. CASE ReleaseSession \/ ReleaseKeys \/ ReleaseEnds \/ Heartbeat
    <2>1. UNCHANGED <<reader, wire>>
        BY <1>a11 DEF ReleaseSession, ReleaseKeys, ReleaseEnds, Heartbeat
    <2> QED
        BY <2>1
<1> QED
    BY <1>a1, <1>a2, <1>a3, <1>a4, <1>a5, <1>a6, <1>a7, <1>a8, <1>a9, <1>a10, <1>a11
       DEF Next, SocketNext, RequestNext

\* What was taken recently is still recent after a step, and is not the next id.
LEMMA RecentStays ==
    ASSUME TypeOK, TypeOK', RequestsAimed, Next, NEW t \in Tid, Ago(tid, t) < Taken
    PROVE  Ago(tid', t) < Taken' /\ NextTid # t
<1>1. Taken \in Nat /\ Taken < TidModulus /\ tid \in Tid
    BY TakenBounded DEF TypeOK, RequestsOK
<1>2. Ago(NextTid, t) < Taken + 1 /\ NextTid # t
    BY <1>1, AgoMoves DEF NextTid
<1>3. Taken' \in Nat
    BY FS_CardinalityType, FS_Subset DEF Taken, Used, TypeOK, RequestsOK
<1>4. Ago(tid, t) \in Int
    BY <1>1, TidType DEF Ago, Tid
<1> QED
    BY <1>1, <1>2, <1>3, <1>4, TidMoves

\* The ids under way stay apart.
LEMMA TidsStayFresh ==
    ASSUME TypeOK, TypeOK', RequestsAimed, TidsFresh, Next
    PROVE  TidsFresh'
<1>1. ASSUME NEW r \in Request, FramedActive(r)
      PROVE  req[r].tid \in Tid /\ Ago(tid', req[r].tid) < Taken' /\ NextTid # req[r].tid
    BY <1>1, RecentStays DEF TidsFresh, TypeOK, RequestsOK, RequestRecord
<1>2. ASSUME NEW s \in Socket, NEW f \in Frames(s), f.kind = "framed"
      PROVE  f.tid \in Tid /\ Ago(tid', f.tid) < Taken' /\ NextTid # f.tid
    <2>1. f.tid \in Tid
        BY DEF Frames, TypeOK, FramesOK, Frame
    <2> QED
        BY <1>2, <2>1, RecentStays DEF TidsFresh
<1>3. ASSUME NEW x \in Request, FramedActive(x)'
      PROVE  Ago(tid', req'[x].tid) < Taken'
    <2>1. CASE FramedActive(x) /\ req'[x].tid = req[x].tid
        BY <1>1, <2>1
    <2>2. CASE Admit(x) /\ req'[x].tid = NextTid /\ tid' = NextTid
        <3>1. x \in Used' /\ IsFiniteSet(Used') /\ beats' \in Nat
            BY <1>3, FS_Subset DEF Used, FramedActive, Active, TypeOK, RequestsOK
        <3>2. Cardinality(Used') \in Nat /\ Cardinality(Used') # 0
            BY <3>1, FS_CardinalityType, FS_EmptySet
        <3>3. Taken' \in Nat /\ Taken' # 0
            BY <3>1, <3>2 DEF Taken
        <3>4. Ago(tid', req'[x].tid) = 0
            BY <2>2, NextTidType, TidType DEF Ago, Tid, TypeOK, RequestsOK
        <3> QED
            BY <3>3, <3>4
    <2> QED
        BY <1>3, <2>1, <2>2, FramedOnlyByAdmit DEF FramedByAdmit
<1>4. ASSUME NEW s \in Socket, NEW m \in Frames(s)', m.kind = "framed"
      PROVE  /\ Ago(tid', m.tid) < Taken'
             /\ \A r \in Request : FramedActive(r)' /\ req'[r].tid = m.tid => m.of = r
    <2>1. ASSUME NEW f \in Frames(s), f.kind = "framed", f.of = m.of, f.tid = m.tid
          PROVE  /\ Ago(tid', m.tid) < Taken'
                 /\ \A r \in Request : FramedActive(r)' /\ req'[r].tid = m.tid => m.of = r
        BY <1>2, <2>1, FramedOnlyByAdmit DEF FramedByAdmit, TidsFresh
    <2>2. ASSUME NEW q \in Request, Write(q), FramedActive(q), m.of = q, m.tid = req[q].tid
          PROVE  /\ Ago(tid', m.tid) < Taken'
                 /\ \A r \in Request : FramedActive(r)' /\ req'[r].tid = m.tid => m.of = r
        <3>1. \A r \in Request : FramedActive(r) => r = q
            BY <2>2 DEF FramedActive, RequestsAimed
        <3> QED
            BY <1>1, <2>2, <3>1, FramedOnlyByAdmit DEF FramedByAdmit
    <2> QED
        BY <1>4, <2>1, <2>2, FramedOnlyByWrite DEF FramesByWrite
<1> QED
    BY <1>3, <1>4 DEF TidsFresh

-----------------------------------------------------------------------------
(* Auxiliary replies carry no id: the claim and the fence keep them apart *)

\* A reader holds a frame exactly while it assembles one, and a stream holds
\* replies only.
FramesReal ==
    \A s \in Socket :
        /\ reader[s].at = "frame" <=> reader[s].frame.kind # "none"
        /\ \A m \in wire[s] : m.kind # "none"

\* Call r has the claim on s and no reply yet.
AwaitedOn(s, r) == r \in Request /\ claim[s] = r /\ req[r].future # "set"

\* On a stream that is not fenced there is at most one auxiliary reply under way,
\* and it is the claimant's.
AuxFenced ==
    \A s \in Socket \ retired :
        /\ \A m \in wire[s] : m.kind = "aux" => AwaitedOn(s, m.of)
        /\ \A m, n \in wire[s] : m.kind = "aux" /\ n.kind = "aux" => m = n
        /\ reader[s].frame.kind = "aux" =>
              /\ AwaitedOn(s, reader[s].frame.of)
              /\ reader[s].frame.owner = reader[s].frame.of
              /\ \A m \in wire[s] : m.kind # "aux"

\* What is read was sent.
LEMMA FramesStayReal ==
    ASSUME TypeOK, RequestsAimed, SessionInv, FramesReal, Next
    PROVE  FramesReal'
<1> USE DEF TypeOK, FramesOK, RequestsAimed, Active, FramesReal
<1>a1. ASSUME NEW s \in Socket, Bind(s) \/ BindElsewhere(s) \/ RunCloses(s)
      PROVE  FramesReal'
    <2>1. UNCHANGED <<reader, wire>>
        BY <1>a1 DEF Bind, BindElsewhere, RunCloses
    <2> QED
        BY <2>1
<1>a2. ASSUME NEW s \in Socket, Run(s)
      PROVE  FramesReal'
    <2>1. wire' = wire /\ (reader' = reader \/ reader' = [reader EXCEPT ![s].at = "boundary"])
        BY <1>a2 DEF Run, Install
    <2>2. reader[s].at = "none"
        BY <1>a2 DEF Run, SessionInv, FreshUntouched, Fresh
    <2> QED
        BY <2>1, <2>2
<1>a3. ASSUME NEW s \in Socket, RunWakes(s)
      PROVE  FramesReal'
    <2>1. UNCHANGED <<reader, wire>>
        BY <1>a3 DEF RunWakes
    <2> QED
        BY <2>1
<1>a4. ASSUME NEW s \in Socket, FirstByte(s)
      PROVE  FramesReal'
    <2>1. CASE \E m \in wire[s] :
                    /\ reader' = [reader EXCEPT ![s] = [at |-> "frame",
                                                        frame |-> [m EXCEPT !.owner = claim[s]]]]
                    /\ wire' = [wire EXCEPT ![s] = @ \ {m}]
        <3>1. PICK m \in wire[s] :
                    /\ reader' = [reader EXCEPT ![s] = [at |-> "frame",
                                                        frame |-> [m EXCEPT !.owner = claim[s]]]]
                    /\ wire' = [wire EXCEPT ![s] = @ \ {m}]
            BY <2>1
        <3>2. /\ reader'[s].at = "frame" /\ reader'[s].frame.kind = m.kind
              /\ reader'[s].frame.of = m.of /\ reader'[s].frame.owner = claim[s]
            BY <3>1 DEF Frame
        <3>3. wire'[s] = wire[s] \ {m}
            BY <3>1
        <3> QED
            BY <1>a4, <3>2, <3>3, ReaderAlone
    <2>2. CASE \E t \in Tid :
                    /\ reader' = [reader EXCEPT ![s] = [at |-> "frame",
                             frame |-> [NoFrame EXCEPT !.kind = "heartbeat", !.tid = t]]]
                    /\ UNCHANGED wire
        <3>1. reader'[s].at = "frame" /\ reader'[s].frame.kind = "heartbeat" /\ wire' = wire
            BY <2>2 DEF NoFrame
        <3> QED
            BY <1>a4, <3>1, ReaderAlone
    <2> QED
        BY <1>a4, <2>1, <2>2 DEF FirstByte
<1>a5. ASSUME NEW s \in Socket, FrameEnds(s)
      PROVE  FramesReal'
    <2>1. wire' = wire /\ \E a \in {"done", "boundary"} :
             reader' = [reader EXCEPT ![s] = [at |-> a, frame |-> NoFrame]]
        BY <1>a5 DEF FrameEnds
    <2> QED
        BY <2>1 DEF NoFrame
<1>a6. ASSUME NEW s \in Socket, ReaderStops(s) \/ CancelLands(s)
      PROVE  FramesReal'
    <2>1. /\ wire' = [wire EXCEPT ![s] = {}]
          /\ reader' = [reader EXCEPT ![s] = [at |-> "done", frame |-> NoFrame]]
        BY <1>a6 DEF ReaderStops, CancelLands, ReaderDone
    <2> QED
        BY <2>1 DEF NoFrame
<1>a7. ASSUME NEW r \in Request, (\E k \in Kinds : Capture(r, k)) \/ Refuse(r)
              \/ BootEnds(r) \/ Finish(r) \/ Fail(r)
      PROVE  FramesReal'
    <2>1. UNCHANGED <<reader, wire>>
        BY <1>a7 DEF Capture, Refuse, BootEnds, Finish, Fail
    <2> QED
        BY <2>1
<1>a8. ASSUME NEW r \in Request, Admit(r)
      PROVE  FramesReal'
    <2>1. reader' = reader /\ (wire' = wire \/ wire' = Written(r, "at"))
        BY <1>a8 DEF Admit, AdmitFramed, AdmitAt, AdmitRaw, AdmitAux
    <2>2. req'[r].tid \in Tid /\ req[r].sock \in Socket
        BY <1>a8, AdmitDoes DEF RequestRecord
    <2>3. PICK f \in Frame : Adds(r, "at", f)
        BY <2>2, WrittenIs
    <2> QED
        BY <2>1, <2>3 DEF Adds
<1>a9. ASSUME NEW r \in Request, BootAgain(r)
      PROVE  FramesReal'
    <2>1. reader' = reader /\ wire' = Written(r, "at")
        BY <1>a9 DEF BootAgain
    <2>2. req'[r].tid \in Tid /\ req[r].sock \in Socket
        BY <1>a9, BootDoes DEF RequestRecord
    <2>3. PICK f \in Frame : Adds(r, "at", f)
        BY <2>2, WrittenIs
    <2> QED
        BY <2>1, <2>3 DEF Adds
<1>a10. ASSUME NEW r \in Request, Write(r)
      PROVE  FramesReal'
    <2>1. /\ reader' = reader /\ wire' = Written(r, req[r].kind)
          /\ req[r].sock \in Socket /\ req[r].kind # "none"
        BY <1>a10 DEF Write
    <2>2. req'[r].tid \in Tid
        BY <1>a10, WriteDoes DEF RequestRecord
    <2>3. req[r].kind \in {"framed", "at", "raw", "aux", "none"}
        BY DEF RequestsOK, RequestRecord
    <2>4. PICK f \in Frame : Adds(r, req[r].kind, f)
        BY <2>1, <2>2, <2>3, WrittenIs
    <2> QED
        BY <2>1, <2>4 DEF Adds
<1>a11. CASE ReleaseSession \/ ReleaseKeys \/ ReleaseEnds \/ Heartbeat
    <2>1. UNCHANGED <<reader, wire>>
        BY <1>a11 DEF ReleaseSession, ReleaseKeys, ReleaseEnds, Heartbeat
    <2> QED
        BY <2>1
<1> QED
    BY <1>a1, <1>a2, <1>a3, <1>a4, <1>a5, <1>a6, <1>a7, <1>a8, <1>a9, <1>a10, <1>a11
       DEF Next, SocketNext, RequestNext

\* The fence keeps auxiliary replies apart.
LEMMA AuxStaysFenced ==
    ASSUME TypeOK, RequestsAimed, SlotsOwned, FramesReal, AuxFenced, Next
    PROVE  AuxFenced'
<1> USE DEF TypeOK, FramesOK, RequestsAimed, Active, AuxFenced, AwaitedOn
<1>a1. ASSUME NEW s \in Socket, Bind(s) \/ BindElsewhere(s) \/ RunCloses(s)
      PROVE  AuxFenced'
    <2>1. UNCHANGED <<reader, wire, retired, claim, req>>
        BY <1>a1 DEF Bind, BindElsewhere, RunCloses
    <2> QED
        BY <2>1
<1>a2. ASSUME NEW s \in Socket, Run(s)
      PROVE  AuxFenced'
    <2>1. /\ wire' = wire /\ claim' = claim /\ retired \subseteq retired'
          /\ reader' = reader \/ reader' = [reader EXCEPT ![s].at = "boundary"]
        BY <1>a2 DEF Run, Install, Detach
    <2>2. \A x \in Request : req'[x].future \in {req[x].future, "failed"}
        BY <1>a2, DetachReq DEF Run
    <2>3. \A t \in Socket : reader'[t].frame = reader[t].frame
        BY <2>1
    <2> QED
        BY <2>1, <2>2, <2>3
<1>a3. ASSUME NEW s \in Socket, RunWakes(s)
      PROVE  AuxFenced'
    <2>1. UNCHANGED <<reader, wire, claim>> /\ retired \subseteq retired'
        BY <1>a3 DEF RunWakes, Detach
    <2>2. \A x \in Request : req'[x].future \in {req[x].future, "failed"}
        BY <1>a3, DetachReq DEF RunWakes
    <2> QED
        BY <2>1, <2>2
<1>a4. ASSUME NEW s \in Socket, FirstByte(s)
      PROVE  AuxFenced'
    <2>0. UNCHANGED <<retired, claim, req>> /\ s \notin retired
        BY <1>a4 DEF FirstByte, ReadGuard
    <2>1. CASE \E m \in wire[s] :
                    /\ reader' = [reader EXCEPT ![s] = [at |-> "frame",
                                                        frame |-> [m EXCEPT !.owner = claim[s]]]]
                    /\ wire' = [wire EXCEPT ![s] = @ \ {m}]
        <3>1. PICK m \in wire[s] :
                    /\ reader' = [reader EXCEPT ![s] = [at |-> "frame",
                                                        frame |-> [m EXCEPT !.owner = claim[s]]]]
                    /\ wire' = [wire EXCEPT ![s] = @ \ {m}]
            BY <2>1
        <3>2. /\ reader'[s].at = "frame" /\ reader'[s].frame.kind = m.kind
              /\ reader'[s].frame.of = m.of /\ reader'[s].frame.owner = claim[s]
            BY <3>1 DEF Frame
        <3>3. wire'[s] = wire[s] \ {m}
            BY <3>1
        <3> QED
            BY <1>a4, <2>0, <3>2, <3>3, ReaderAlone
    <2>2. CASE \E t \in Tid :
                    /\ reader' = [reader EXCEPT ![s] = [at |-> "frame",
                             frame |-> [NoFrame EXCEPT !.kind = "heartbeat", !.tid = t]]]
                    /\ UNCHANGED wire
        <3>1. reader'[s].at = "frame" /\ reader'[s].frame.kind = "heartbeat" /\ wire' = wire
            BY <2>2 DEF NoFrame
        <3> QED
            BY <1>a4, <2>0, <3>1, ReaderAlone
    <2> QED
        BY <1>a4, <2>1, <2>2 DEF FirstByte
<1>a5. ASSUME NEW s \in Socket, FrameEnds(s)
      PROVE  AuxFenced'
    <2>1. UNCHANGED <<wire, retired, claim>> /\ s \notin retired
        BY <1>a5 DEF FrameEnds, ReadGuard
    <2>2. reader'[s].frame.kind = "none"
        <3>1. \E a \in {"done", "boundary"} :
                 reader' = [reader EXCEPT ![s] = [at |-> a, frame |-> NoFrame]]
            BY <1>a5 DEF FrameEnds
        <3> QED
            BY <3>1 DEF NoFrame
    <2>3. ASSUME NEW x \in Request, req'[x].future = "set", req[x].future # "set",
                 NEW t \in Socket, claim[t] = x
          PROVE  t = s /\ reader[s].frame.kind = "aux"
        <3>1. x = Taker(s, reader[s].frame) /\ req[x].kind = "aux" /\ req[x].sock = t /\ x # Nobody
            BY <1>a5, <2>3, FrameDoes DEF Others, SlotsOwned
        <3>2. reader[s].frame.kind \notin {"framed", "at", "raw", "heartbeat"}
            BY <3>1 DEF Taker, SlotsOwned, Frame
        <3>3. reader[s].frame.kind = "aux"
            BY <1>a5, <3>2 DEF FrameEnds, FramesReal, Frame
        <3>4. claim[s] = x
            BY <3>1, <3>3 DEF Taker
        <3> QED
            BY <3>1, <3>3, <3>4 DEF SlotsOwned
    <2>4. \A t \in Socket : t # s => reader'[t] = reader[t]
        BY <1>a5, ReaderAlone
    <2> QED
        BY <2>1, <2>2, <2>3, <2>4
<1>a6. ASSUME NEW s \in Socket, ReaderStops(s) \/ CancelLands(s)
      PROVE  AuxFenced'
    <2>1. /\ wire' = [wire EXCEPT ![s] = {}] /\ UNCHANGED <<retired, claim, req>>
          /\ reader' = [reader EXCEPT ![s] = [at |-> "done", frame |-> NoFrame]]
        BY <1>a6 DEF ReaderStops, CancelLands, ReaderDone
    <2> QED
        BY <2>1 DEF NoFrame
<1>a7. ASSUME NEW r \in Request, NEW k \in Kinds, Capture(r, k)
      PROVE  AuxFenced'
    <2>1. UNCHANGED <<reader, wire, retired, claim>> /\ Others(r)
        BY <1>a7, CaptureDoes DEF Capture
    <2>2. \A t \in Socket : claim[t] # r
        BY <1>a7 DEF SlotsOwned, SessionsOK, Capture
    <2> QED
        BY <2>1, <2>2 DEF Others
<1>a8. ASSUME NEW r \in Request, Admit(r)
      PROVE  AuxFenced'
    <2>1. /\ UNCHANGED <<reader, retired, claim>> /\ Others(r)
          /\ wire' = wire \/ wire' = Written(r, "at")
        BY <1>a8, AdmitDoes DEF Admit, AdmitFramed, AdmitAt, AdmitRaw, AdmitAux
    <2>2. req'[r].tid \in Tid /\ req[r].sock \in Socket
        BY <1>a8, AdmitDoes DEF RequestRecord
    <2>3. PICK f \in Frame : Adds(r, "at", f)
        BY <2>2, WrittenIs
    <2>4. \A t \in Socket : claim[t] # r
        BY <1>a8 DEF SlotsOwned, SessionsOK, Admit
    <2>5. \A t \in Socket : \A m \in wire'[t] : m.kind = "aux" => m \in wire[t]
        BY <2>1, <2>3 DEF Adds
    <2> QED
        BY <2>1, <2>4, <2>5 DEF Others
<1>a9. ASSUME NEW r \in Request, BootAgain(r)
      PROVE  AuxFenced'
    <2>1. /\ UNCHANGED <<reader, retired, claim>> /\ Others(r)
          /\ wire' = Written(r, "at")
        BY <1>a9, BootDoes DEF BootAgain
    <2>2. req'[r].tid \in Tid /\ req[r].sock \in Socket
        BY <1>a9, BootDoes DEF RequestRecord
    <2>3. PICK f \in Frame : Adds(r, "at", f)
        BY <2>2, WrittenIs
    <2>4. \A t \in Socket : claim[t] # r
        BY <1>a9 DEF SlotsOwned, SessionsOK, BootAgain
    <2>5. \A t \in Socket : \A m \in wire'[t] : m.kind = "aux" => m \in wire[t]
        BY <2>1, <2>3 DEF Adds
    <2> QED
        BY <2>1, <2>4, <2>5 DEF Others
<1>a10. ASSUME NEW r \in Request, BootEnds(r)
      PROVE  AuxFenced'
    <2>1. UNCHANGED <<reader, wire, retired, claim>> /\ Others(r)
        BY <1>a10, BootDoes DEF BootEnds
    <2>2. \A t \in Socket : claim[t] # r
        BY <1>a10 DEF SlotsOwned, SessionsOK, BootEnds
    <2> QED
        BY <2>1, <2>2 DEF Others
<1>a11. ASSUME NEW r \in Request, Write(r)
      PROVE  AuxFenced'
    <2>1. /\ UNCHANGED <<reader, retired>> /\ wire' = Written(r, req[r].kind)
          /\ req[r].at = "held" /\ req[r].sock \in Socket /\ req[r].kind # "none" /\ Others(r)
        BY <1>a11, WriteDoes DEF Write
    <2>2. req'[r].tid \in Tid
        BY <1>a11, WriteDoes DEF RequestRecord
    <2>3. req[r].kind \in {"framed", "at", "raw", "aux", "none"}
        BY DEF RequestsOK, RequestRecord
    <2>4. PICK f \in Frame : Adds(r, req[r].kind, f)
        BY <2>1, <2>2, <2>3, WrittenIs
    <2>5. \A t \in Socket : claim[t] = Nobody
        BY <2>1 DEF SlotsOwned, SessionsOK
    <2>6. \A t \in Socket \ retired :
             reader[t].frame.kind # "aux" /\ \A m \in wire[t] : m.kind # "aux"
        BY <2>5
    <2>7. CASE req[r].kind = "aux"
        <3>1. claim' = [claim EXCEPT ![req[r].sock] = r] /\ req'[r].future = "pending"
            BY <1>a11, <2>7, WriteDoes DEF Write
        <3>2. \A t \in Socket : wire'[t] = wire[t] \cup (IF t = req[r].sock THEN {f} ELSE {})
            BY <2>1, <2>4 DEF Adds
        <3>3. f.of = r
            BY <2>4 DEF Adds
        <3>4. claim'[req[r].sock] = r
            BY <2>1, <3>1 DEF SessionsOK
        <3> QED
            BY <2>1, <2>6, <3>1, <3>2, <3>3, <3>4
    <2>8. CASE req[r].kind # "aux"
        <3>1. \A t \in Socket : \A m \in wire'[t] : m.kind = "aux" => m \in wire[t]
            BY <2>1, <2>4, <2>8 DEF Adds
        <3> QED
            BY <2>1, <2>6, <3>1
    <2> QED
        BY <2>7, <2>8
<1>a12. ASSUME NEW r \in Request, Refuse(r) \/ Finish(r) \/ Fail(r)
      PROVE  AuxFenced'
    <2>1. \E o \in {"ok", "error"} : EndRequest(r, o)
        BY <1>a12 DEF Refuse, Finish, Fail
    <2>2. Others(r) /\ req'[r].future = "none" /\ req'[r].at \in {"ok", "error"}
        BY <2>1, EndedReq
    <2>3. UNCHANGED <<reader, wire>> /\ retired' = retired \cup (IF Fail(r) THEN Fenced(r) ELSE {})
        BY <1>a12, <2>2 DEF Refuse, Finish, Fail
    <2>4. claim' = [s \in Socket |-> IF claim[s] = r THEN Nobody ELSE claim[s]]
        BY <2>1 DEF EndRequest
    <2>5. ASSUME NEW t \in Socket, t \notin retired', AwaitedOn(t, r)
          PROVE  FALSE
        <3>1. req[r].at = "sent" /\ req[r].kind = "aux" /\ req[r].sock = t /\ req[r].future # "set"
            BY <2>5 DEF SlotsOwned
        <3> QED
            BY <1>a12, <2>3, <2>5, <3>1 DEF Refuse, Finish, Fenced
    <2> QED
        BY <2>2, <2>3, <2>4, <2>5 DEF Others
<1>a13. CASE ReleaseSession \/ ReleaseKeys
    <2>1. Detach /\ UNCHANGED <<reader, wire, claim>>
        BY <1>a13 DEF ReleaseSession, ReleaseKeys
    <2>2. /\ retired \subseteq retired'
          /\ \A x \in Request : req'[x].future \in {req[x].future, "failed"}
        BY <2>1, DetachReq DEF Detach
    <2> QED
        BY <2>1, <2>2
<1>a14. CASE ReleaseEnds \/ Heartbeat
    <2>1. UNCHANGED <<reader, wire, retired, claim, req>>
        BY <1>a14 DEF ReleaseEnds, Heartbeat
    <2> QED
        BY <2>1
<1> QED
    BY <1>a1, <1>a2, <1>a3, <1>a4, <1>a5, <1>a6, <1>a7, <1>a8, <1>a9, <1>a10, <1>a11,
       <1>a12, <1>a13, <1>a14
       DEF Next, SocketNext, RequestNext

\* A reply that is in is the reply to its call.
OwnAnswer ==
    \A r \in Request :
        req[r].future = "set" /\ req[r].kind \in {"framed", "aux"} => req[r].answer[1] = r

\* A framed reply finds its call by id, an auxiliary one by the claim.
LEMMA AnswersStayOwn ==
    ASSUME TypeOK, RequestsAimed, SlotsOwned, TidsFresh, FramesReal, AuxFenced, OwnAnswer, Next
    PROVE  OwnAnswer'
<1> SUFFICES ASSUME NEW x \in Request, req'[x].future = "set", req'[x].kind \in {"framed", "aux"}
             PROVE  req'[x].answer[1] = x
    BY DEF OwnAnswer
<1>1. CASE req[x].future = "set" /\ Kept(x)
    BY <1>1 DEF Kept, OwnAnswer
<1>2. ASSUME NEW s \in Socket, AnswerOn(s, x)
      PROVE  req'[x].answer[1] = x
    <2> DEFINE m == reader[s].frame
    <2>a. x = Taker(s, m) /\ req[x].kind \in {"framed", "aux"} /\ req'[x].answer = <<m.of, s>>
        BY <1>2 DEF AnswerOn, SameCall
    <2>b. s \notin retired /\ reader[s].at = "frame"
        BY <1>2 DEF AnswerOn, FrameEnds, ReadGuard
    <2>1. /\ x = Taker(s, m) /\ x # Nobody /\ req[x].kind \in {"framed", "aux"}
          /\ req'[x].answer[1] = m.of /\ s \notin retired /\ reader[s].at = "frame"
        BY <2>a, <2>b
    <2>2. m \in Frame /\ m.kind # "none"
        BY <2>1 DEF TypeOK, FramesOK, FramesReal
    <2>3. CASE m.kind = "framed"
        <3>1. m.tid \in Tid /\ pending[m.tid] = x
            BY <2>1, <2>2, <2>3 DEF Taker, Frame
        <3>2. FramedActive(x) /\ req[x].tid = m.tid
            BY <2>1, <3>1 DEF SlotsOwned, FramedActive, Active
        <3>3. m \in Frames(s)
            BY DEF Frames
        <3> QED
            BY <2>1, <2>3, <3>2, <3>3 DEF TidsFresh
    <2>4. CASE m.kind = "aux"
        BY <2>1, <2>4 DEF Taker, AuxFenced
    <2>5. m.kind \notin {"heartbeat", "at", "raw"}
        BY <2>1, <2>2 DEF Taker, SlotsOwned
    <2> QED
        BY <2>2, <2>3, <2>4, <2>5 DEF Frame
<1> QED
    BY <1>1, <1>2, SetOnlyByFrame DEF SetByFrame

\* A call that succeeds does so with the reply that is in.
LEMMA OwnReplyStays ==
    ASSUME TypeOK, RequestsAimed, OwnAnswer, ReplyIsOwn, Next
    PROVE  ReplyIsOwn'
<1> SUFFICES ASSUME NEW x \in Request, req'[x].at = "ok", req'[x].kind \in {"framed", "aux"}
             PROVE  req'[x].answer[1] = x
    BY DEF ReplyIsOwn
<1>1. Kept(x) /\ (req[x].at = "ok" \/ req[x].future = "set")
    BY OkOnlyByFinish DEF OkByFinish
<1> QED
    BY <1>1 DEF Kept, OwnAnswer, ReplyIsOwn

-----------------------------------------------------------------------------
(* The inductive invariants and the theorems *)

\* What holds however sockets are bound.
BaseInv ==
    /\ TypeOK /\ RequestsAimed /\ SessionInv /\ BootstrapIsFresh
    /\ SlotsOwned /\ PendingInSlot
    /\ TidsFresh /\ FramesReal /\ AuxFenced /\ OwnAnswer /\ ReplyIsOwn

\* What holds as long as one run starts at a time.
OrderInv ==
    /\ OneStarting /\ OwnerIsLatest /\ OnlyOwnerReads
    /\ ReplyInv /\ NamesOwnSession
    /\ ListenerInv

\* BaseInv holds of a new object.
LEMMA BaseInit == Init => BaseInv
<1> SUFFICES ASSUME Init
             PROVE  BaseInv
    OBVIOUS
<1>1. TypeOK
    BY InitTyped
<1>2. /\ \A r \in Request : req[r] = NoRequest
      /\ \A s \in Socket : wire[s] = {} /\ reader[s] = [at |-> "none", frame |-> NoFrame]
      /\ \A s \in Socket : claim[s] = Nobody /\ run[s] = "unbound" /\ runEpoch[s] = 0
      /\ \A t \in Tid : pending[t] = Nobody
    BY DEF Init
<1>3. RequestsAimed
    BY <1>2 DEF RequestsAimed, NoRequest, Active
<1>4. FreshUntouched
    BY <1>2 DEF Init, FreshUntouched, NoRequest
<1>5. ReaderFollowsRun /\ AuxFollowsWriter /\ EpochsOrdered
    BY <1>2 DEF Init, ReaderFollowsRun, AuxFollowsWriter, EpochsOrdered, Started
<1>6. BootstrapIsFresh
    BY DEF Init, BootstrapIsFresh
<1>7. SlotsOwned /\ PendingInSlot
    BY <1>2 DEF Init, SlotsOwned, PendingInSlot, NoRequest
<1>8. TidsFresh
    BY <1>2 DEF TidsFresh, FramedActive, Frames, NoRequest, NoFrame
<1>9. FramesReal /\ AuxFenced
    BY <1>2 DEF FramesReal, AuxFenced, NoFrame
<1>10. OwnAnswer /\ ReplyIsOwn
    BY <1>2 DEF OwnAnswer, ReplyIsOwn, NoRequest
<1> QED
    BY <1>1, <1>3, <1>4, <1>5, <1>6, <1>7, <1>8, <1>9, <1>10 DEF BaseInv, SessionInv

\* A step that changes nothing keeps BaseInv.
LEMMA BaseStutters == ASSUME BaseInv, UNCHANGED vars PROVE BaseInv'
<1> USE DEF vars
<1>1. TypeOK'
    BY DEF BaseInv, TypeOK, RunsOK, SessionsOK, FramesOK, RequestsOK
<1>2. RequestsAimed' /\ BootstrapIsFresh'
    BY DEF BaseInv, RequestsAimed, BootstrapIsFresh
<1>3. SessionInv'
    BY DEF BaseInv, SessionInv, FreshUntouched, ReaderFollowsRun, AuxFollowsWriter, EpochsOrdered,
           Started
<1>4. SlotsOwned' /\ PendingInSlot'
    BY DEF BaseInv, SlotsOwned, PendingInSlot
<1>5. TidsFresh'
    <2>1. Taken' = Taken
        BY DEF Taken, Used
    <2> QED
        BY <2>1 DEF BaseInv, TidsFresh, FramedActive, Frames
<1>6. FramesReal' /\ AuxFenced'
    BY DEF BaseInv, FramesReal, AuxFenced, AwaitedOn
<1>7. OwnAnswer' /\ ReplyIsOwn'
    BY DEF BaseInv, OwnAnswer, ReplyIsOwn
<1> QED
    BY <1>1, <1>2, <1>3, <1>4, <1>5, <1>6, <1>7 DEF BaseInv

\* Every step keeps BaseInv.
LEMMA BaseStep == ASSUME BaseInv, [Next]_vars PROVE BaseInv'
<1>1. CASE Next
    <2>1. TypeOK'
        BY <1>1, RunsTyped, SessionsTyped, FramesTyped, RequestsTyped DEF BaseInv, TypeOK
    <2>2. RequestsAimed' /\ FreshUntouched'
        BY <1>1, RequestsStayAimed, FreshStays DEF BaseInv, SessionInv
    <2>3. ReaderFollowsRun' /\ AuxFollowsWriter' /\ EpochsOrdered'
        BY <1>1, ReaderFollows, AuxFollows, EpochsStayOrdered DEF BaseInv, SessionInv
    <2>4. BootstrapIsFresh'
        BY <1>1, BootstrapStaysFresh DEF BaseInv, SessionInv
    <2>5. SlotsOwned' /\ PendingInSlot'
        BY <1>1, SlotsStayOwned, PendingStaysInSlot DEF BaseInv
    <2>6. TidsFresh'
        BY <1>1, <2>1, TidsStayFresh DEF BaseInv
    <2>7. FramesReal' /\ AuxFenced'
        BY <1>1, FramesStayReal, AuxStaysFenced DEF BaseInv
    <2>8. OwnAnswer' /\ ReplyIsOwn'
        BY <1>1, AnswersStayOwn, OwnReplyStays DEF BaseInv
    <2> QED
        BY <2>1, <2>2, <2>3, <2>4, <2>5, <2>6, <2>7, <2>8 DEF BaseInv, SessionInv
<1>2. CASE UNCHANGED vars
    BY <1>2, BaseStutters
<1> QED
    BY <1>1, <1>2

\* Whatever the calls of run() and of the callers, BaseInv is an invariant.
THEOREM BaseInvariant == Spec => []BaseInv
<1> QED
    BY BaseInit, BaseStep, PTL DEF Spec

\* The fields of the connection object, the sockets and the requests have their
\* types.
THEOREM ConnectionTyped == Spec => []TypeOK
<1>1. BaseInv => TypeOK
    BY DEF BaseInv
<1> QED
    BY <1>1, BaseInvariant, PTL

\* The raw route counts as bootstrapped only after an exchange on the socket it
\* runs on, even when sockets are replaced at any moment.
THEOREM BootstrapsAreFresh == Spec => []BootstrapIsFresh
<1>1. BaseInv => BootstrapIsFresh
    BY DEF BaseInv
<1> QED
    BY <1>1, BaseInvariant, PTL

\* A framed or auxiliary request succeeds with the reply to it, never with a late
\* reply to another, for every number of requests the counter does not wrap under.
THEOREM RepliesAreOwn == Spec => []ReplyIsOwn
<1>1. BaseInv => ReplyIsOwn
    BY DEF BaseInv
<1> QED
    BY <1>1, BaseInvariant, PTL

\* OrderInv holds of a new object.
LEMMA OrderInit == Init => OrderInv
<1> SUFFICES ASSUME Init
             PROVE  OrderInv
    OBVIOUS
<1>1. /\ \A r \in Request : req[r] = NoRequest
      /\ \A s \in Socket : run[s] = "unbound" /\ reader[s] = [at |-> "none", frame |-> NoFrame]
    BY DEF Init
<1>2. OneStarting /\ OwnerIsLatest /\ OnlyOwnerReads /\ NamesOwnSession
    BY <1>1 DEF Init, OneStarting, OwnerIsLatest, OnlyOwnerReads, NamesOwnSession
<1>3. ReplyInv
    BY <1>1 DEF ReplyInv, EpochCaptured, AnsweredHere, ReplyOnOwnSocket, NoRequest, Active
<1>4. RouteInv
    BY <1>1 DEF Init, RouteInv
<1> QED
    BY <1>2, <1>3, <1>4 DEF OrderInv, ListenerInv

\* Every step of an orderly object keeps OrderInv.
LEMMA OrderStep == ASSUME Orderly, BaseInv, OrderInv, [Next]_vars PROVE OrderInv'
<1>1. CASE Next
    <2>1. OneStarting' /\ OwnerIsLatest' /\ OnlyOwnerReads'
        BY <1>1, StartsOneByOne, OwnerStaysLatest, OwnerStaysReader DEF BaseInv, OrderInv
    <2>2. EpochCaptured' /\ AnsweredHere' /\ ReplyOnOwnSocket'
        BY <1>1, EpochStaysCaptured, AnswersStayHere, OwnSocketStays
           DEF BaseInv, OrderInv, ReplyInv
    <2>3. NamesOwnSession'
        BY <1>1, NamesStayOwn DEF OrderInv
    <2>4. ASSUME Listener PROVE RouteInv'
        BY <1>1, <2>4, RoutesStay DEF BaseInv, OrderInv, ListenerInv
    <2> QED
        BY <2>1, <2>2, <2>3, <2>4 DEF OrderInv, ReplyInv, ListenerInv, Listener
<1>2. CASE UNCHANGED vars
    <2> USE <1>2 DEF vars
    <2>1. OneStarting' /\ OwnerIsLatest' /\ OnlyOwnerReads' /\ NamesOwnSession'
        BY DEF OrderInv, OneStarting, OwnerIsLatest, OnlyOwnerReads, NamesOwnSession
    <2>2. ReplyInv'
        BY DEF OrderInv, ReplyInv, EpochCaptured, AnsweredHere, ReplyOnOwnSocket
    <2>3. ListenerInv'
        BY DEF OrderInv, ListenerInv, RouteInv, Listener
    <2> QED
        BY <2>1, <2>2, <2>3 DEF OrderInv
<1> QED
    BY <1>1, <1>2

\* As long as one run starts at a time, OrderInv is an invariant.
THEOREM OrderInvariant == ASSUME Orderly PROVE Spec => []OrderInv
<1>1. BaseInv /\ OrderInv /\ [Next]_vars => OrderInv'
    BY OrderStep
<1> QED
    BY <1>1, OrderInit, BaseInvariant, PTL DEF Spec

\* Whatever its kind, a request never succeeds with bytes of a socket other than the
\* one it was captured for, however often the object's socket is replaced.
THEOREM RepliesOnOwnSocket == ASSUME Orderly PROVE Spec => []ReplyOnOwnSocket
<1>1. OrderInv => ReplyOnOwnSocket
    BY DEF OrderInv, ReplyInv
<1> QED
    BY <1>1, OrderInvariant, PTL

\* A heartbeat never names a session other than the one it arrived on, even when
\* its reader outlives the session.
THEOREM NamesAreOwn == ASSUME Orderly PROVE Spec => []NamesOwnSession
<1>1. OrderInv => NamesOwnSession
    BY DEF OrderInv
<1> QED
    BY <1>1, OrderInvariant, PTL

\* The step of OnlyOwnTeardown, for socket s.
KeepsSession(s) ==
    (Live(s) /\ epoch' = epoch /\ releases' = releases /\ release' = release) =>
        writer' = s /\ (s \in index => s \in index')

\* No step but a newer run and a release takes a live session away.
LEMMA SessionKept ==
    ASSUME BaseInv, OrderInv, Next, NEW s \in Socket
    PROVE  KeepsSession(s)
<1> SUFFICES ASSUME Live(s), epoch' = epoch, releases' = releases, release' = release
             PROVE  writer' = s /\ (s \in index => s \in index')
    BY DEF KeepsSession
<1>1. /\ run[s] = "reading" /\ writer = s /\ reader[s].at # "done" /\ runEpoch[s] = epoch
      /\ epoch \in Nat /\ releases \in Nat /\ s # Nobody
    BY DEF Live, Connected, OrderInv, OwnerIsLatest, BaseInv, TypeOK, RunsOK
<1>2. ASSUME NEW t \in Socket, run[t] \in {"reading", "closing"}, runEpoch[t] = epoch
      PROVE  t = s
    BY <1>1, <1>2 DEF BaseInv, SessionInv, EpochsOrdered, Started
<1>3. ASSUME NEW t \in Socket, Bind(t) \/ BindElsewhere(t)
      PROVE  writer' = s /\ index \subseteq index'
    BY <1>1, <1>3 DEF Bind, BindElsewhere
<1>4. ASSUME NEW t \in Socket, Run(t)
      PROVE  FALSE
    BY <1>1, <1>4 DEF Run, OrderInv, OwnerIsLatest
<1>5. ASSUME NEW t \in Socket, RunWakes(t)
      PROVE  writer' = s /\ index' = index \ {t} /\ t # s
    BY <1>1, <1>2, <1>5 DEF RunWakes
<1>6. ASSUME NEW t \in Socket, RunCloses(t)
      PROVE  UNCHANGED <<writer, index>>
    BY <1>1, <1>2, <1>6 DEF RunCloses, StillCurrent
<1>7. ASSUME NEW t \in Socket, FirstByte(t) \/ FrameEnds(t) \/ ReaderStops(t) \/ CancelLands(t)
      PROVE  UNCHANGED <<writer, index>>
    BY <1>7 DEF FirstByte, FrameEnds, ReaderStops, CancelLands, ReaderDone
<1>8. ASSUME NEW r \in Request, RequestNext(r)
      PROVE  UNCHANGED <<writer, index>>
    BY <1>8 DEF RequestNext, Capture, Refuse, Admit, BootAgain, BootEnds, Write, Finish, Fail
<1>9. ~ReleaseSession /\ ~ReleaseKeys /\ ~ReleaseEnds
    BY <1>1 DEF ReleaseSession, ReleaseKeys, ReleaseEnds
<1>10. CASE Heartbeat
    BY <1>1, <1>10 DEF Heartbeat
<1> QED
    BY <1>1, <1>3, <1>4, <1>5, <1>6, <1>7, <1>8, <1>9, <1>10 DEF Next, SocketNext

\* The run of an earlier socket, however late it ends, never takes a live session's
\* writer or index entry away; only a newer run and a release of the route do.
THEOREM TeardownIsOwn == ASSUME Orderly PROVE Spec => OnlyOwnTeardown
<1>1. BaseInv /\ OrderInv /\ [Next]_vars =>
        [\A s \in Socket :
            (Live(s) /\ epoch' = epoch /\ releases' = releases /\ release' = release) =>
                /\ writer' = s
                /\ s \in index => s \in index']_vars
    BY SessionKept DEF KeepsSession
<1> QED
    BY <1>1, BaseInvariant, OrderInvariant, PTL DEF Spec, OnlyOwnTeardown

\* Under the listener's rule no caller waits on a session that is gone: an
\* unresolved future belongs to the current socket, whose disconnect fails it.
THEOREM NobodyWaitsOrphaned == ASSUME Listener PROVE Spec => []NoOrphanedWait
<1>1. Orderly
    BY DEF Listener, Orderly
<1>2. Init => NoOrphanedWait
    BY DEF Init, NoOrphanedWait, NoRequest
<1>3. BaseInv /\ OrderInv /\ NoOrphanedWait /\ [Next]_vars => NoOrphanedWait'
    <2> SUFFICES ASSUME BaseInv, OrderInv, NoOrphanedWait, [Next]_vars
                 PROVE  NoOrphanedWait'
        OBVIOUS
    <2>1. CASE Next
        BY <2>1, NobodyIsOrphaned DEF BaseInv, OrderInv, ListenerInv
    <2>2. CASE UNCHANGED vars
        BY <2>2 DEF vars, NoOrphanedWait
    <2> QED
        BY <2>1, <2>2
<1> QED
    BY <1>1, <1>2, <1>3, BaseInvariant, OrderInvariant, PTL DEF Spec

=============================================================================
