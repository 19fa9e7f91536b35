--------------------------- MODULE CallbackLedger ---------------------------
(***************************************************************************)
(* CallbackTriggerLedger (connection/callback_ledger.py) with the two       *)
(* facades through which every production path puts a set>server datagram   *)
(* on the wire (collector/discovery.py).                                    *)
(*                                                                         *)
(* A lease task runs one causality_lease scope under an attempt id, and may *)
(* hold a silence window (inhibit_callback_triggers) inside it -- recovery   *)
(* verification -- or a silence window alone -- the removal finalizer.  A    *)
(* sender is any task that sends triggers; the context variable             *)
(* _CURRENT_ATTEMPT it runs under is that of the attempt that spawned it, or *)
(* none.  Everything between two awaits is one action.  The UDP exchange of  *)
(* a send runs in a worker thread, which cancelling the send does not stop.  *)
(***************************************************************************)
EXTENDS Integers, FiniteSets

CONSTANTS
    Task,           \* tasks that take the lease or a silence window
    Attempt,        \* attempt ids
    AttemptOf,      \* the id each lease task passes to causality_lease
    Sender,         \* tasks that send callback triggers
    Context,        \* the attempt whose context a sender runs in, or NoAttempt
    NoAttempt,      \* the empty id
    MaxGeneration,  \* bound: triggers recorded in one behaviour
    MaxPasses       \* bound: probe passes that fit one send's retry window

ASSUME LedgerAssumption ==
    /\ IsFiniteSet(Task)
    /\ IsFiniteSet(Sender)
    /\ NoAttempt \notin Attempt
    /\ AttemptOf \in [Task -> Attempt]
    /\ Context \in [Sender -> Attempt \cup {NoAttempt}]
    /\ MaxGeneration \in Nat
    /\ MaxPasses \in Nat
    /\ MaxPasses > 0

VARIABLES
    lease,          \* lease[t]: where task t stands in causality_lease
    silence,        \* silence[t]: where task t stands in inhibit_callback_triggers
    send,           \* send[s]: whether sender s is inside callback_send_scope
    passes,         \* passes[s]: probe passes the current send may still start
    wire,           \* senders whose worker thread is putting datagrams on the wire
    generation,     \* _generation
    active,         \* _active_trigger_sends
    drained,        \* _trigger_sends_drained
    inhibitors,     \* _trigger_inhibitors
    owner,          \* _causality_owner
    attempts        \* _attempts: the tally of each open attempt

leaseVars == <<lease, owner>>
sendVars == <<send, passes, wire, active, drained>>
silenceVars == <<silence, inhibitors>>
vars == <<lease, silence, send, passes, wire, generation, active, drained,
          inhibitors, owner, attempts>>

Tally == [own : Nat, foreign : Nat]
Open == DOMAIN attempts

-----------------------------------------------------------------------------
(* causality_lease *)

\* The duplicate check comes first, so a second scope under an open id fails at
\* once instead of waiting for a lease it could never get.
Duplicate(t) == AttemptOf[t] \in Open

\* A poll that finds the lease free: owner and tally appear together.
AcquireLease(t) ==
    /\ \/ lease[t] = "new" /\ silence[t] = "idle"
       \/ lease[t] = "waiting"
    /\ ~Duplicate(t)
    /\ owner = NoAttempt
    /\ lease' = [lease EXCEPT ![t] = "held"]
    /\ owner' = AttemptOf[t]
    /\ attempts' = [a \in Open \cup {AttemptOf[t]} |->
           IF a = AttemptOf[t] THEN [own |-> 0, foreign |-> 0] ELSE attempts[a]]
    /\ UNCHANGED <<silenceVars, sendVars, generation>>

\* The first poll found another attempt's lease.
WaitForLease(t) ==
    /\ lease[t] = "new"
    /\ silence[t] = "idle"
    /\ ~Duplicate(t)
    /\ owner # NoAttempt
    /\ lease' = [lease EXCEPT ![t] = "waiting"]
    /\ UNCHANGED <<silenceVars, sendVars, generation, owner, attempts>>

\* Variant: the finally clause releases although this task acquired nothing.
DuplicateReleases(t) ==
    /\ lease[t] \in {"new", "waiting"}
    /\ Duplicate(t)
    /\ lease' = [lease EXCEPT ![t] = "done"]
    /\ owner' = NoAttempt
    /\ attempts' = [b \in Open \ {AttemptOf[t]} |-> attempts[b]]
    /\ UNCHANGED <<silenceVars, sendVars, generation>>

\* ValueError from a poll, first or later.
DuplicateRefused(t) ==
    /\ \/ lease[t] = "new" /\ silence[t] = "idle"
       \/ lease[t] = "waiting"
    /\ Duplicate(t)
    /\ lease' = [lease EXCEPT ![t] = "done"]
    /\ UNCHANGED <<silenceVars, sendVars, generation, owner, attempts>>

\* CallbackCausalityBusyError at the deadline, or cancellation of the sleep.
GiveUp(t) ==
    /\ lease[t] = "waiting"
    /\ lease' = [lease EXCEPT ![t] = "done"]
    /\ UNCHANGED <<silenceVars, sendVars, generation, owner, attempts>>

\* Variant: the tally is closed, the owner string stays.
ReleaseTallyOnly(a) ==
    /\ UNCHANGED owner
    /\ attempts' = [b \in Open \ {a} |-> attempts[b]]

\* _release_causality
ReleaseCausality(a) ==
    /\ owner' = IF owner = a THEN NoAttempt ELSE owner
    /\ attempts' = [b \in Open \ {a} |-> attempts[b]]

\* Success, error or cancellation of the body of the scope.
LeaveLease(t) ==
    /\ lease[t] = "held"
    /\ silence[t] \in {"idle", "over"}
    /\ lease' = [lease EXCEPT ![t] = "done"]
    /\ ReleaseCausality(AttemptOf[t])
    /\ UNCHANGED <<silenceVars, sendVars, generation>>

-----------------------------------------------------------------------------
(* callback_send_scope, record and the facades *)

\* Variant: a gate that forgets the lease.
MaySendUnleased(s) == inhibitors = 0

\* The gate of callback_send_scope.
MaySend(s) ==
    /\ inhibitors = 0
    /\ owner # NoAttempt => Context[s] = owner

\* A sender in an attempt's context exists once that attempt entered its lease;
\* tasks it spawned may outlive it.
Spawned(s) ==
    Context[s] # NoAttempt =>
        \E t \in Task : AttemptOf[t] = Context[s] /\ lease[t] \in {"held", "done"}

\* record: the context's own attempt counts the send as its own, every other open
\* attempt as foreign.
Counted(s) ==
    [a \in Open |-> IF a = Context[s]
                    THEN [attempts[a] EXCEPT !.own = @ + 1]
                    ELSE [attempts[a] EXCEPT !.foreign = @ + 1]]

Record(s) ==
    /\ generation < MaxGeneration
    /\ generation' = generation + 1
    /\ attempts' = Counted(s)

\* async_send_callback_trigger: enter the scope, record, start the first pass.
BeginSend(s) ==
    /\ send[s] = "idle"
    /\ s \notin wire
    /\ Spawned(s)
    /\ MaySend(s)
    /\ Record(s)
    /\ send' = [send EXCEPT ![s] = "sending"]
    /\ passes' = [passes EXCEPT ![s] = MaxPasses - 1]
    /\ wire' = wire \cup {s}
    /\ active' = active + 1
    /\ drained' = FALSE
    /\ UNCHANGED <<leaseVars, silenceVars>>

\* The worker thread ran out of payload variants, or read a reply.
PassDone(s) ==
    /\ s \in wire
    /\ wire' = wire \ {s}
    /\ UNCHANGED <<leaseVars, silenceVars, send, passes, generation, active, drained,
                   attempts>>

\* Variant: retransmission without a deadline.
RetransmitForever(s) ==
    /\ send[s] = "sending"
    /\ s \notin wire
    /\ wire' = wire \cup {s}
    /\ passes' = [passes EXCEPT ![s] = @ - 1]
    /\ UNCHANGED <<leaseVars, silenceVars, send, generation, active, drained, attempts>>

\* No reply and the retry window is still open: the same route once more.
Retransmit(s) ==
    /\ send[s] = "sending"
    /\ s \notin wire
    /\ passes[s] > 0
    /\ wire' = wire \cup {s}
    /\ passes' = [passes EXCEPT ![s] = @ - 1]
    /\ UNCHANGED <<leaseVars, silenceVars, send, generation, active, drained, attempts>>

\* Variants: the event is set by the first send that ends, or never again.
LeaveScopeSetsEvent(s) ==
    /\ send' = [send EXCEPT ![s] = "idle"]
    /\ passes' = [passes EXCEPT ![s] = 0]
    /\ active' = IF active > 0 THEN active - 1 ELSE 0
    /\ drained' = TRUE
    /\ UNCHANGED <<leaseVars, silenceVars, wire, generation, attempts>>
LeaveScopeForgetsEvent(s) ==
    /\ send' = [send EXCEPT ![s] = "idle"]
    /\ passes' = [passes EXCEPT ![s] = 0]
    /\ active' = IF active > 0 THEN active - 1 ELSE 0
    /\ UNCHANGED <<leaseVars, silenceVars, wire, generation, drained, attempts>>

\* The finally clause of callback_send_scope.
LeaveScope(s) ==
    /\ send' = [send EXCEPT ![s] = "idle"]
    /\ passes' = [passes EXCEPT ![s] = 0]
    /\ active' = IF active > 0 THEN active - 1 ELSE 0
    /\ drained' = IF active' = 0 THEN TRUE ELSE drained
    /\ UNCHANGED <<leaseVars, silenceVars, wire, generation, attempts>>

EndSend(s) ==
    /\ send[s] = "sending"
    /\ s \notin wire
    /\ LeaveScope(s)

\* Cancellation lands on the await of the worker thread and leaves it running.
CancelSend(s) ==
    /\ send[s] = "sending"
    /\ s \in wire
    /\ LeaveScope(s)

\* DiscoveryAnnouncer sends and listens without an await: scope, record, datagram
\* and exit are one step, after which the counter and the event are as before.
Announce(s) ==
    /\ send[s] = "idle"
    /\ Spawned(s)
    /\ MaySend(s)
    /\ Record(s)
    /\ UNCHANGED <<leaseVars, silenceVars, sendVars>>

-----------------------------------------------------------------------------
(* inhibit_callback_triggers *)

Inhibit(t) ==
    /\ lease[t] \in {"new", "held"}
    /\ silence[t] = "idle"
    /\ silence' = [silence EXCEPT ![t] = "draining"]
    /\ inhibitors' = inhibitors + 1
    /\ UNCHANGED <<leaseVars, sendVars, generation, attempts>>

\* The thread waiting for _trigger_sends_drained returns; the body runs.
Drained(t) ==
    /\ silence[t] = "draining"
    /\ drained
    /\ silence' = [silence EXCEPT ![t] = "silent"]
    /\ UNCHANGED <<leaseVars, sendVars, generation, inhibitors, attempts>>

\* The finally clause: end of the body, an error, or cancellation of the wait.
LeaveSilence(t) ==
    /\ silence[t] \in {"draining", "silent"}
    /\ silence' = [silence EXCEPT ![t] = "over"]
    /\ inhibitors' = IF inhibitors > 0 THEN inhibitors - 1 ELSE 0
    /\ UNCHANGED <<leaseVars, sendVars, generation, attempts>>

-----------------------------------------------------------------------------
(* Specification *)

Init ==
    /\ lease = [t \in Task |-> "new"]
    /\ silence = [t \in Task |-> "idle"]
    /\ send = [s \in Sender |-> "idle"]
    /\ passes = [s \in Sender |-> 0]
    /\ wire = {}
    /\ generation = 0
    /\ active = 0
    /\ drained = TRUE
    /\ inhibitors = 0
    /\ owner = NoAttempt
    /\ attempts = [a \in {} |-> [own |-> 0, foreign |-> 0]]

TaskStep(t) ==
    \/ AcquireLease(t)
    \/ WaitForLease(t)
    \/ DuplicateRefused(t)
    \/ GiveUp(t)
    \/ LeaveLease(t)
    \/ Inhibit(t)
    \/ Drained(t)
    \/ LeaveSilence(t)

SenderStep(s) ==
    \/ BeginSend(s)
    \/ PassDone(s)
    \/ Retransmit(s)
    \/ EndSend(s)
    \/ CancelSend(s)
    \/ Announce(s)

Next ==
    \/ \E t \in Task : TaskStep(t)
    \/ \E s \in Sender : SenderStep(s)

Spec == Init /\ [][Next]_vars

\* Socket timeouts end every pass, the event loop runs every ready task, and the
\* body of a lease or of a silence window is bounded by its own deadlines.
Fairness ==
    /\ \A s \in Sender : WF_vars(PassDone(s)) /\ WF_vars(EndSend(s))
    /\ \A t \in Task : /\ WF_vars(Drained(t))
                       /\ WF_vars(silence[t] = "silent" /\ LeaveSilence(t))
                       /\ WF_vars(LeaveLease(t))

FairSpec == Spec /\ Fairness

-----------------------------------------------------------------------------
(* Properties *)

\* Types of the ledger's fields and of the tasks' and senders' positions; a send's
\* retry budget and the generation stay within their bounds.
TypeOK ==
    /\ lease \in [Task -> {"new", "waiting", "held", "done"}]
    /\ silence \in [Task -> {"idle", "draining", "silent", "over"}]
    /\ send \in [Sender -> {"idle", "sending"}]
    /\ passes \in [Sender -> 0 .. MaxPasses]
    /\ wire \subseteq Sender
    /\ generation \in 0 .. MaxGeneration
    /\ active \in Nat
    /\ drained \in BOOLEAN
    /\ inhibitors \in Nat
    /\ owner \in Attempt \cup {NoAttempt}
    /\ Open \subseteq Attempt
    /\ attempts \in [Open -> Tally]

\* "The owner and the lease go together, always": the owner string, the open
\* tally and the one task inside the scope never fall out of step, whichever way
\* waits and scopes end -- a second task under the same id included.
LeaseLockStep ==
    /\ \A t, u \in Task : lease[t] = "held" /\ lease[u] = "held" => t = u
    /\ \A t \in Task : lease[t] = "held" => owner = AttemptOf[t]
    /\ owner # NoAttempt => \E t \in Task : lease[t] = "held"
    /\ Open = IF owner = NoAttempt THEN {} ELSE {owner}

\* While a verifier owns the silence window no send is inside its scope: sends
\* that began before were waited for, later ones were refused, and a cancelled
\* wait or another verifier's exit does not re-open the gate.
SilentWindow ==
    (\E t \in Task : silence[t] = "silent") => \A s \in Sender : send[s] = "idle"

\* "Prove no trigger was sent anywhere from one monotonic generation": the
\* generation does not move as long as one verifier stays in its silent window.
Watched(t) == silence[t] = "silent" /\ silence'[t] = "silent"
GenerationFrozen ==
    [][(\E t \in Task : Watched(t)) => generation' = generation]_vars

\* As long as one attempt's window is open, every recorded trigger is its own: it
\* is counted once, in own_sends, and foreign_sends stays 0.
Attributed(a) ==
    /\ attempts[a].foreign = 0
    /\ attempts'[a].foreign = 0
    /\ attempts'[a].own - attempts[a].own = generation' - generation
WindowAttribution ==
    [][\A a \in Attempt : a \in Open /\ a \in Open' => Attributed(a)]_vars

\* A verifier is never kept waiting for ever: whatever sends were in progress, its
\* silence window opens (or its wait is cancelled).
SilenceOpens ==
    \A t \in Task : silence[t] = "draining" ~> silence[t] # "draining"

\* The lease is never stranded by an attempt that went away.
LeaseReturns == []<>(owner = NoAttempt)
=============================================================================
