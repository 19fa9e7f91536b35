--------------------------- MODULE EndpointOwnership ---------------------------
(***************************************************************************)
(* The operations that move the server endpoint of one collector, and the  *)
(* durable axes of its config entry that they keep true:                   *)
(*   - the endpoint operation authority (connection/                       *)
(*     collector_endpoint_operation.py) and the facades over it;           *)
(*   - the verified strategy transition (connection/strategy_transition.py,*)
(*     runtime/coordinator/strategy.py) and the repair of an interrupted   *)
(*     one (connection/strategy_transition_repair.py, flows/options/       *)
(*     strategy.py);                                                       *)
(*   - bind, rollback, manual write and the system actions (runtime/       *)
(*     coordinator/management.py);                                         *)
(*   - the reconcile of a managed endpoint in every poll (runtime/         *)
(*     coordinator/runtime_profile.py);                                    *)
(*   - proxy capture: start, stop, recovery and the timer reset (runtime/  *)
(*     coordinator/cloud_tools.py).                                        *)
(*                                                                         *)
(* A write to the collector is two steps: it reaches the collector or not, *)
(* and the receipt arrives or not. Everything between two awaits is one    *)
(* step. Crash stops Home Assistant between any two steps; what entry data *)
(* and the capture session file hold survives it, and so does what the     *)
(* collector holds.                                                        *)
(*                                                                         *)
(* Two abstractions of what the collector can do: it connects on its own   *)
(* only to the endpoint it holds (so an inbound reconnect is proved only   *)
(* with the endpoint at "ha"), and a write is confirmed only when it was   *)
(* done. A cancelled operation ends like a failed one.                     *)
(***************************************************************************)
EXTENDS Naturals

CONSTANTS
    None,
    TwoFlows,           \* a repair flow may start while a transition runs
    StopsDuringStart    \* a capture may be stopped, or its entry reloaded,
                        \* while its start is still under way

ASSUME SwitchAssumption == TwoFlows \in BOOLEAN /\ StopsDuringStart \in BOOLEAN

VARIABLES
    endpoint,       \* collector parameter 21: "ha" or "cloud"
    movedBy,        \* history: whether a capture or a switch of strategy (a transition
                    \* or a repair) was the last to change endpoint, or neither
    strategy, policy, marker, rollback,     \* entry data, durable
    record,         \* capture session file, durable: its status, active or None
    recordRedirects,            \* its restore_required
    held,           \* the authority: the owning operation, or None
    lock,           \* _runtime_operation_lock: None, "transition", "poll"
    loaded,         \* the entry is set up
    booting,        \* async_setup waits for the capture recovery
    seen,           \* the endpoint in the live snapshot, or "unknown"
    tr, trTarget, trWrites,     \* strategy transition
    rp, rpPhase,                \* repair, and the phase its flow read
    qk, qkTarget,               \* bind, rollback, manual write, system action
    pl, plSeen,                 \* the poll and the endpoint it read
    cs,                         \* capture start
    ct, ctRedirects,            \* capture stop
    tm, tmRedirects,            \* timer reset, and the session it read
    revived         \* history: a late reset put the file back after the clear

axes   == <<strategy, policy, marker, rollback>>
file   == <<record, recordRedirects, revived>>
wire   == <<endpoint, movedBy>>
entry  == <<loaded, booting>>
trVars == <<tr, trTarget, trWrites>>
rpVars == <<rp, rpPhase>>
qkVars == <<qk, qkTarget>>
plVars == <<pl, plSeen>>
ctVars == <<ct, ctRedirects>>
tmVars == <<tm, tmRedirects>>
vars   == <<wire, axes, file, held, lock, entry, seen,
            trVars, rpVars, qkVars, plVars, cs, ctVars, tmVars>>

Endpoint == {"ha", "cloud"}
QuickOp  == {"bind", "rollback", "manual", "system"}
Op       == QuickOp \cup {"transition", "repair", "reconcile", "capture"}

\* An absent owner, marker or session is told apart from every present one.
ASSUME NoneAssumption ==
    None \notin Op \cup {"pending", "confirmed", "poll", "active", "switch"}

\* An entry as onboarding leaves it, before its first setup.
Init ==
    /\ strategy \in {"inbound", "callback"}
    /\ policy \in {"managed", "external"}
    /\ strategy = "callback" => policy = "external"
    /\ endpoint = IF strategy = "inbound" THEN "ha" ELSE "cloud"
    /\ movedBy = None
    /\ rollback \in BOOLEAN
    /\ marker = None
    /\ record = None /\ recordRedirects = FALSE /\ revived = FALSE
    /\ held = None /\ lock = None
    /\ loaded = FALSE /\ booting = FALSE
    /\ seen = "unknown" /\ plSeen = "unknown"
    /\ tr = "idle" /\ trTarget = "inbound" /\ trWrites = FALSE
    /\ rp = "idle" /\ rpPhase = "pending"
    /\ qk = "idle" /\ qkTarget = "ha"
    /\ pl = "idle" /\ cs = "idle"
    /\ ct = "idle" /\ ctRedirects = FALSE
    /\ tm = "idle" /\ tmRedirects = FALSE

-----------------------------------------------------------------------------
(* The authority *)

\* Check and set, never waits: a busy entry refuses the operation.
Acquire(o) == held = None /\ held' = o

\* A long-lived mode takes its ownership up again from its session file.
Adopt(o) == held \in {None, o} /\ held' = o

\* Exact token: releasing what another operation holds does nothing.
Release(o) == held' = IF held = o THEN None ELSE held

\* A write on its way: the collector takes the value, or never hears of it.
Send(e, by) ==
    \/ /\ endpoint' = e
       /\ movedBy' = IF e = endpoint THEN movedBy ELSE by
    \/ UNCHANGED wire

-----------------------------------------------------------------------------
(* Bind, rollback, manual write, system actions *)

QuickTargets(k) ==
    CASE k = "bind" -> {"ha"}  [] k = "rollback" -> {"cloud"}  [] OTHER -> Endpoint

\* The lease is taken before anything else; a bind that finds the snapshot at
\* Home Assistant and a rollback without a target end at once.
QuickStart(k) ==
    /\ loaded
    /\ qk = "idle"
    /\ Acquire(k)
    /\ qk' = "write"
    /\ k = "bind" => seen # "ha"
    /\ k = "rollback" => rollback
    /\ qkTarget' \in QuickTargets(k)
    /\ UNCHANGED <<wire, axes, file, lock, entry, seen, trVars, rpVars, plVars,
                   cs, ctVars, tmVars>>

QuickWrite ==
    /\ qk = "write"
    /\ IF held = "system" THEN UNCHANGED wire ELSE Send(qkTarget, None)
    /\ qk' = "receipt"
    /\ UNCHANGED <<axes, file, held, lock, entry, seen, trVars, rpVars, qkTarget,
                   plVars, cs, ctVars, tmVars>>

QuickLeaves == qk' = "idle" /\ qkTarget' = "ha" /\ Release(held)

\* A confirmed bind or rollback records who controls the endpoint; a manual
\* write records nothing, and neither touches the strategy or the marker.
QuickConfirmed ==
    /\ qk = "receipt"
    /\ held # "system" => endpoint = qkTarget
    /\ policy' = CASE held = "bind"     -> "managed"
                   [] held = "rollback" -> "external"
                   [] OTHER             -> policy
    /\ QuickLeaves
    /\ UNCHANGED <<wire, strategy, marker, rollback, file, lock, entry, seen,
                   trVars, rpVars, plVars, cs, ctVars, tmVars>>

QuickFails ==
    /\ qk # "idle"
    /\ QuickLeaves
    /\ UNCHANGED <<wire, axes, file, lock, entry, seen, trVars, rpVars, plVars,
                   cs, ctVars, tmVars>>

QuickStep == QuickWrite \/ QuickConfirmed \/ QuickFails

-----------------------------------------------------------------------------
(* The verified strategy transition *)

\* The lease is taken before the first await, the runtime lock after it.
TransitionStart(t) ==
    /\ loaded
    /\ tr = "idle"
    /\ TwoFlows \/ rp = "idle"
    /\ Acquire("transition")
    /\ tr' = "lock"
    /\ trTarget' = t
    /\ UNCHANGED <<wire, axes, file, lock, entry, seen, trWrites, rpVars, qkVars,
                   plVars, cs, ctVars, tmVars>>

TransitionLock ==
    /\ tr = "lock"
    /\ lock = None
    /\ lock' = "transition"
    /\ tr' = "plan"
    /\ UNCHANGED <<wire, axes, file, held, entry, seen, trTarget, trWrites,
                   rpVars, qkVars, plVars, cs, ctVars, tmVars>>

\* To inbound: write when the snapshot is not at Home Assistant; the same
\* strategy is a relocation. To callback: restore the cloud endpoint when the
\* integration manages it, else only reboot. (A relocation that only proves
\* new route metadata writes nothing.)
TransitionPlan ==
    /\ tr = "plan"
    /\ \/ trTarget = "inbound"
       \/ trTarget # strategy
    /\ trWrites' = IF trTarget = "inbound" THEN seen # "ha" ELSE policy = "managed"
    /\ tr' = IF trWrites' THEN "save"
             ELSE IF trTarget = "callback" THEN "journal" ELSE "restart"
    /\ UNCHANGED <<wire, axes, file, held, lock, entry, seen, trTarget, rpVars,
                   qkVars, plVars, cs, ctVars, tmVars>>

\* No overwrite of the endpoint without a durable way back.
TransitionSave ==
    /\ tr = "save"
    /\ trTarget = "callback" \/ seen = "cloud" \/ rollback
    /\ rollback' = TRUE
    /\ tr' = IF trTarget = "callback" THEN "journal" ELSE "restart"
    /\ UNCHANGED <<wire, strategy, policy, marker, file, held, lock, entry, seen,
                   trTarget, trWrites, rpVars, qkVars, plVars, cs, ctVars,
                   tmVars>>

\* Write-ahead: the pending marker, before any side effect on the collector.
TransitionJournal ==
    /\ tr = "journal"
    /\ marker' = "pending"
    /\ tr' = "restart"
    /\ UNCHANGED <<wire, strategy, policy, rollback, file, held, lock, entry,
                   seen, trTarget, trWrites, rpVars, qkVars, plVars, cs, ctVars,
                   tmVars>>

TransitionTo == IF trTarget = "inbound" THEN "ha" ELSE "cloud"

TransitionRestart ==
    /\ tr = "restart"
    /\ IF trWrites THEN Send(TransitionTo, "switch") ELSE UNCHANGED wire
    /\ tr' = "receipt"
    /\ UNCHANGED <<axes, file, held, lock, entry, seen, trTarget, trWrites,
                   rpVars, qkVars, plVars, cs, ctVars, tmVars>>

\* _confirmed: the endpoint fact is durable now, whatever the proof will say.
TransitionReceipt ==
    /\ tr = "receipt"
    /\ trWrites => endpoint = TransitionTo
    /\ IF trWrites
       THEN /\ policy' = IF trTarget = "inbound" THEN "managed" ELSE "external"
            /\ marker' = IF trTarget = "inbound" THEN marker ELSE "confirmed"
            /\ seen' = TransitionTo
       ELSE UNCHANGED <<policy, marker, seen>>
    /\ tr' = "verify"
    /\ UNCHANGED <<wire, strategy, rollback, file, held, lock, entry, trTarget,
                   trWrites, rpVars, qkVars, plVars, cs, ctVars, tmVars>>

TransitionLeaves ==
    /\ tr' = "idle" /\ trTarget' = "inbound" /\ trWrites' = FALSE
    /\ Release("transition")
    /\ lock' = IF lock = "transition" THEN None ELSE lock

CommitMarkerCleared(settles) == None

\* Only a commit that carries a strategy ends the journal.
CommitMarker(settles) == IF settles THEN None ELSE marker

\* The commit: strategy, policy and the end of the journal in one write.
TransitionCommit ==
    /\ tr = "verify"
    /\ trTarget = "inbound" => endpoint = "ha"
    /\ strategy' = trTarget
    /\ policy' = IF ~trWrites THEN policy
                 ELSE IF trTarget = "inbound" THEN "managed" ELSE "external"
    /\ marker' = CommitMarker(TRUE)
    /\ TransitionLeaves
    /\ UNCHANGED <<wire, rollback, file, entry, seen, rpVars, qkVars, plVars, cs,
                   ctVars, tmVars>>

\* The collector came back by itself: the inbound proof is kept, and nothing
\* of the axes or the marker changes.
TransitionRecoveredInbound ==
    /\ tr = "verify"
    /\ trTarget = "callback"
    /\ marker' = CommitMarker(FALSE)
    /\ TransitionLeaves
    /\ UNCHANGED <<wire, strategy, policy, rollback, file, entry, seen, rpVars,
                   qkVars, plVars, cs, ctVars, tmVars>>

\* A refusal, a timeout, an error: finally releases both.
TransitionFails ==
    /\ tr \notin {"idle", "lock"}
    /\ TransitionLeaves
    /\ UNCHANGED <<wire, axes, file, entry, seen, rpVars, qkVars, plVars, cs,
                   ctVars, tmVars>>

\* The wait for the lock has no timeout; only a cancelled flow ends it.
TransitionCancel ==
    /\ tr = "lock"
    /\ TransitionLeaves
    /\ UNCHANGED <<wire, axes, file, entry, seen, rpVars, qkVars, plVars, cs,
                   ctVars, tmVars>>

TransitionStep ==
    \/ TransitionLock \/ TransitionPlan \/ TransitionSave \/ TransitionJournal
    \/ TransitionRestart \/ TransitionReceipt \/ TransitionCommit
    \/ TransitionRecoveredInbound \/ TransitionFails

-----------------------------------------------------------------------------
(* The repair of an interrupted transition *)

AnyEntry == TRUE

\* A record the strict parser accepts; without one the task ends at once.
Unfinished == marker # None

\* The flow reads the marker first and keeps what it read.
RepairRead ==
    /\ rp = "idle"
    /\ Unfinished
    /\ TwoFlows \/ tr = "idle"
    /\ rp' = "suspend"
    /\ rpPhase' = marker
    /\ UNCHANGED <<wire, axes, file, held, lock, entry, seen, trVars, qkVars,
                   plVars, cs, ctVars, tmVars>>

\* A running entry is unloaded first; the repair works on a cold one as well.
RepairSuspend ==
    /\ rp = "suspend"
    /\ loaded' = FALSE
    /\ lock' = IF loaded THEN None ELSE lock
    /\ seen' = "unknown"
    /\ rp' = "acquire"
    /\ UNCHANGED <<wire, axes, file, held, booting, trVars, rpPhase, qkVars,
                   plVars, cs, ctVars, tmVars>>

\* A pending state needs the durable way back; a confirmed one needs none.
RepairAcquire ==
    /\ rp = "acquire"
    /\ rpPhase = "pending" => rollback
    /\ Acquire("repair")
    /\ rp' = "bootstrap"
    /\ UNCHANGED <<wire, axes, file, lock, entry, seen, trVars, rpPhase, qkVars,
                   plVars, cs, ctVars, tmVars>>

RepairBootstrap ==
    /\ rp = "bootstrap"
    /\ rp' = "restart"
    /\ UNCHANGED <<wire, axes, file, held, lock, entry, seen, trVars, rpPhase,
                   qkVars, plVars, cs, ctVars, tmVars>>

RepairRestart ==
    /\ rp = "restart"
    /\ IF rpPhase = "pending" THEN Send("cloud", "switch") ELSE UNCHANGED wire
    /\ rp' = "receipt"
    /\ UNCHANGED <<axes, file, held, lock, entry, seen, trVars, rpPhase, qkVars,
                   plVars, cs, ctVars, tmVars>>

RepairReceipt ==
    /\ rp = "receipt"
    /\ rpPhase = "pending" => endpoint = "cloud"
    /\ IF rpPhase = "pending"
       THEN policy' = "external" /\ marker' = "confirmed"
       ELSE UNCHANGED <<policy, marker>>
    /\ rp' = "verify"
    /\ UNCHANGED <<wire, strategy, rollback, file, held, lock, entry, seen,
                   trVars, rpPhase, qkVars, plVars, cs, ctVars, tmVars>>

RepairLeaves == rp' = "idle" /\ rpPhase' = "pending" /\ Release("repair")

RepairCommit ==
    /\ rp = "verify"
    /\ strategy' = "callback"
    /\ policy' = "external"
    /\ marker' = None
    /\ RepairLeaves
    /\ UNCHANGED <<wire, rollback, file, lock, entry, seen, trVars, qkVars,
                   plVars, cs, ctVars, tmVars>>

\* Nothing is undone: the marker stays for the next attempt.
RepairFails ==
    /\ rp # "idle"
    /\ RepairLeaves
    /\ UNCHANGED <<wire, axes, file, lock, entry, seen, trVars, qkVars, plVars,
                   cs, ctVars, tmVars>>

RepairStep ==
    \/ RepairSuspend \/ RepairAcquire \/ RepairBootstrap \/ RepairRestart
    \/ RepairReceipt \/ RepairCommit \/ RepairFails

-----------------------------------------------------------------------------
(* The poll and the reconcile of a managed endpoint *)

\* asyncio.Lock serves its waiters in order: a poll that finds the transition
\* waiting comes after it.
PollStart ==
    /\ loaded
    /\ pl = "idle"
    /\ lock = None /\ tr # "lock"
    /\ lock' = "poll"
    /\ pl' = "read"
    /\ UNCHANGED <<wire, axes, file, held, entry, seen, trVars, rpVars, qkVars,
                   plSeen, cs, ctVars, tmVars>>

\* A refresh that reaches the collector reads its endpoint.
PollRead ==
    /\ pl = "read"
    /\ plSeen' \in {endpoint, "unknown"}
    /\ seen' = plSeen'
    /\ pl' = "check"
    /\ UNCHANGED <<wire, axes, file, held, lock, entry, trVars, rpVars, qkVars,
                   cs, ctVars, tmVars>>

\* The policy is looked at here, before the listener is prepared.
PollCheck ==
    /\ pl = "check"
    /\ policy = "managed"
    /\ plSeen # "ha"
    /\ pl' = "prepared"
    /\ UNCHANGED <<wire, axes, file, held, lock, entry, seen, trVars, rpVars,
                   qkVars, plSeen, cs, ctVars, tmVars>>

PollTakesNothing ==
    /\ pl = "prepared"
    /\ pl' = "write"
    /\ UNCHANGED <<wire, axes, file, held, lock, entry, seen, trVars, rpVars,
                   qkVars, plSeen, cs, ctVars, tmVars>>

PollTake ==
    /\ pl = "prepared"
    /\ Acquire("reconcile")
    /\ pl' = "write"
    /\ UNCHANGED <<wire, axes, file, lock, entry, seen, trVars, rpVars, qkVars,
                   plSeen, cs, ctVars, tmVars>>

PollWrite ==
    /\ pl = "write"
    /\ Send("ha", None)
    /\ pl' = "receipt"
    /\ UNCHANGED <<axes, file, held, lock, entry, seen, trVars, rpVars, qkVars,
                   plSeen, cs, ctVars, tmVars>>

PollWaits == pl \in {"read", "check", "receipt"}

\* External policy, aligned, cooling down, not connected, busy or failed: the
\* reconcile is best effort and the poll goes on without it.
PollSkips == pl \in {"read", "check", "prepared", "receipt"}

PollEnd ==
    /\ PollSkips
    /\ pl' = "idle" /\ plSeen' = "unknown"
    /\ lock' = IF lock = "poll" THEN None ELSE lock
    /\ Release("reconcile")
    /\ seen' \in {seen} \cup {e \in {"ha"} : pl = "receipt" /\ endpoint = e}
    /\ UNCHANGED <<wire, axes, file, entry, trVars, rpVars, qkVars, cs, ctVars,
                   tmVars>>

PollStep == PollRead \/ PollCheck \/ PollTake \/ PollWrite \/ PollEnd

-----------------------------------------------------------------------------
(* Proxy capture: start *)

\* Only from the stable Cloud + Home Assistant profile, with no session.
CaptureStart ==
    /\ loaded
    /\ cs = "idle"
    /\ record = None
    /\ strategy = "callback" /\ policy = "external" /\ marker = None
    /\ Acquire("capture")
    /\ cs' = "context"
    /\ UNCHANGED <<wire, axes, file, lock, entry, seen, trVars, rpVars, qkVars,
                   plVars, ctVars, tmVars>>

\* Reads the live endpoint, then saves the session: from here the mode owns
\* the endpoint and the token outlives the call.  (A reset that read the session
\* before this one has written it back by now: a file job is faster than the
\* exchange with the collector.)
CaptureSave ==
    /\ cs = "context"
    /\ endpoint = "cloud" \/ rollback
    /\ seen' = endpoint
    /\ tm = "idle"
    /\ record' = "active"
    /\ recordRedirects' = (endpoint = "cloud")
    /\ revived' = FALSE
    /\ cs' = IF endpoint = "cloud" THEN "route" ELSE "routeOnly"
    /\ UNCHANGED <<wire, axes, held, lock, entry, trVars, rpVars, qkVars, plVars,
                   ctVars, tmVars>>

CaptureRefused ==
    /\ cs = "context"
    /\ cs' = "idle"
    /\ Release("capture")
    /\ UNCHANGED <<wire, axes, file, lock, entry, seen, trVars, rpVars, qkVars,
                   plVars, ctVars, tmVars>>

\* The route listens; the collector is then sent to it, if it is elsewhere.
CaptureRoute ==
    /\ cs \in {"route", "routeOnly"}
    /\ cs' \in {IF cs = "route" THEN "redirect" ELSE "wait", "abort"}
    /\ UNCHANGED <<wire, axes, file, held, lock, entry, seen, trVars, rpVars,
                   qkVars, plVars, ctVars, tmVars>>

CaptureRedirect ==
    /\ cs = "redirect"
    /\ Send("ha", "capture")
    /\ cs' \in {"redirected", "undo"}
    /\ UNCHANGED <<axes, file, held, lock, entry, seen, trVars, rpVars, qkVars,
                   plVars, ctVars, tmVars>>

CaptureRunning ==
    /\ cs \in {"wait", "redirected"}
    /\ record' = "active"
    /\ recordRedirects' = (cs = "redirected")
    /\ cs' = "idle"
    /\ UNCHANGED <<wire, axes, revived, held, lock, entry, seen, trVars, rpVars,
                   qkVars, plVars, ctVars, tmVars>>

\* No reconnect, a cancellation, an error: the shielded cleanup.
CaptureStartFails ==
    /\ cs \in {"wait", "redirected"}
    /\ cs' = IF cs = "wait" THEN "abort" ELSE "undo"
    /\ UNCHANGED <<wire, axes, file, held, lock, entry, seen, trVars, rpVars,
                   qkVars, plVars, ctVars, tmVars>>

CaptureUndo ==
    /\ cs = "undo"
    /\ Send("cloud", "capture")
    /\ cs' = "undone"
    /\ UNCHANGED <<axes, file, held, lock, entry, seen, trVars, rpVars, qkVars,
                   plVars, ctVars, tmVars>>

CaptureAssumedRestored == cs \in {"abort", "undone"}

\* Nothing was redirected, or the restore is read back.
CaptureRestored == cs = "abort" \/ (cs = "undone" /\ endpoint = "cloud")

\* The session and the token go together.
CaptureCleared ==
    /\ CaptureRestored
    /\ record' = None
    /\ recordRedirects' = FALSE
    /\ revived' = FALSE
    /\ Release("capture")
    /\ cs' = "idle"
    /\ UNCHANGED <<wire, axes, lock, entry, seen, trVars, rpVars, qkVars, plVars,
                   ctVars, tmVars>>

\* Not read back: a recoverable session stays, and so does the token.
CaptureUnrestored ==
    /\ cs = "undone"
    /\ record' = "active"
    /\ recordRedirects' = TRUE
    /\ cs' = "idle"
    /\ UNCHANGED <<wire, axes, revived, held, lock, entry, seen, trVars, rpVars,
                   qkVars, plVars, ctVars, tmVars>>

CaptureStep ==
    \/ CaptureSave \/ CaptureRefused \/ CaptureRoute \/ CaptureRedirect
    \/ CaptureRunning \/ CaptureStartFails \/ CaptureUndo \/ CaptureCleared
    \/ CaptureUnrestored

-----------------------------------------------------------------------------
(* Proxy capture: stop and recovery *)

\* By the user, on an expired lease or a lost route; the stop button and the
\* options form are shut while the start runs, the service is not.
StopRead ==
    /\ loaded
    /\ ct = "idle"
    /\ record # None
    /\ StopsDuringStart \/ cs = "idle"
    /\ ct' = "adopt"
    /\ ctRedirects' = recordRedirects
    /\ UNCHANGED <<wire, axes, file, held, lock, entry, seen, trVars, rpVars,
                   qkVars, plVars, cs, tmVars>>

StopAdopt ==
    /\ ct = "adopt"
    /\ Adopt("capture")
    /\ ct' = "save"
    /\ UNCHANGED <<wire, axes, file, lock, entry, seen, trVars, rpVars, qkVars,
                   plVars, cs, ctRedirects, tmVars>>

StopSave ==
    /\ ct = "save"
    /\ record' = "active"
    /\ recordRedirects' = ctRedirects
    /\ ct' = "guard"
    /\ UNCHANGED <<wire, axes, revived, held, lock, entry, seen, trVars, rpVars,
                   qkVars, plVars, cs, ctRedirects, tmVars>>

\* The endpoint is read, or the snapshot stands in for it. Away from the
\* proxy it is not overwritten, only verified.
StopGuard ==
    /\ ct = "guard"
    /\ \E now \in {endpoint, seen} :
          ct' = IF ~ctRedirects THEN "done"
                ELSE IF now = "cloud" THEN "verify" ELSE "restore"
    /\ UNCHANGED <<wire, axes, file, held, lock, entry, seen, trVars, rpVars,
                   qkVars, plVars, cs, ctRedirects, tmVars>>

\* The route itself restores on a trigger and the guard looks again, or the
\* runtime writes the original endpoint.
StopRestore ==
    /\ ct = "restore"
    /\ Send("cloud", "capture")
    /\ ct' \in {"guard", "verify", "unrestored"}
    /\ UNCHANGED <<axes, file, held, lock, entry, seen, trVars, rpVars, qkVars,
                   plVars, cs, ctRedirects, tmVars>>

StopVerify ==
    /\ ct = "verify"
    /\ ct' \in {"unrestored"} \cup {x \in {"done"} : endpoint = "cloud"}
    /\ UNCHANGED <<wire, axes, file, held, lock, entry, seen, trVars, rpVars,
                   qkVars, plVars, cs, ctRedirects, tmVars>>

StopLeaves ==
    /\ ct' = "idle" /\ ctRedirects' = FALSE
    /\ loaded' = (loaded \/ booting)
    /\ booting' = FALSE

\* Confirmed: the session and the token go together, shielded.
StopCleared ==
    /\ ct = "done"
    /\ record' = None
    /\ recordRedirects' = FALSE
    /\ revived' = FALSE
    /\ Release("capture")
    /\ StopLeaves
    /\ UNCHANGED <<wire, axes, lock, seen, trVars, rpVars, qkVars, plVars, cs,
                   tmVars>>

StopForgetsToken ==
    /\ ct = "unrestored"
    /\ record' = "active"
    /\ recordRedirects' = ctRedirects
    /\ Release("capture")
    /\ StopLeaves
    /\ UNCHANGED <<wire, axes, revived, lock, seen, trVars, rpVars, qkVars,
                   plVars, cs, tmVars>>

\* Unconfirmed: the session says so and the token is kept for a retry.
StopUnrestored ==
    /\ ct = "unrestored"
    /\ record' = "active"
    /\ recordRedirects' = ctRedirects
    /\ StopLeaves
    /\ UNCHANGED <<wire, axes, revived, held, lock, seen, trVars, rpVars, qkVars,
                   plVars, cs, tmVars>>

\* A foreign owner refuses the adoption; any later error leaves the session
\* and the token as they are.
StopFails ==
    /\ \/ ct = "adopt" /\ held \notin {None, "capture"}
       \/ ct \notin {"idle", "adopt"}
    /\ StopLeaves
    /\ UNCHANGED <<wire, axes, file, held, lock, seen, trVars, rpVars, qkVars,
                   plVars, cs, tmVars>>

StopStep ==
    \/ StopAdopt \/ StopSave \/ StopGuard \/ StopRestore \/ StopVerify
    \/ StopCleared \/ StopUnrestored \/ StopFails

-----------------------------------------------------------------------------
(* Proxy capture: the timer *)

\* The options form resets the timer or changes the duration: it reads the session
\* and saves what it read with a new deadline.  Both are executor jobs, outside
\* the lock of the stop and without the authority.
TimerRead ==
    /\ loaded
    /\ tm = "idle"
    /\ record # None
    /\ tm' = "save"
    /\ tmRedirects' = recordRedirects
    /\ UNCHANGED <<wire, axes, file, held, lock, entry, seen, trVars, rpVars,
                   qkVars, plVars, cs, ctVars>>

\* A stop that cleared the session in between finds it back on disk.
TimerSave ==
    /\ tm = "save"
    /\ record' = "active"
    /\ recordRedirects' = tmRedirects
    /\ revived' = (revived \/ record = None)
    /\ tm' = "idle" /\ tmRedirects' = FALSE
    /\ UNCHANGED <<wire, axes, held, lock, entry, seen, trVars, rpVars, qkVars,
                   plVars, cs, ctVars>>

-----------------------------------------------------------------------------
(* The entry *)

\* Setup recovers an interrupted capture before the entry is loaded. Also the
\* activation or restore at the end of a repair, which suspended the entry: a
\* reload by the user in the middle of one is left out.
Setup ==
    /\ ~loaded /\ ~booting
    /\ rp = "idle" /\ ct = "idle"
    /\ IF record = None
       THEN loaded' = TRUE /\ UNCHANGED <<booting, ctVars>>
       ELSE /\ booting' = TRUE
            /\ ct' = "adopt"
            /\ ctRedirects' = recordRedirects
            /\ UNCHANGED loaded
    /\ UNCHANGED <<wire, axes, file, held, lock, seen, trVars, rpVars, qkVars,
                   plVars, cs, tmVars>>

\* A reload, by the user or after a commit. What is in flight goes on: the
\* authority belongs to the process, not to the coordinator, whose lock and
\* snapshot the next one does not share. (A reload during a stop, which a
\* second stop would follow, is left out.)
Unload ==
    /\ loaded
    /\ ct = "idle"
    /\ StopsDuringStart \/ cs = "idle"
    /\ loaded' = FALSE
    /\ lock' = None
    /\ seen' = "unknown"
    /\ UNCHANGED <<wire, axes, file, held, booting, trVars, rpVars, qkVars,
                   plVars, cs, ctVars, tmVars>>

Crash ==
    /\ held' = None /\ lock' = None
    /\ loaded' = FALSE /\ booting' = FALSE
    /\ seen' = "unknown" /\ plSeen' = "unknown"
    /\ tr' = "idle" /\ trTarget' = "inbound" /\ trWrites' = FALSE
    /\ rp' = "idle" /\ rpPhase' = "pending"
    /\ qk' = "idle" /\ qkTarget' = "ha"
    /\ pl' = "idle" /\ cs' = "idle"
    /\ ct' = "idle" /\ ctRedirects' = FALSE
    /\ tm' = "idle" /\ tmRedirects' = FALSE
    /\ UNCHANGED <<wire, axes, file>>

-----------------------------------------------------------------------------
Next ==
    \/ \E k \in QuickOp : QuickStart(k)
    \/ QuickStep
    \/ \E t \in {"inbound", "callback"} : TransitionStart(t)
    \/ TransitionStep \/ TransitionCancel
    \/ RepairRead \/ RepairStep
    \/ PollStart \/ PollStep
    \/ CaptureStart \/ CaptureStep
    \/ StopRead \/ StopStep
    \/ TimerRead \/ TimerSave
    \/ Setup \/ Unload \/ Crash

Spec == Init /\ [][Next]_vars

\* Every wait of an operation is bounded by a timeout policy, and a task that
\* can run is run; nothing is assumed of the collector, of the user or of a
\* capture.
Fairness ==
    /\ WF_vars(QuickStep) /\ WF_vars(TransitionStep)
    /\ WF_vars(RepairStep) /\ WF_vars(PollStep)

FairSpec == Spec /\ Fairness

-----------------------------------------------------------------------------
(* Properties *)

FlagsOK ==
    /\ rollback \in BOOLEAN /\ recordRedirects \in BOOLEAN
    /\ loaded \in BOOLEAN /\ booting \in BOOLEAN
    /\ trWrites \in BOOLEAN /\ ctRedirects \in BOOLEAN
    /\ tmRedirects \in BOOLEAN /\ revived \in BOOLEAN

AxesOK ==
    /\ endpoint \in Endpoint /\ movedBy \in {None, "switch", "capture"}
    /\ strategy \in {"inbound", "callback"} /\ policy \in {"managed", "external"}
    /\ marker \in {None, "pending", "confirmed"}
    /\ record \in {None, "active"}
    /\ held \in Op \cup {None} /\ lock \in {None, "transition", "poll"}
    /\ seen \in Endpoint \cup {"unknown"} /\ plSeen \in Endpoint \cup {"unknown"}
    /\ trTarget \in {"inbound", "callback"} /\ qkTarget \in Endpoint
    /\ rpPhase \in {"pending", "confirmed"}

PhasesOK ==
    /\ tr \in {"idle", "lock", "plan", "save", "journal", "restart", "receipt", "verify"}
    /\ rp \in {"idle", "suspend", "acquire", "bootstrap", "restart", "receipt", "verify"}
    /\ qk \in {"idle", "write", "receipt"}
    /\ pl \in {"idle", "read", "check", "prepared", "write", "receipt"}
    /\ cs \in {"idle", "context", "route", "routeOnly", "redirect", "redirected",
               "wait", "abort", "undo", "undone"}
    /\ ct \in {"idle", "adopt", "save", "guard", "restore", "verify", "done", "unrestored"}
    /\ tm \in {"idle", "save"}

TypeOK == FlagsOK /\ AxesOK /\ PhasesOK

Journal == INSTANCE EndpointJournal WITH owner <- held, intent <- marker

\* The operations implement the journalled single-owner register: only the
\* holder of the authority moves the endpoint, a transition or repair sends the
\* collector to the cloud only behind the marker, and the strategy changes in
\* one write with the end of the marker.
ImplementsJournal == Journal!Spec

\* A collector that a transition or a repair sent back to the cloud while the
\* entry still waits for it inbound is never without the marker that lets the
\* repair finish, across crashes, failed proofs and other operations.
NeverStranded ==
    movedBy = "switch" /\ endpoint = "cloud" /\ strategy = "inbound"
        => marker # None

\* A collector that a capture redirected and that still points at the proxy is
\* never without the session file the recovery restores it from.
RedirectIsRecorded ==
    movedBy = "capture" /\ endpoint = "ha" => record # None /\ recordRedirects

\* A loaded entry with a persisted capture session holds the authority, so no
\* other operation can move the endpoint under the session.  Two exceptions: the
\* timer reset whose save falls after a stop has cleared the session and given the
\* token back, which leaves it on disk with a free authority until a later stop or
\* setup takes it up (revived); and, where StopsDuringStart, the stop or reload
\* that meets a running start.
SessionIsOwned == loaded /\ record # None => held = "capture" \/ revived

\* Every short operation gives the authority back: none waits for the runtime
\* lock, the collector or another operation for ever.
OperationEnds == held \in Op \ {"capture"} ~> held \notin Op \ {"capture"}
=============================================================================
