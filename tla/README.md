# Verification of EyeBond Local's connection layer

This directory holds TLA+ modules, TLC configurations and TLAPS proofs for
`src/custom_components/eybond_local/`, a Home Assistant integration that talks to
solar-inverter *collectors* (Wi-Fi dongles). A collector dials back to a TCP
listener inside Home Assistant after it was asked to by a UDP `set>server`
datagram (a *callback trigger*). Nothing on the wire ties a datagram to the socket
it causes, one NAT address may hide several collectors, and heartbeats carry only
a prefix of a collector's part number (PN). Most of the hard logic is therefore
about these questions:

* **who owns which collector and which socket** -- the callback session registry;
* **whose trigger caused a socket to appear** -- the callback trigger ledger;
* **who holds an accepted socket**, from admission to its last close -- the shared
  listener;
* **which request a reply answers**, on an object that outlives its sockets -- the
  connection;
* **where a frame begins**, in a stream with unframed bytes in it -- the reader;
* **who may move the endpoint** a collector dials, and what a crash leaves behind
  -- the strategy transition, the repair, the reconcile, proxy capture.

All six are modelled, checked and proved about, for every value of the constants.

All source paths below are relative to `src/custom_components/eybond_local/`.

## Inventory

| Component | State it keeps | Operations | Interacts with | What makes it correct |
|---|---|---|---|---|
| Identity rules `collector_identity.py` | none | same identity, prefer full, reconcile, source strength | everything that compares PNs | a spelling is enriched, never exchanged; prefixes under ten characters stand only for themselves |
| Session registry `connection/session_registry.py` | dict of claims (PN, session id, handoff flag) in insertion order | claim, claim_identity, claim_session, promote, prepare/complete handoff, retarget, two pins, certify, release | reads the listener inventory; called by entry setup, config flows, recovery, removal, runtime | one owner per collector; certification is true; an entry never loses what it owns |
| Session handle `connection/session_handle.py` | none (derived) | wire negotiation, adapters | registry, runtime link | an untrusted socket state never yields a wire |
| Shared listener `collector/transport/listener.py` | server, reference count, pending/parked sockets, inventory, connection indexes, reservations | acquire/release, accept, sniff, identify, park, evict, pop for route, activate, retire | acceptor below, transports and registry above | no socket in two places, none lost at shutdown, bounded parking |
| TCP acceptor `collector/transport/tcp_acceptor.py` | listening socket, admissions in flight, closing flag | accept loop, admit, close, drain | listener | bounded admissions, close waits for what it admitted |
| Framed/AT connections `collector/transport/connections.py`, `send_ownership.py`, `auxiliary_session.py`, `shared_framed.py`, `shared_at.py` | reader/writer, run epoch, pending requests, heartbeat | run, request, reply dispatch, disconnect | listener, runtime link | a late reply never answers another request; a stale run never closes its successor |
| Stream reader `connections.py` (`_read_loop`), `common.py` (`_PrefixedAsyncReader`), `binary_framing.py` | input buffer, frames and resynchronisations of this session | cut frames and AT responses out of the stream, skip unframed Modbus replies, resynchronise | connections | a sound frame is delivered whole whatever it is glued to; every wait is bounded |
| Trigger ledger `connection/callback_ledger.py` | generation, active sends, drained event, inhibitors, lease owner, attempt tallies | send scope, record, causality lease, silence window | all senders, recovery verification, removal | one attempt's window is attributable; a silence window is silent |
| Trigger facades `collector/discovery.py` | none / announcer task | send with retransmission, announcer loop | ledger | one logical send is recorded once and ends |
| Callback identity, matching, continuation `connection/callback_*.py` | one attempt | lease, baseline, trigger, wait, claim, read, match, promote, prepare | ledger, registry, listener | only a socket that was read is handed over; every failure releases |
| Admission transaction `connection/admission_transaction.py` | phase, owner, session id, budget | claim, identify, detect, commit, cancel | registry, listener | never admits what it does not own |
| Recovery verification `connection/recovery/*` | attempt phase, baseline, evidence | restart, observe disconnect and reconnect, certify | ledger, registry, endpoint operation | evidence only from the exact session and an undisturbed window |
| Strategy transition `connection/strategy_transition*.py` | write-ahead record in entry data | stage, write endpoint, confirm, commit, repair after restart | registry, recovery, endpoint operation | a crash at any point leaves a repairable record |
| Endpoint operation `connection/collector_endpoint_operation.py` | one token per entry | acquire, adopt, release | everything that writes the endpoint | at most one operation per entry, released by its own token |
| Endpoint actions `runtime/coordinator/management.py` | none | bind, rollback, manual write, system actions | endpoint operation | policy follows the confirmed write |
| Managed endpoint reconcile `runtime/coordinator/runtime_profile.py` | endpoint last seen, cooldown | check and rewrite in a poll | endpoint operation, runtime lock | never against another operation |
| Proxy capture `runtime/coordinator/cloud_tools.py`, `support/proxy_capture/trace.py` | session file, running proxy | start, stop, expiry, recovery at setup | endpoint operation | a redirected collector is always on record and restored |
| Recovery contract, policies `connection/recovery_contract.py`, `connection_policy.py` | persisted evidence | build, validate, project | strategy transition | pure |
| Removal finalization `connection/removal_finalization.py` | a ticket | silence window, own, restart, wait, release | ledger, registry | restarts only the exact collector it owns |
| Entry registration `integration_registration.py` | unload hooks | claim or complete handoff at setup, release at unload | registry, passive discovery | runtime never starts without ownership |
| Passive discovery `passive_discovery.py` | published and quarantined sessions | scan, publish, retire | registry, listener | does not publish an owned collector |
| Runtime `runtime/*` | link, hub, coordinator, scheduler | polling, reconnect, controls | transports, registry | (data acquisition; scheduler planned) |
| Drivers, payload, metadata, entities, cloud clients, flows, onboarding, support | tables, codecs, dialogue | -- | -- | not concurrent protocol state; not modelled |

**Hard behaviours.** Everything runs on one event loop, so a registry call is
atomic, but flows suspend between calls and act on what they saw before; sockets
appear, identify themselves and vanish meanwhile. The UDP exchange runs in worker
threads that a cancelled task does not stop. Prefix identity is not transitive:
one short PN matches two collectors, and "the first claim in the dict" answers.
`PROJECT.json` lists the hazards, each at its line.

## Modules

### CollectorIdentity

`SameIdentity`, `PreferFull`, `ReconcilePn` are `pn_is_same_identity`,
`prefer_full_pn` and `reconcile_pn`. A PN is an opaque value; `StartsWith` and
`PnLen` keep what the code reads of the string. The assumptions say that
`startswith` is a partial order whose down-sets are chains, that a proper prefix
is shorter, and that nothing continues a full PN (the rule the registry docstring
calls "two sessions with different full PNs are always distinct collectors").
`ReconcilePn` has no length threshold and `SameIdentity` has one, as in the code.

### SessionRegistry

State: `claims` and `before` are the `_claims` dict and its insertion order;
`sess` is the listener's inventory; `setup` is the outcome Home Assistant last
saw for each entry. `sess[s].peer` is the collector really at the other end: no
guard of a registry call reads it, it is what an identity query on the socket
answers.

| Action | Code |
|---|---|
| `Accept`, `Identify`, `Activate`, `Close` | `_handle_connection`, `_mark_session_identity`, `activate_pending_*`, every way a socket loses its live backing |
| `SetupEntry`, `SetupRefused`, `UnloadEntry` | `_register_entry_callback_session_claim`: `complete_handoff`, else `claim`; the error branch with the unload hook; the unload hook |
| `ClaimSession` | `claim_session` from callback identity, admission and recovery; the id may be stale |
| `Promote`, `PromoteRefused` | `promote_claim_to_full_pn` with the PN read on the claimed socket, and the release a refusal leads to |
| `PrepareHandoff` | `prepare_handoff`; a refusal releases as the callers do |
| `Retarget` | `retarget_claim_to_reconnected_session` |
| `ClaimIdentity` | `claim_identity` (cold repair) |
| `PinCurrent` | `pin_owner_claim_to_current_observed_session` with `session_handle_for_pn` |
| `FinalizeRemoval` | the removal finalizer's synchronous claim, pin and certification |
| `Release` | `release` at the end of a flow |

`Coalesced` is the registry's `_coalesce`, a recursive function over the sockets
in acceptance order; `MatchedSession` is the observation `claim` enriches from;
`IsHandleFor` is the ranking in `session_handle_for_pn`.

Owners are typed by the prefix of their id, because `SetupRefused` decides on it
and because the flows make different calls.

Left out: `session_protocol`, which no ownership decision reads except the
transient-claim test of `claim_identity` (a claim with a protocol also has a PN or
a session in the modelled callers); `reconcile_identity`, which has no production
caller; entries without a PN, which return before any claim; the quarantine that
the release hook sets in passive discovery; the private registry a runtime link
creates for itself (`runtime/link/wire_authority.py`), another instance with one
owner.

### CallbackLedger

State: the ledger's fields (`generation`, `active`, `drained`, `inhibitors`,
`owner`, `attempts`) and where each task stands: `lease`, `silence` for the tasks
that use `causality_lease` and `inhibit_callback_triggers`, `send`, `passes` for
the senders, and `wire`, the senders whose worker thread is transmitting.

| Action | Code |
|---|---|
| `AcquireLease`, `WaitForLease`, `DuplicateRefused`, `GiveUp`, `LeaveLease` | one poll of `causality_lease` each way it can end; its `finally` |
| `BeginSend`, `PassDone`, `Retransmit`, `EndSend`, `CancelSend` | `async_send_callback_trigger` around `asyncio.to_thread(_probe_target_sync)` |
| `Announce` | one datagram of `DiscoveryAnnouncer`, which does not await inside the scope |
| `Inhibit`, `Drained`, `LeaveSilence` | `inhibit_callback_triggers` up to its await, after it, and its `finally` |

A sender's context variable is fixed: the attempt that spawned it, or none. A
refused send changes nothing and is a stuttering step. `_history` is diagnostic
and left out.

### ListenerSockets

State: `user`, `ref`, `acceptor` and `leave` are the listener's reference count,
acceptor and the release under way (one at a time, `_LISTENERS_LOCK`);
`admitting`, `pending`, `parked`, `task`, `conn` say who holds a socket; `op` is
the holder of `_pending_route_lock` and the facade it works for, `waiting` the facades
with a call suspended at that lock; `state` is the session state in the inventory.
Which collector a socket belongs to is a free choice, so the model has every
decision bytes and identities can lead to.

Two windows of the code are kept open, because sockets get away through them (see
Findings):

* A facade's `stop()` sets its `_listener` to `None` at once and only then waits for
  `_LISTENERS_LOCK`, while a call of the same facade may be suspended in
  `pop_pending_socket_for_route`. The pop still claims a socket (`Claimed`), and the
  activation that follows in the same step (`Activated`) finds the facade in place, or
  not: then the socket is in `lost`.
* The `run()` that an activation spawns takes its first step later (`RunStarts`);
  until then the socket is in `starting`, and a disconnect finds no writer to close
  (`Disconnected`): the connection leaves the indexes and the socket is in `strays`.

| Actions | Code |
|---|---|
| `Accept`, `Admit`, `AdmitAborted`, `AcceptFails` | the acceptor's accept callback, admission task and fatal accept error; `_handle_connection` |
| `Acquire`, `BindDone`, `BindFails` | `_acquire_listener_locked`, the bind, its failure or cancellation |
| `Stop` | `stop()` of a facade up to the lock: it has no listener any more |
| `Leave`, `LeaveTakes`, `TaskJoined`, `LeaveSnapshot`, `Disconnects` | `release_collector_connections` of one transport, one socket at a time |
| `Unreference`, `Drained`, `ShutTakes`, `Cleared`, `Released` | `_release_shared_listener` and the last `release` |
| `Park`, `SniffEof`, `SniffRoutes`, `WatchData`, `WatchEnds` | the sniff task and the watch task |
| `RunStarts`, `RunEnds` | the first step of a spawned `run()`, and its end |
| `CallWaits`, `CallReturns` | a facade's call that finds `_pending_route_lock` taken |
| `Select`, `Paused`, `TakeMatched`, `TakeDone`, `RetireDone`, `Probe*`, `PauseOver`, `Cancelled` | the holders of `_pending_route_lock`, one action per stretch between awaits, and their cancellation |

Left out: proxy reservations of a route, the bytes of the probes.

### CollectorConnection

One connection object, the union of the framed and the AT class. The fields outlive
a socket, so `run[s]`, `reader[s]` and `req[r]` say where each task stands while
`writer`, `epoch`, `aux`, `pending` are the object's. A frame is read in two
steps, because a reader may be cancelled between them.

| Actions | Code |
|---|---|
| `Bind`, `BindElsewhere` | the listener gives the idle object a socket |
| `Run`, `RunWakes`, `RunCloses` | `run()` up to its wait, the end of the wait, the `finally` with its epoch check |
| `ReleaseSession`, `ReleaseKeys`, `ReleaseEnds` | the two ways the listener disconnects a route |
| `Refuse`, `Admit*`, `BootAgain`, `BootEnds`, `Write`, `Finish`, `Fail` | a framed, AT, raw or auxiliary request behind its lock, with the ownership checks after every await |
| `FirstByte`, `FrameEnds`, `ReaderDone`, `ReaderStops`, `CancelLands`, `Heartbeat` | the reader, its errors and cancellation, the heartbeat loop |

Which sockets an object is given is the listener's choice, and it matters. `Replacing`
has three values:

* `"never"`, the listener's rule: only an unbound placeholder gets a socket, so the
  branch of `run()` that disconnects a predecessor is not reached in the program;
* `"settled"`, what the tests of the class do: a socket may replace a live one, once
  every earlier call of `run()` has installed its socket. `NoOrphanedWait` does not
  hold here: a successor run between the end of its predecessor's reader and the
  `finally` of that run finds nothing connected, disconnects nothing, and the
  predecessor's futures wait for their timeouts;
* `"overlapping"`: at any time. With three sockets `NamesOwnSession` and
  `ReplyOnOwnSocket` then fail (see Findings).

A release between the activation and the first step of `run()` is the
listener's matter (`starting` in ListenerSockets). AT and raw replies carry no id: a
late one may answer the next request of its kind on the same socket.

Left out: liveness timestamps, counters, the two facades, the line parser of the
AT class; the raw bootstrap `"none"` (`connections.py:1307-1309`), which sets the flag
without an exchange; and the identity that an FC2 or `DTUPN` reply records
(`connections.py:816-823`, 424-429), behind the same guard as the heartbeat's.

### FrameReader

The byte stream of one session. `sent` is what arrived, as pieces of a catalogue,
`stream` their bytes and `ends` where each piece ends in it; `pos` is how far the stream was taken, and `unread` moves it back; `mode` is the
await the loop stands at; `last` is the record finished last. Header fields, the
shape of an RTU reply and the AT terminator are real bytes. The CRC is ideal: it
verifies the replies of the catalogue and nothing else.

| Actions | Code |
|---|---|
| `ReadFirst`, `ReadPrefix`, `ReadShort`, `ReadHeader`, `ReadRejected`, `ReadAccepted`, `ReadPayload` | one per `readexactly` of `_read_loop`, with the decision that follows it |
| `TimeOut` | the `wait_for` around each of them |
| `DiscardAvailable`, `Resync` | `_skip_cut_off_stray_rtu_reply`, `_resync_after_unrecognised_header` |
| `AtStop`, `AtIdle` | `read_at_response`, by its byte loop or its idle gap |
| `EofEnds` | `IncompleteReadError` |

One assumption on the catalogue is a limit of what is shown: no reply, whole or cut off,
decodes as a complete frame that is no longer (`NotAFrame`). The reader makes a trade-off
there ("a claimed frame no longer than the reply is left alone so a short genuine frame
is never delayed", `connections.py:739-744`): it takes such a reply for the frame it
decodes as. `Unambiguous` is what the proof of `RecordsTrue` asks of it besides: no frame
begins like an AT response or with the bytes of a whole reply, an AT response is
printable, and nothing across the seam of a bare response and a frame decodes as a line
end or a header. The catalogue of `ReaderRecords` has this, that of `ReaderTextFrame`
has not.
A piece arrives in one burst; a genuine frame that stalls for two seconds and looks
like a reply is dropped as cut off, by design.

Left out: the auxiliary channel's `BinaryFrameDecoder`, the 4096-byte cap of an AT
response, and what a frame means to its request (CollectorConnection).

### EndpointJournal and EndpointOwnership

`EndpointJournal` is the abstract specification: a register (the endpoint the
collector keeps) with at most one owner, and a journal for the only moves that can
strand the collector. Its state is five variables and its steps are the promises
of the module comments. `EndpointOwnership` is the code, and `ImplementsJournal`
the refinement, with `owner <- held`, `intent <- marker` and the axes as they are.

Each operation has a program counter: `tr` (transition), `rp` (repair), `qk` (bind,
rollback, manual write, system action), `pl` (poll with reconcile), `cs` and `ct`
(capture start and stop). Durable are the entry data (`strategy`, `policy`,
`marker`, `rollback`), the session file (`record`, `recordRedirects`) and the
collector's own `endpoint`; `Crash` resets everything else between any two steps.
The four statuses a session file can have (starting, running, stopping, restoring)
all count as active and no guard tells them apart, so the file is there or not.
`tm` is the timer reset of the options form, between its read of the file and its
save; it takes neither the stop's lock nor the authority. `revived` remembers that its
save brought back a session which a stop had cleared in between.
A write to the collector is two steps: it may not arrive, and its receipt may be
lost.

| Actions | Code |
|---|---|
| `Transition*` | `async_run_connection_strategy_transition`, `_async_transition_to_inbound`, `_async_transition_to_callback` |
| `Repair*` | the degraded repair of the options flow and its bootstrap transaction |
| `Quick*` | `_collector_endpoint_operation` and the operations under it |
| `Poll*` | `_async_update_data` and `_async_reconcile_managed_collector_endpoint` |
| `Capture*`, `Stop*` | `async_start_proxy_capture`, its cleanup, `_async_stop_proxy_capture_once`, the recovery at setup |
| `TimerRead`, `TimerSave` | `async_touch_proxy_capture_lease`, `async_set_proxy_capture_duration_minutes` |
| `Setup`, `Unload`, `Crash` | coordinator lifecycle; the process dies |

Assumed of the environment: a collector connects on its own only to the endpoint it
holds, and a write is confirmed only when it was done. `async_update_entry` and the
session-file save are atomic and durable (`write_text` in `trace.py:447` is not;
listed as a hazard). A timer reset that read the file of one session has saved it
before the next capture saves its own, since one file job is faster than a restore and
the next start's exchanges with the collector (the guard `tm = "idle"` of
`CaptureSave`).

Left out: staged writes (`apply_changes=False`), shadow learning, the provenance
fields of a write, the proof records of the recovery contract, the cached rollback
target, cooldown and pending target of the reconcile (they only make it skip, which
it may always do here), a second concurrent capture start. Also left out:

* two more holders of the authority, `runtime_link_baud_sweep` and `shadow_learning`,
  which write no endpoint axis of the model;
* a reload during a stop (`Unload` wants `ct = "idle"`): the terminalization lock
  belongs to the coordinator (`cloud_tools.py:429-434`), so the recovery of the next one
  would run a second stop under the same token beside the first;
* a reload by the user in the middle of a repair (`Setup` wants `rp = "idle"`);
* the `virtual_bridge` branch (`coordinator/strategy.py:350-357`), in which a local
  bridge passes the rollback step of a transition without a cloud endpoint.

## Runs

| Run | Instance | Result |
|---|---|---|
| `RegistryHandoff` | full PNs A, B sharing the prefix S; one entry, one verification, one recovery flow; two sockets | `TypeOK`, `CertifiedIsTrue`, `PreparedIsProven`, `ClaimOnlyEnriches` hold (118 374 states) |
| `RegistryEntries` | adds T, a six-character prefix below the identity threshold, a second entry and a removal; one socket, all settled socket states | `IdentityExclusive`, `LoadedOwns` hold (44 087 states, entries symmetric) |
| `LedgerWindows` | three tasks, two of them under one attempt id; three senders: no attempt, each attempt; three triggers, two passes each; fairness | `TypeOK`, `LeaseLockStep`, `SilentWindow`, `WindowAttribution`, `SilenceOpens`, `LeaseReturns` hold (122 656 states) |
| `ListenerCustody` | two transports, two sockets, one admission, one parked socket | `TypeOK`, `Custody`, `ReleasedIsEmpty`, `TerminalStays`, `ParkMakesRoom`, `RoutedIsOpen` hold (1 784 594 states, transports and sockets symmetric) |
| `ListenerProgress` | one transport, two sockets, fairness | `PeerCloseNoticed`, `LeaveEnds` hold (155 953 states) |
| `ListenerUnwatched` | one transport, one socket | `AlwaysWatched` is violated (finding) |
| `ConnectionReplaced` | two sockets, the second may replace the live first (`"settled"`); two requests of any of the four kinds | `ReplyIsOwn`, `ReplyOnOwnSocket`, `NamesOwnSession`, `BootstrapIsFresh`, `OnlyOwnTeardown` hold (644 955 states) |
| `ConnectionRouted` | two sockets bound by the listener's rule, two AT requests, one heartbeat, one release; fairness | `TypeOK`, `NoOrphanedWait`, `RequestEnds`, `SessionRetires` hold (228 414 states) |
| `ReaderRecords` | two frames that begin like replies, three whole replies, two cut-off ones, two leftovers, two AT responses; four arrive, in any order and gluing; fairness | `TypeOK`, `RecordsTrue`, `NoFalseClose`, `KeepsGluedFrame`, `Settles` hold (602 810 states) |
| `ReaderTextFrame` | an AT response without line end, a frame with one byte of payload | `RecordsTrue` is violated (finding) |
| `OwnershipJournal` | one entry with all its operations, crashes at every step; fairness | `TypeOK`, `NeverStranded`, `RedirectIsRecorded`, `SessionIsOwned`, `ImplementsJournal`, `OperationEnds` hold (799 460 states) |
| `OwnershipStopRace` | the same, with a stop while a start is under way | `SessionIsOwned` is violated (finding) |

**Bounds.** `MaxSession` bounds the sockets accepted in a behaviour, `Settled`
the states an unrouted socket settles in, `MaxGeneration` the recorded triggers,
`MaxPasses` the probe passes of one send. Two collectors behind one prefix are
the smallest instance in which prefix identity is ambiguous; two sockets are
needed for a reconnect (`Retarget`, `Coalesced` with a duplicate, the tie rule of
`session_handle_for_pn`); three owners for a claim order in which the first match
matters. Three ledger tasks are a holder, a waiter and a duplicate. The registry,
ledger, listener, connection and ownership invariants are also proved without bounds.

`MaxAdmissions` and `MaxParked` are the acceptor's and the listener's limits, at one
so that two sockets exceed them; two transports are needed for a release that is
not the last. `MaxWaiting` bounds the facades with a call suspended at
`_pending_route_lock`; at two, both may have one that outlives their stop, and at
zero in `ListenerProgress`, whose one transport can still stop during a call that holds
the lock. In the connection, two sockets are a session and its successor, two
requests a holder of the lock and a waiter; `TidModulus` is the wrap of the
transaction id, just large enough that no id is reused while its reply can still
come (in the code 65 536 requests); `MaxHeartbeats` and `MaxReleases` bound what
is not a request; `Kinds` and `Replacing` choose the instance. The reader needs
four pieces to reach the limit of two resynchronisations in a row on a session that
delivered a frame (`ResyncLimit`). `EndpointOwnership` has no numeric bound: its
operations repeat for ever. `TwoFlows` and `StopsDuringStart` add the two
interleavings that break it (see the hazards and findings).

**Deadlock** is checked in the registry and ownership runs. Elsewhere it is not:
tasks, sockets and pieces are bounded, so a behaviour legitimately ends when
everybody is done.

**Fairness.** Nothing is ever assumed of the collector, of new calls, or of
cancellations.

* *Ledger.* `PassDone`: each socket operation of `_probe_target_sync` has a timeout
  and the payload variants are finitely many. `EndSend`, `Drained`: the event loop
  runs a ready task. `LeaveLease` and leaving a *silent* window: the bodies of both
  scopes run under deadlines of their own (callback identity, recovery verification
  and the removal finalizer all bound their waits). `Retransmit` needs none: it is
  bounded by the retry window.
* *Listener.* Weak fairness of the steps of a release and of a route operation: each
  await in them is bounded or joins a task that was cancelled. Strong fairness of
  `SniffEof` and `WatchEnds` on a stream that ended: route operations pause and
  re-arm the watcher, which takes its step away and gives it back; a re-armed
  watcher reads EOF at once. Nothing is assumed of a `run()` that has not begun.
* *Connection.* Weak fairness of `run()`, of a release, of a cancellation that was
  requested, and of the end of a request: every wait for a reply and for the lock
  has a timeout or hangs on a holder that has one.
* *Reader.* Weak fairness of the loop: it is one task, and every wait inside a record
  is wrapped in `wait_for`.
* *Ownership.* Weak fairness of the steps of a transition, a repair, a short operation
  and a poll, which wait only for bounded exchanges and for the runtime lock; none of a
  capture, its stop or a timer reset. The runtime lock is an
  `asyncio.Lock`, which is first come first served: a poll does not overtake a
  waiting transition.

## Findings

Kept as runs, each a disagreement of the code with a comment or docstring:

1. *Unwatched socket.* A claim, probe or retirement cancelled during its pause leaves
   a registered socket without a watcher (`ListenerUnwatched`); only
   `async_identify_pending_session` has the `finally`.
2. *Stop against start.* A stop by the service while the start is under way adopts the
   start's token, and both save, clear and release on their own
   (`OwnershipStopRace`). In the shortest trace the start fails, its cleanup clears the
   session and releases the authority, and the stop, which had read the session before,
   saves it again. In the other order the stop clears and releases, and the start goes
   on and saves its running session. Either leaves a session without an owner.
3. *Text taken for a header.* Behind an AT response without line end,
   `read_at_response` accepts the first eight bytes that decode as a header, although
   they may begin in the text: with devcode 0x0994 and a payload of 0, 1, 2, 15, 16 or
   17 bytes the window that ends at the frame's own length field passes
   (`ReaderTextFrame`). The reader then waits for a frame of 2458 bytes.

Known from the models and stated at the hazard or here, without a run of their own:

* *Lost claim.* A facade that stops while its own call is suspended in the pop has no
  listener to activate the claimed socket with: the call ends with an `AttributeError`
  and the socket stays open, in no table and with no task (`shared_framed.py:139`
  against 356/363, 397/404 and 477/484; `shared_at.py:116` against 206/214, 284/292,
  362/370 and 450/457). `Custody` and `ReleasedIsEmpty` except exactly these (`lost`).
* *Session that outlives its release.* A disconnect between the spawn of a `run()`
  (`listener.py:2009`, 2070) and its first step finds `_writer` `None` and closes
  nothing, and the indexes forget the connection (`listener.py:256-261`, 1796-1837, "Close
  every exact physical session belonging to one released route"); the run then serves
  an open socket until the collector hangs up. `ReleasedIsEmpty` excepts these
  (`strays`).
* *Session that comes back.* The timer reset saves the session file it read
  (`cloud_tools.py:1179` to 1193, 1209 to 1232) without the stop's lock; a stop that
  clears the session and releases the token in between (582-585) leaves a session on
  disk with a free authority, until the next stop or setup adopts it. `SessionIsOwned`
  excepts these (`revived`).
* `claim` binds a session that a PN-less `claim_session` claim already holds
  (`session_registry.py:370` against the module docstring, line 19).
* `pin_owner_claim_to_current_observed_session` accepts a socket with a weak short PN
  (`session_registry.py:834` against 845-847); certification still wants a strong one.
* A conflict with a `callback_recovery:` owner is not retried
  (`integration_registration.py:136` against 78-79).
* A lease can be taken while a foreign send is still inside its scope
  (`callback_ledger.py:218` against 76-77), and a cancelled send leaves its scope while
  its worker thread still transmits (`discovery.py:141` against
  `callback_ledger.py:163-164`).
* A fatal accept error closes the acceptor, and the listener stays registered and
  deaf (`tcp_acceptor.py:103`, `listener.py:2594`).
* The reconcile does not look at the policy again under the authority
  (`runtime_profile.py:225` against 130-131).
* `run()` does not look at its epoch again after it has awaited the disconnect of its
  predecessor (`connections.py:351-375`, 1355): a third socket that is run meanwhile
  is overwritten by the older one, whose late frames then name, and answer calls of,
  the newer session. No caller of the listener does this; it is what `Orderly` excludes
  in the proofs, and `Replacing = "overlapping"` with three sockets in
  `ConnectionReplaced.cfg` shows it.
* With two strategy flows at once (`TwoFlows`), a stale repair writes the marker back
  under the callback strategy.
* `_resync_after_unrecognised_header` says that a second unrecognised header closes the
  session; the limit is two, so it is the third. Of several frames glued behind
  leftover bytes only the last is kept.
* `_looks_like_stray_modbus_rtu_reply` is called purely diagnostic
  (`common.py:267-271`, `binary_framing.py:65-70`), but it decides in `_read_loop`
  (line 681) whether a session may resynchronise.

## Proofs

Six modules prove, for every value of the constants that satisfies the named
assumptions, every safety invariant that the passing runs check, all their action
properties but one (`KeepsGluedFrame`, in a weaker form), and the refinement. Where a
theorem has a hypothesis (`ASSUME ... PROVE Spec => ...`) it is on a switch of the model or
on the catalogue, and a run or a remark under Findings shows what fails without it.
Three statements name what the code lets through: `lost` in `Custody`, `lost` and
`strays` in `ReleasedIsEmpty`, `revived` in `SessionIsOwned`. Each of these sets is
filled by one step only, the one Findings describes; everything else is proved.

| Module | Theorems about run properties | Hypothesis |
|---|---|---|
| `SessionRegistryProofs` | `TypeOK`, `IdentityExclusive`, `CertifiedIsTrue`, `PreparedIsProven`, `LoadedOwns`, `ClaimOnlyEnriches` | none |
| `CallbackLedgerProofs` | `TypeOK`, `LeaseLockStep`, `SilentWindow`, `WindowAttribution`; also `GenerationFrozen` | none |
| `ListenerSocketsProofs` | `TypeOK`, `Custody`, `ReleasedIsEmpty`, `TerminalStays`, `RoutedIsOpen`, `ParkMakesRoom` | none |
| `CollectorConnectionProofs` | `TypeOK`, `ReplyIsOwn`, `BootstrapIsFresh` | none |
| | `ReplyOnOwnSocket`, `NamesOwnSession`, `OnlyOwnTeardown` | `Orderly`: `Replacing # "overlapping"` |
| | `NoOrphanedWait` | `Listener`: `Replacing = "never"` |
| `FrameReaderProofs` | `TypeOK`, `NoFalseClose`; also `GivesFrameBack` | none |
| | `RecordsTrue` | `Unambiguous`: nothing in the catalogue reads as something else |
| `EndpointOwnershipProofs` | `TypeOK`; also `OneOwner`, the exclusive authority | none |
| | `NeverStranded` | `OneFlow`: no two strategy flows at once |
| | `RedirectIsRecorded`, `SessionIsOwned`, `ImplementsJournal` | `OneFlow`, and `StartAlone`: no stop during a start |

**Registry.** `IInv` is `TypeOK /\ IdentityExclusive /\ SocketsOK /\ FlowsOK /\
LoadedOwns`. Exclusivity alone is not inductive: certification and promotion
depend on what a socket's PN says of its peer (`SocketsOK`: an observed PN is a
prefix of the peer's, and equals it once strong), and completing a handoff
depends on what a flow may hold (`FlowsOK`: a flow has a PN only after it read the
full one on a concrete socket, and only such a claim is prepared). Every call that
changes the dict is first reduced to one of three shapes (`StepShape`): it stores a
claim whose PN continues the owner's own or one that nobody else holds, it drops a
claim, or it hands one over. The core lemma is that an owner who is first among the
holders of a PN may take any spelling the code computes from it without meeting
another owner's identity: the prefixes of one PN form a chain, so a second holder
of the longer spelling would have held the shorter one already (`SharedByShorter`).
Of `MatchedSession` only the filter is used -- a matched observation has the
identity asked for -- so no induction over `Coalesced` is needed.
`CertifiedIsTrue` follows from `SocketsOK` and the assumption that nothing
continues a full PN; `ClaimOnlyEnriches` is proved from `IInv` and the step shapes.

**Ledger.** `IInv` adds to `TypeOK` and `LeaseLockStep` that the counters are the
cardinalities of what they count -- `active` of the senders in scope,
`inhibitors` of the tasks between `Inhibit` and `LeaveSilence`, and `drained`
exactly when `active` is zero. Without it nothing prevents `max(0, n - 1)` in the
two `finally` clauses from hiding a lost count. `SilentWindow` and `NoForeign` (no
open attempt was ever told of a foreign trigger) are the other parts;
`GenerationFrozen` and `WindowAttribution` follow.

**Listener.** `Custody` is nearly inductive on its own; what it needs is that an
operation which paused a socket knows it as registered (`TasksRegistered`), that only an
admission has a socket without an inventory record (`FreshIsAdmitted`, which keeps a
lost socket from being accepted again) and that what a
release has in its hands has left the registry (`ReleaseHands`). `ReleasedIsEmpty` is
about the last of a chain of snapshots: `OneInLock` and `RefCounts` tie the reference
count to the transports that hold one, `AcceptorServes` the acceptor to the count, and
`ShutdownClears` says, step by step of the shutdown, what can still be there: in the
last loop a connected socket is closed, on the list, or a stray. For
`ParkMakesRoom` the insertion order of `_pending_sockets` has to stay a strict total
order (`DictOrder`); the oldest socket an eviction leaves parked then has all others
behind it, so they are fewer than the limit (`EvictionMakesRoom`, by a least element of
a set of naturals).

**Connection.** Two invariants. `BaseInv` needs no hypothesis. A call past the queue has
the lock, a socket and a kind (`RequestsAimed`); the slots hold calls of their kind
(`SlotsOwned`) and every unresolved future is in one (`PendingInSlot`), so a disconnect
finds it; a socket that was not installed is untouched (`FreshUntouched`), a reader
lives within its run, and no two runs have one epoch (`SessionInv`). `ReplyIsOwn` rests
on two arguments. *Ids:* every id in use, by a call or by a reply that can still arrive,
was taken fewer than `Taken` ids ago, and `Taken`, the calls that left the queue and the
heartbeats, stays below the modulus by `TidAssumption`, so the next id is none of them
(`TidsFresh`, `AgoMoves`). *Fence:* on a stream that is not retired there is at most
one auxiliary reply under way and it belongs to the claimant (`AuxFenced`), because an
exchange that is given up closes its socket. `OrderInv` is about who owns the object:
one run at a time is between its call and its installation (`OneStarting`), the writer
is the socket of the run with the current epoch (`OwnerIsLatest`), and a reader that is
neither retired nor ended reads for it (`OnlyOwnerReads`). `OneStarting` is where
`Orderly` enters. A call keeps the epoch of its socket's run (`EpochCaptured`), so a
reply that was set while that epoch is current came on its socket (`AnsweredHere`),
which is what `ReplyCheck` looks at. With the listener's rule `RouteInv` adds that at most one
socket is bound or read and that the index names it while a route key leads to the
object; hence nobody binds a second one, every pending future is the writer's, and the
next `Detach` fails them all (`DetachFailsAll`).

The finiteness of `Request` and `TidAssumption` bound what one behaviour does: the claim
is about fewer than 65 536 requests and heartbeats for as long as a late reply lives,
which the model takes to be the whole behaviour.

**Reader.** `ReaderInv` is about bytes: every piece lies in the stream between two ends
(`Layout`), the bytes in hand are the stream's from `start` on, so a look ahead that is
given back loses nothing (`InHand`), and at each await they have the length and the
shape the decision before it saw (`Knows`). What the loop decides depends on three or
eight of them only (`SamePrefix`, `SameHeader`), hence on the piece they belong to
(`PieceTells`). From that follows `OnCourse`: which awaits a frame, a reply, a response
and a final cut-off reply can lead to. A close is at none of them; that is
`NoFalseClose`, and it needs that what is waited for inside a piece arrived with it. For
`RecordsTrue` each way to finish a record is compared with the end of the piece
(`TakenRightly`); the work is in where `read_at_response` stops: at the CR LF of a plain
line (`LineStops`), nowhere in a bare response (`BareAlone`), and eight bytes into the
frame behind one (`BareThenFrame`), which is where `Unambiguous` enters. `LastIsOld` keeps
a later piece from beginning where the last record did. `GivesFrameBack` says that a
resynchronisation puts the stream at or before the beginning of a frame that arrived last: the
frame is one of the offsets `_find_trailing_eybond_frame` tries, and the first of them
is taken. That it is put exactly there (`KeepsGluedFrame`) depends on leftover bytes which
do not themselves read as a header that claims the rest.

**Ownership.** `OneOwner` says that the token and the program counters agree: an
operation past its acquire holds the token, and the holder is past its acquire. It is
inductive with `TypeOK`, crashes included. `NeverStranded` needs that a marker is only on
an inbound entry, that a transition to callback has its marker from its first effect on,
and that a repair's marker waits for it (`JInv`). The capture part (`CInv`) follows the
session file: there is none before the save, it says that the collector may be
redirected before the redirect is sent, it shuts every other operation out (unless it is
a revived one), a stop works on the session it read, and a timer reset saves what the
session it read said of the redirect (`TimerHolds`), so it never hides one. The refinement maps each action to `Take`, `Drop`, `Move`,
a journal entry or a stutter of `EndpointJournal`, one lemma per shape of step and one
step per action.

**Only model-checked:** the liveness properties `SilenceOpens`, `LeaseReturns`,
`PeerCloseNoticed`, `LeaveEnds`, `RequestEnds`, `SessionRetires`, `Settles` and
`OperationEnds` (fairness and `ENABLED` are out of the prover's reach); `KeepsGluedFrame`
in its exact form, which is a fact about the catalogue of the run; and the violated
properties, which are counterexamples.

## Plan

What is left, in this order:

1. The refinement from `ListenerSockets` to the inventory of `SessionRegistry`.
2. `CallbackAttempt` (callback_identity.py, callback_matching.py,
   admission_transaction.py): one attempt's steps, composing the ledger and the
   registry.

## Not modelled

Drivers and register maps, payload codecs, metadata catalogs, cloud clients, BLE
provisioning, entity platforms, config-flow dialogue, onboarding forms, migration,
support archives and shadow learning: data handling, tables, dialogue or third-party
I/O without concurrent protocol state. They are the bulk of the repository (the
connection layer modelled here is a small part of its lines), and a model of them
would restate tables.
Of the modelled files, left out is what the sections above name. Triggers sent from
outside the Home Assistant process are outside the ledger by its own docstring.
