------------------------ MODULE EndpointOwnershipProofs ------------------------
(***************************************************************************)
(* Proofs about EndpointOwnership, for every None that NoneAssumption      *)
(* admits. The authority argument (OneOwner) needs no switch; what the     *)
(* journal promises needs one flow at a time (OneFlow), and what the       *)
(* capture session promises also that no stop or reload meets a running    *)
(* start (StartAlone): OwnershipStopRace shows that it fails otherwise.    *)
(* SessionIsOwned excepts the session that a timer reset saved again       *)
(* behind a stop that had cleared it (revived).                            *)
(***************************************************************************)
EXTENDS EndpointOwnership, TLAPS

OneFlow    == ~TwoFlows
StartAlone == ~StopsDuringStart

-----------------------------------------------------------------------------
(* The inductive invariant *)

RepairOwns == {"bootstrap", "restart", "receipt", "verify"}

\* The token and the program counters say the same: an operation past its
\* acquire holds the authority, and the holder is past its acquire. So no two
\* of the transition, the repair, the short operations and the reconcile are
\* ever under way together.
OneOwner ==
    /\ tr # "idle" <=> held = "transition"
    /\ rp \in RepairOwns <=> held = "repair"
    /\ qk # "idle" <=> held \in QuickOp
    /\ pl \in {"write", "receipt"} <=> held = "reconcile"

\* What a bind or a rollback writes is what its policy will say.
QuickAims == qk # "idle" => qkTarget \in QuickTargets(held)

\* The journal: a marker only on an entry that still waits inbound, a running
\* transition to callback keeps it from its first effect on, and its policy is
\* the one its plan read until the receipt makes it external.
MarkerIsInbound == marker # None => strategy = "inbound"

ToCallback == trTarget = "callback" /\ tr \in {"save", "journal", "restart", "receipt", "verify"}

TransitionJournalled ==
    /\ ToCallback => strategy = "inbound"
    /\ ToCallback /\ tr \in {"restart", "receipt", "verify"} => marker # None
    /\ ToCallback /\ (tr = "verify" \/ ~trWrites) => policy = "external"
    /\ tr = "journal" => trTarget = "callback"
    /\ tr = "save" => trWrites

\* A repair flow runs alone and its marker waits for it.
RepairJournalled == rp # "idle" => tr = "idle" /\ marker # None

JInv == TypeOK /\ OneOwner /\ QuickAims /\ MarkerIsInbound /\ TransitionJournalled
        /\ RepairJournalled /\ NeverStranded

\* A capture start runs in a loaded entry with no marker and no stop, under
\* the token.
StartOwns == cs # "idle" => held = "capture" /\ marker = None /\ loaded /\ ~booting /\ ct = "idle"

\* There is no session before the save; until the redirect nothing points at
\* the proxy because of the capture, and the file then says that it may.
StartRecords ==
    /\ cs = "context" => record = None \/ revived
    /\ cs \in {"routeOnly", "wait"} => record # None /\ ~recordRedirects
    /\ cs \in {"context", "route", "routeOnly", "wait", "abort", "redirect"}
          => ~(movedBy = "capture" /\ endpoint = "ha")
    /\ cs \in {"route", "redirect", "redirected", "undo", "undone"}
          => record # None /\ recordRedirects

\* A session shuts out every other operation, unless a late timer reset put it back:
\* after a crash nobody holds the authority and nobody is on the way to it, until
\* the recovery adopts it.
SessionShutsOut ==
    record # None /\ ~revived =>
        /\ marker = None
        /\ held \in {None, "capture"}
        /\ held = None => ~loaded /\ pl = "idle"

\* A stop works on the session it read, and claims the end only when the
\* collector is back.
StopHolds ==
    /\ ct # "idle" => record # None /\ ctRedirects = recordRedirects
    /\ ct \notin {"idle", "adopt"} => held = "capture"
    /\ ct = "done" /\ ctRedirects => endpoint = "cloud"
    /\ booting => ~loaded /\ ct # "idle"

\* What a timer reset will write back is what the file says, if there still is one.
TimerHolds == tm = "save" /\ record # None => tmRedirects = recordRedirects

CInv == StartOwns /\ StartRecords /\ SessionShutsOut /\ StopHolds /\ TimerHolds
        /\ RedirectIsRecorded
IInv == JInv /\ CInv

USE NoneAssumption, SwitchAssumption
    DEF wire, axes, file, entry, trVars, rpVars, qkVars, plVars, ctVars, tmVars,
        Endpoint, QuickOp, Op

-----------------------------------------------------------------------------
(* Every step keeps the types *)

\* No step of any operation leaves a flag that is not a Boolean.
LEMMA FlagsStep ==
    FlagsOK /\ [Next]_vars => FlagsOK'
<1> SUFFICES ASSUME FlagsOK, [Next]_vars PROVE FlagsOK'
    OBVIOUS
<1> USE Zenon DEF FlagsOK
<1>1. CASE \E k \in QuickOp : QuickStart(k)
    BY <1>1 DEF QuickStart, Acquire, QuickTargets
<1>2. CASE QuickStep
    BY <1>2 DEF QuickStep, QuickWrite, QuickConfirmed, QuickFails, QuickLeaves, Send,
           Release
<1>3. CASE \E t \in {"inbound", "callback"} : TransitionStart(t)
    BY <1>3 DEF TransitionStart, Acquire
<1>4. CASE TransitionStep
    <2>1. CASE TransitionLock \/ TransitionPlan \/ TransitionSave \/ TransitionJournal
        BY <2>1 DEF TransitionLock, TransitionPlan, TransitionSave, TransitionJournal
    <2>2. CASE TransitionRestart \/ TransitionReceipt
        BY <2>2 DEF TransitionRestart, TransitionReceipt, TransitionTo, Send
    <2>3. CASE TransitionCommit \/ TransitionRecoveredInbound \/ TransitionFails
        BY <2>3 DEF TransitionCommit, TransitionRecoveredInbound, TransitionFails,
               TransitionLeaves
    <2> QED
        BY <1>4, <2>1, <2>2, <2>3 DEF TransitionStep
<1>5. CASE TransitionCancel
    BY <1>5 DEF TransitionCancel, TransitionLeaves, Release
<1>6. CASE RepairRead
    BY <1>6 DEF RepairRead, Unfinished
<1>7. CASE RepairStep
    <2>1. CASE RepairSuspend \/ RepairAcquire
        BY <2>1 DEF RepairSuspend, RepairAcquire
    <2>2. CASE RepairBootstrap \/ RepairRestart
        BY <2>2 DEF RepairBootstrap, RepairRestart
    <2>3. CASE RepairReceipt \/ RepairCommit \/ RepairFails
        BY <2>3 DEF RepairReceipt, RepairCommit, RepairFails
    <2> QED
        BY <1>7, <2>1, <2>2, <2>3 DEF RepairStep
<1>8. CASE PollStart
    BY <1>8 DEF PollStart
<1>9. CASE PollStep
    <2>1. CASE PollRead \/ PollCheck
        BY <2>1 DEF PollRead, PollCheck
    <2>2. CASE PollTake \/ PollWrite
        BY <2>2 DEF PollTake, PollWrite
    <2>3. CASE PollEnd
        BY <2>3 DEF PollEnd
    <2> QED
        BY <1>9, <2>1, <2>2, <2>3 DEF PollStep
<1>10. CASE CaptureStart
    BY <1>10 DEF CaptureStart, Acquire
<1>11. CASE CaptureStep
    <2>1. CASE CaptureSave \/ CaptureRefused
        BY <2>1 DEF CaptureSave, CaptureRefused
    <2>2. CASE CaptureRoute \/ CaptureRedirect \/ CaptureStartFails
        BY <2>2 DEF CaptureRoute, CaptureRedirect, CaptureStartFails
    <2>3. CASE CaptureRunning \/ CaptureUndo
        BY <2>3 DEF CaptureRunning, CaptureUndo
    <2>4. CASE CaptureCleared \/ CaptureUnrestored
        BY <2>4 DEF CaptureCleared, CaptureUnrestored
    <2> QED
        BY <1>11, <2>1, <2>2, <2>3, <2>4 DEF CaptureStep
<1>12. CASE StopRead
    BY <1>12 DEF StopRead
<1>13. CASE StopStep
    <2>1. CASE StopAdopt \/ StopSave
        BY <2>1 DEF StopAdopt, StopSave
    <2>2. CASE StopGuard \/ StopRestore \/ StopVerify
        BY <2>2 DEF StopGuard, StopRestore, StopVerify
    <2>3. CASE StopCleared \/ StopUnrestored
        BY <2>3 DEF StopCleared, StopUnrestored, StopLeaves
    <2>4. CASE StopFails
        BY <2>4 DEF StopFails, StopLeaves
    <2> QED
        BY <1>13, <2>1, <2>2, <2>3, <2>4 DEF StopStep
<1>14. CASE Setup
    BY <1>14 DEF Setup
<1>15. CASE Unload
    BY <1>15 DEF Unload
<1>16. CASE Crash
    BY <1>16 DEF Crash
<1>17. CASE TimerRead \/ TimerSave
    BY <1>17 DEF TimerRead, TimerSave
<1>18. CASE UNCHANGED vars
    BY <1>18 DEF vars
<1> QED
    BY <1>1, <1>2, <1>3, <1>4, <1>5, <1>6, <1>7, <1>8, <1>9, <1>10, <1>11, <1>12,
       <1>13, <1>14, <1>15, <1>16, <1>17, <1>18 DEF Next

\* No step writes a value outside its set to the collector, the entry data, the
\* session file, the authority or the snapshot.
LEMMA AxesStep ==
    TypeOK /\ [Next]_vars => AxesOK'
<1> SUFFICES ASSUME TypeOK, [Next]_vars PROVE AxesOK'
    OBVIOUS
<1> USE DEF TypeOK, AxesOK, PhasesOK, FlagsOK
<1>1. CASE \E k \in QuickOp : QuickStart(k)
    BY <1>1 DEF QuickStart, Acquire, QuickTargets
<1>2. CASE QuickStep
    BY <1>2 DEF QuickStep, QuickWrite, QuickConfirmed, QuickFails, QuickLeaves, Send,
           Release
<1>3. CASE \E t \in {"inbound", "callback"} : TransitionStart(t)
    BY <1>3 DEF TransitionStart, Acquire
<1>4. CASE TransitionStep
    BY <1>4 DEF TransitionStep, TransitionLock, TransitionPlan, TransitionSave,
           TransitionJournal, TransitionRestart, TransitionReceipt, TransitionCommit,
           TransitionRecoveredInbound, TransitionFails, TransitionLeaves,
           TransitionTo, CommitMarker, Send, Release
<1>5. CASE TransitionCancel
    BY <1>5 DEF TransitionCancel, TransitionLeaves, Release
<1>6. CASE RepairRead
    BY <1>6 DEF RepairRead, Unfinished
<1>7. CASE RepairStep
    BY <1>7 DEF RepairStep, RepairSuspend, RepairAcquire, RepairBootstrap,
           RepairRestart, RepairReceipt, RepairCommit, RepairFails, RepairLeaves,
           Acquire, Send, Release
<1>8. CASE PollStart
    BY <1>8 DEF PollStart
<1>9. CASE PollStep
    BY <1>9 DEF PollStep, PollRead, PollCheck, PollTake, PollWrite, PollEnd,
           PollSkips, Acquire, Send, Release
<1>10. CASE CaptureStart
    BY <1>10 DEF CaptureStart, Acquire
<1>11. CASE CaptureStep
    BY <1>11 DEF CaptureStep, CaptureSave, CaptureRefused, CaptureRoute, CaptureRedirect,
           CaptureRunning, CaptureStartFails, CaptureUndo, CaptureCleared,
           CaptureUnrestored, CaptureRestored, Send, Release
<1>12. CASE StopRead
    BY <1>12 DEF StopRead
<1>13. CASE StopStep
    BY <1>13 DEF StopStep, StopAdopt, StopSave, StopGuard, StopRestore, StopVerify,
           StopCleared, StopUnrestored, StopFails, StopLeaves, Adopt, Send, Release
<1>14. CASE Setup
    BY <1>14 DEF Setup
<1>15. CASE Unload
    BY <1>15 DEF Unload
<1>16. CASE Crash
    BY <1>16 DEF Crash
<1>17. CASE TimerRead \/ TimerSave
    BY <1>17 DEF TimerRead, TimerSave
<1>18. CASE UNCHANGED vars
    BY <1>18 DEF vars
<1> QED
    BY <1>1, <1>2, <1>3, <1>4, <1>5, <1>6, <1>7, <1>8, <1>9, <1>10, <1>11, <1>12,
       <1>13, <1>14, <1>15, <1>16, <1>17, <1>18 DEF Next

\* Every operation stays within its phases.
LEMMA PhasesStep ==
    PhasesOK /\ [Next]_vars => PhasesOK'
<1> SUFFICES ASSUME PhasesOK, [Next]_vars PROVE PhasesOK'
    OBVIOUS
<1> USE DEF PhasesOK
<1>1. CASE \E k \in QuickOp : QuickStart(k)
    BY <1>1 DEF QuickStart, Acquire, QuickTargets
<1>2. CASE QuickStep
    BY <1>2 DEF QuickStep, QuickWrite, QuickConfirmed, QuickFails, QuickLeaves, Send,
           Release
<1>3. CASE \E t \in {"inbound", "callback"} : TransitionStart(t)
    BY <1>3 DEF TransitionStart, Acquire
<1>4. CASE TransitionStep
    BY <1>4 DEF TransitionStep, TransitionLock, TransitionPlan, TransitionSave,
           TransitionJournal, TransitionRestart, TransitionReceipt, TransitionCommit,
           TransitionRecoveredInbound, TransitionFails, TransitionLeaves,
           TransitionTo, CommitMarker, Send, Release
<1>5. CASE TransitionCancel
    BY <1>5 DEF TransitionCancel, TransitionLeaves, Release
<1>6. CASE RepairRead
    BY <1>6 DEF RepairRead, Unfinished
<1>7. CASE RepairStep
    BY <1>7 DEF RepairStep, RepairSuspend, RepairAcquire, RepairBootstrap,
           RepairRestart, RepairReceipt, RepairCommit, RepairFails, RepairLeaves,
           Acquire, Send, Release
<1>8. CASE PollStart
    BY <1>8 DEF PollStart
<1>9. CASE PollStep
    BY <1>9 DEF PollStep, PollRead, PollCheck, PollTake, PollWrite, PollEnd,
           PollSkips, Acquire, Send, Release
<1>10. CASE CaptureStart
    BY <1>10 DEF CaptureStart, Acquire
<1>11. CASE CaptureStep
    BY <1>11 DEF CaptureStep, CaptureSave, CaptureRefused, CaptureRoute, CaptureRedirect,
           CaptureRunning, CaptureStartFails, CaptureUndo, CaptureCleared,
           CaptureUnrestored, CaptureRestored, Send, Release
<1>12. CASE StopRead
    BY <1>12 DEF StopRead
<1>13. CASE StopStep
    BY <1>13 DEF StopStep, StopAdopt, StopSave, StopGuard, StopRestore, StopVerify,
           StopCleared, StopUnrestored, StopFails, StopLeaves, Adopt, Send, Release
<1>14. CASE Setup
    BY <1>14 DEF Setup
<1>15. CASE Unload
    BY <1>15 DEF Unload
<1>16. CASE Crash
    BY <1>16 DEF Crash
<1>17. CASE TimerRead \/ TimerSave
    BY <1>17 DEF TimerRead, TimerSave
<1>18. CASE UNCHANGED vars
    BY <1>18 DEF vars
<1> QED
    BY <1>1, <1>2, <1>3, <1>4, <1>5, <1>6, <1>7, <1>8, <1>9, <1>10, <1>11, <1>12,
       <1>13, <1>14, <1>15, <1>16, <1>17, <1>18 DEF Next

-----------------------------------------------------------------------------
(* Every step keeps the authority and the journal *)

\* Check-and-set, exact tokens and release in finally: each operation takes the
\* token as it passes its acquire and gives it back as it ends.
LEMMA OwnerStep ==
    TypeOK /\ OneOwner /\ [Next]_vars => OneOwner'
<1> SUFFICES ASSUME TypeOK /\ OneOwner, [Next]_vars PROVE OneOwner'
    OBVIOUS
<1> USE DEF OneOwner, RepairOwns,
           TypeOK, AxesOK, PhasesOK
<1>1. CASE \E k \in QuickOp : QuickStart(k)
    BY <1>1 DEF QuickStart, Acquire, QuickTargets
<1>2. CASE QuickStep
    BY <1>2 DEF QuickStep, QuickWrite, QuickConfirmed, QuickFails, QuickLeaves, Send,
           Release
<1>3. CASE \E t \in {"inbound", "callback"} : TransitionStart(t)
    BY <1>3 DEF TransitionStart, Acquire
<1>4. CASE TransitionStep
    BY <1>4 DEF TransitionStep, TransitionLock, TransitionPlan, TransitionSave,
           TransitionJournal, TransitionRestart, TransitionReceipt, TransitionCommit,
           TransitionRecoveredInbound, TransitionFails, TransitionLeaves,
           TransitionTo, CommitMarker, Send, Release
<1>5. CASE TransitionCancel
    BY <1>5 DEF TransitionCancel, TransitionLeaves, Release
<1>6. CASE RepairRead
    BY <1>6 DEF RepairRead, Unfinished
<1>7. CASE RepairStep
    BY <1>7 DEF RepairStep, RepairSuspend, RepairAcquire, RepairBootstrap,
           RepairRestart, RepairReceipt, RepairCommit, RepairFails, RepairLeaves,
           Acquire, Send, Release
<1>8. CASE PollStart
    BY <1>8 DEF PollStart
<1>9. CASE PollStep
    BY <1>9 DEF PollStep, PollRead, PollCheck, PollTake, PollWrite, PollEnd,
           PollSkips, Acquire, Send, Release
<1>10. CASE CaptureStart
    BY <1>10 DEF CaptureStart, Acquire
<1>11. CASE CaptureStep
    BY <1>11 DEF CaptureStep, CaptureSave, CaptureRefused, CaptureRoute, CaptureRedirect,
           CaptureRunning, CaptureStartFails, CaptureUndo, CaptureCleared,
           CaptureUnrestored, CaptureRestored, Send, Release
<1>12. CASE StopRead
    BY <1>12 DEF StopRead
<1>13. CASE StopStep
    BY <1>13 DEF StopStep, StopAdopt, StopSave, StopGuard, StopRestore, StopVerify,
           StopCleared, StopUnrestored, StopFails, StopLeaves, Adopt, Send, Release
<1>14. CASE Setup
    BY <1>14 DEF Setup
<1>15. CASE Unload
    BY <1>15 DEF Unload
<1>16. CASE Crash
    BY <1>16 DEF Crash
<1>17. CASE TimerRead \/ TimerSave
    BY <1>17 DEF TimerRead, TimerSave
<1>18. CASE UNCHANGED vars
    BY <1>18 DEF vars
<1> QED
    BY <1>1, <1>2, <1>3, <1>4, <1>5, <1>6, <1>7, <1>8, <1>9, <1>10, <1>11, <1>12,
       <1>13, <1>14, <1>15, <1>16, <1>17, <1>18 DEF Next

\* What a bind or a rollback aims at is fixed with its lease.
LEMMA AimStep ==
    TypeOK /\ OneOwner /\ QuickAims /\ [Next]_vars => QuickAims'
<1> SUFFICES ASSUME TypeOK /\ OneOwner /\ QuickAims, [Next]_vars PROVE QuickAims'
    OBVIOUS
<1> USE DEF QuickAims, QuickTargets, OneOwner, RepairOwns,
           TypeOK, AxesOK, PhasesOK
<1>1. CASE \E k \in QuickOp : QuickStart(k)
    BY <1>1 DEF QuickStart, Acquire, QuickTargets
<1>2. CASE QuickStep
    BY <1>2 DEF QuickStep, QuickWrite, QuickConfirmed, QuickFails, QuickLeaves, Send,
           Release
<1>3. CASE \E t \in {"inbound", "callback"} : TransitionStart(t)
    BY <1>3 DEF TransitionStart, Acquire
<1>4. CASE TransitionStep
    BY <1>4 DEF TransitionStep, TransitionLock, TransitionPlan, TransitionSave,
           TransitionJournal, TransitionRestart, TransitionReceipt, TransitionCommit,
           TransitionRecoveredInbound, TransitionFails, TransitionLeaves,
           TransitionTo, CommitMarker, Send, Release
<1>5. CASE TransitionCancel
    BY <1>5 DEF TransitionCancel, TransitionLeaves, Release
<1>6. CASE RepairRead
    BY <1>6 DEF RepairRead, Unfinished
<1>7. CASE RepairStep
    BY <1>7 DEF RepairStep, RepairSuspend, RepairAcquire, RepairBootstrap,
           RepairRestart, RepairReceipt, RepairCommit, RepairFails, RepairLeaves,
           Acquire, Send, Release
<1>8. CASE PollStart
    BY <1>8 DEF PollStart
<1>9. CASE PollStep
    BY <1>9 DEF PollStep, PollRead, PollCheck, PollTake, PollWrite, PollEnd,
           PollSkips, Acquire, Send, Release
<1>10. CASE CaptureStart
    BY <1>10 DEF CaptureStart, Acquire
<1>11. CASE CaptureStep
    BY <1>11 DEF CaptureStep, CaptureSave, CaptureRefused, CaptureRoute, CaptureRedirect,
           CaptureRunning, CaptureStartFails, CaptureUndo, CaptureCleared,
           CaptureUnrestored, CaptureRestored, Send, Release
<1>12. CASE StopRead
    BY <1>12 DEF StopRead
<1>13. CASE StopStep
    BY <1>13 DEF StopStep, StopAdopt, StopSave, StopGuard, StopRestore, StopVerify,
           StopCleared, StopUnrestored, StopFails, StopLeaves, Adopt, Send, Release
<1>14. CASE Setup
    BY <1>14 DEF Setup
<1>15. CASE Unload
    BY <1>15 DEF Unload
<1>16. CASE Crash
    BY <1>16 DEF Crash
<1>17. CASE TimerRead \/ TimerSave
    BY <1>17 DEF TimerRead, TimerSave
<1>18. CASE UNCHANGED vars
    BY <1>18 DEF vars
<1> QED
    BY <1>1, <1>2, <1>3, <1>4, <1>5, <1>6, <1>7, <1>8, <1>9, <1>10, <1>11, <1>12,
       <1>13, <1>14, <1>15, <1>16, <1>17, <1>18 DEF Next

\* While a repair flow runs no transition starts, so only the repair itself
\* ends the marker it read.
LEMMA RepairStepInv ==
    OneFlow /\ TypeOK /\ OneOwner /\ RepairJournalled /\ [Next]_vars => RepairJournalled'
<1> SUFFICES ASSUME OneFlow /\ TypeOK /\ OneOwner /\ RepairJournalled, [Next]_vars PROVE RepairJournalled'
    OBVIOUS
<1> USE DEF OneFlow, RepairJournalled, OneOwner, RepairOwns,
           TypeOK, AxesOK, PhasesOK
<1>1. CASE \E k \in QuickOp : QuickStart(k)
    BY <1>1 DEF QuickStart, Acquire, QuickTargets
<1>2. CASE QuickStep
    BY <1>2 DEF QuickStep, QuickWrite, QuickConfirmed, QuickFails, QuickLeaves, Send,
           Release
<1>3. CASE \E t \in {"inbound", "callback"} : TransitionStart(t)
    BY <1>3 DEF TransitionStart, Acquire
<1>4. CASE TransitionStep
    BY <1>4 DEF TransitionStep, TransitionLock, TransitionPlan, TransitionSave,
           TransitionJournal, TransitionRestart, TransitionReceipt, TransitionCommit,
           TransitionRecoveredInbound, TransitionFails, TransitionLeaves,
           TransitionTo, CommitMarker, Send, Release
<1>5. CASE TransitionCancel
    BY <1>5 DEF TransitionCancel, TransitionLeaves, Release
<1>6. CASE RepairRead
    BY <1>6 DEF RepairRead, Unfinished
<1>7. CASE RepairStep
    BY <1>7 DEF RepairStep, RepairSuspend, RepairAcquire, RepairBootstrap,
           RepairRestart, RepairReceipt, RepairCommit, RepairFails, RepairLeaves,
           Acquire, Send, Release
<1>8. CASE PollStart
    BY <1>8 DEF PollStart
<1>9. CASE PollStep
    BY <1>9 DEF PollStep, PollRead, PollCheck, PollTake, PollWrite, PollEnd,
           PollSkips, Acquire, Send, Release
<1>10. CASE CaptureStart
    BY <1>10 DEF CaptureStart, Acquire
<1>11. CASE CaptureStep
    BY <1>11 DEF CaptureStep, CaptureSave, CaptureRefused, CaptureRoute, CaptureRedirect,
           CaptureRunning, CaptureStartFails, CaptureUndo, CaptureCleared,
           CaptureUnrestored, CaptureRestored, Send, Release
<1>12. CASE StopRead
    BY <1>12 DEF StopRead
<1>13. CASE StopStep
    BY <1>13 DEF StopStep, StopAdopt, StopSave, StopGuard, StopRestore, StopVerify,
           StopCleared, StopUnrestored, StopFails, StopLeaves, Adopt, Send, Release
<1>14. CASE Setup
    BY <1>14 DEF Setup
<1>15. CASE Unload
    BY <1>15 DEF Unload
<1>16. CASE Crash
    BY <1>16 DEF Crash
<1>17. CASE TimerRead \/ TimerSave
    BY <1>17 DEF TimerRead, TimerSave
<1>18. CASE UNCHANGED vars
    BY <1>18 DEF vars
<1> QED
    BY <1>1, <1>2, <1>3, <1>4, <1>5, <1>6, <1>7, <1>8, <1>9, <1>10, <1>11, <1>12,
       <1>13, <1>14, <1>15, <1>16, <1>17, <1>18 DEF Next

\* The marker is written before the first effect of a transition to callback
\* and stays until the commit; the policy its plan read is not overwritten,
\* because every writer of the policy holds the token.
LEMMA TransitionStepInv ==
    TypeOK /\ OneOwner /\ RepairJournalled /\ MarkerIsInbound /\ TransitionJournalled /\ [Next]_vars => (MarkerIsInbound /\ TransitionJournalled)'
<1> SUFFICES ASSUME TypeOK /\ OneOwner /\ RepairJournalled /\ MarkerIsInbound /\ TransitionJournalled, [Next]_vars PROVE (MarkerIsInbound /\ TransitionJournalled)'
    OBVIOUS
<1> USE DEF MarkerIsInbound, TransitionJournalled, ToCallback, RepairJournalled,
           OneOwner, RepairOwns, TypeOK, AxesOK, PhasesOK
<1>1. CASE \E k \in QuickOp : QuickStart(k)
    BY <1>1 DEF QuickStart, Acquire, QuickTargets
<1>2. CASE QuickStep
    BY <1>2 DEF QuickStep, QuickWrite, QuickConfirmed, QuickFails, QuickLeaves, Send,
           Release
<1>3. CASE \E t \in {"inbound", "callback"} : TransitionStart(t)
    BY <1>3 DEF TransitionStart, Acquire
<1>4. CASE TransitionStep
    <2>1. CASE TransitionLock \/ TransitionPlan \/ TransitionSave
        BY <2>1 DEF TransitionLock, TransitionPlan, TransitionSave
    <2>2. CASE TransitionJournal \/ TransitionRestart
        BY <2>2 DEF TransitionJournal, TransitionRestart, Send
    <2>3. CASE TransitionReceipt
        BY <2>3 DEF TransitionReceipt
    <2>4. CASE TransitionCommit \/ TransitionRecoveredInbound \/ TransitionFails
        BY <2>4 DEF TransitionCommit, TransitionRecoveredInbound, TransitionFails,
               TransitionLeaves, CommitMarker
    <2> QED
        BY <1>4, <2>1, <2>2, <2>3, <2>4 DEF TransitionStep
<1>5. CASE TransitionCancel
    BY <1>5 DEF TransitionCancel, TransitionLeaves, Release
<1>6. CASE RepairRead
    BY <1>6 DEF RepairRead, Unfinished
<1>7. CASE RepairStep
    BY <1>7 DEF RepairStep, RepairSuspend, RepairAcquire, RepairBootstrap,
           RepairRestart, RepairReceipt, RepairCommit, RepairFails, RepairLeaves,
           Acquire, Send, Release
<1>8. CASE PollStart
    BY <1>8 DEF PollStart
<1>9. CASE PollStep
    BY <1>9 DEF PollStep, PollRead, PollCheck, PollTake, PollWrite, PollEnd,
           PollSkips, Acquire, Send, Release
<1>10. CASE CaptureStart
    BY <1>10 DEF CaptureStart, Acquire
<1>11. CASE CaptureStep
    BY <1>11 DEF CaptureStep, CaptureSave, CaptureRefused, CaptureRoute, CaptureRedirect,
           CaptureRunning, CaptureStartFails, CaptureUndo, CaptureCleared,
           CaptureUnrestored, CaptureRestored, Send, Release
<1>12. CASE StopRead
    BY <1>12 DEF StopRead
<1>13. CASE StopStep
    BY <1>13 DEF StopStep, StopAdopt, StopSave, StopGuard, StopRestore, StopVerify,
           StopCleared, StopUnrestored, StopFails, StopLeaves, Adopt, Send, Release
<1>14. CASE Setup
    BY <1>14 DEF Setup
<1>15. CASE Unload
    BY <1>15 DEF Unload
<1>16. CASE Crash
    BY <1>16 DEF Crash
<1>17. CASE TimerRead \/ TimerSave
    BY <1>17 DEF TimerRead, TimerSave
<1>18. CASE UNCHANGED vars
    BY <1>18 DEF vars
<1> QED
    BY <1>1, <1>2, <1>3, <1>4, <1>5, <1>6, <1>7, <1>8, <1>9, <1>10, <1>11, <1>12,
       <1>13, <1>14, <1>15, <1>16, <1>17, <1>18 DEF Next

\* Every move to the cloud by a transition or a repair is behind the marker, and
\* the marker ends only as the strategy becomes callback or the proof shows the
\* collector at Home Assistant.
LEMMA StrandStep ==
    JInv /\ [Next]_vars => NeverStranded'
<1> SUFFICES ASSUME JInv, [Next]_vars PROVE NeverStranded'
    OBVIOUS
<1> USE DEF JInv, NeverStranded, RepairJournalled, MarkerIsInbound,
           TransitionJournalled, ToCallback, OneOwner, RepairOwns,
           TypeOK, AxesOK, PhasesOK
<1>1. CASE \E k \in QuickOp : QuickStart(k)
    BY <1>1 DEF QuickStart, Acquire, QuickTargets
<1>2. CASE QuickStep
    BY <1>2 DEF QuickStep, QuickWrite, QuickConfirmed, QuickFails, QuickLeaves, Send,
           Release
<1>3. CASE \E t \in {"inbound", "callback"} : TransitionStart(t)
    BY <1>3 DEF TransitionStart, Acquire
<1>4. CASE TransitionStep
    BY <1>4 DEF TransitionStep, TransitionLock, TransitionPlan, TransitionSave,
           TransitionJournal, TransitionRestart, TransitionReceipt, TransitionCommit,
           TransitionRecoveredInbound, TransitionFails, TransitionLeaves,
           TransitionTo, CommitMarker, Send, Release
<1>5. CASE TransitionCancel
    BY <1>5 DEF TransitionCancel, TransitionLeaves, Release
<1>6. CASE RepairRead
    BY <1>6 DEF RepairRead, Unfinished
<1>7. CASE RepairStep
    BY <1>7 DEF RepairStep, RepairSuspend, RepairAcquire, RepairBootstrap,
           RepairRestart, RepairReceipt, RepairCommit, RepairFails, RepairLeaves,
           Acquire, Send, Release
<1>8. CASE PollStart
    BY <1>8 DEF PollStart
<1>9. CASE PollStep
    BY <1>9 DEF PollStep, PollRead, PollCheck, PollTake, PollWrite, PollEnd,
           PollSkips, Acquire, Send, Release
<1>10. CASE CaptureStart
    BY <1>10 DEF CaptureStart, Acquire
<1>11. CASE CaptureStep
    BY <1>11 DEF CaptureStep, CaptureSave, CaptureRefused, CaptureRoute, CaptureRedirect,
           CaptureRunning, CaptureStartFails, CaptureUndo, CaptureCleared,
           CaptureUnrestored, CaptureRestored, Send, Release
<1>12. CASE StopRead
    BY <1>12 DEF StopRead
<1>13. CASE StopStep
    BY <1>13 DEF StopStep, StopAdopt, StopSave, StopGuard, StopRestore, StopVerify,
           StopCleared, StopUnrestored, StopFails, StopLeaves, Adopt, Send, Release
<1>14. CASE Setup
    BY <1>14 DEF Setup
<1>15. CASE Unload
    BY <1>15 DEF Unload
<1>16. CASE Crash
    BY <1>16 DEF Crash
<1>17. CASE TimerRead \/ TimerSave
    BY <1>17 DEF TimerRead, TimerSave
<1>18. CASE UNCHANGED vars
    BY <1>18 DEF vars
<1> QED
    BY <1>1, <1>2, <1>3, <1>4, <1>5, <1>6, <1>7, <1>8, <1>9, <1>10, <1>11, <1>12,
       <1>13, <1>14, <1>15, <1>16, <1>17, <1>18 DEF Next

-----------------------------------------------------------------------------
(* Every step keeps the capture session *)

\* A start keeps its token, its entry and its journal: nothing unloads the entry
\* under it, and no repair runs because there is no marker.
LEMMA StartOwnsStep ==
    OneFlow /\ StartAlone /\ IInv /\ [Next]_vars => StartOwns'
<1> SUFFICES ASSUME OneFlow /\ StartAlone /\ IInv, [Next]_vars PROVE StartOwns'
    OBVIOUS
<1> USE DEF OneFlow, StartAlone, IInv, JInv, CInv, StartOwns, SessionShutsOut,
           StopHolds, TimerHolds, RepairJournalled, OneOwner, RepairOwns, TypeOK,
           AxesOK, PhasesOK
<1>1. CASE \E k \in QuickOp : QuickStart(k)
    BY <1>1 DEF QuickStart, Acquire, QuickTargets
<1>2. CASE QuickStep
    BY <1>2 DEF QuickStep, QuickWrite, QuickConfirmed, QuickFails, QuickLeaves, Send,
           Release
<1>3. CASE \E t \in {"inbound", "callback"} : TransitionStart(t)
    BY <1>3 DEF TransitionStart, Acquire
<1>4. CASE TransitionStep
    BY <1>4 DEF TransitionStep, TransitionLock, TransitionPlan, TransitionSave,
           TransitionJournal, TransitionRestart, TransitionReceipt, TransitionCommit,
           TransitionRecoveredInbound, TransitionFails, TransitionLeaves,
           TransitionTo, CommitMarker, Send, Release
<1>5. CASE TransitionCancel
    BY <1>5 DEF TransitionCancel, TransitionLeaves, Release
<1>6. CASE RepairRead
    BY <1>6 DEF RepairRead, Unfinished
<1>7. CASE RepairStep
    BY <1>7 DEF RepairStep, RepairSuspend, RepairAcquire, RepairBootstrap,
           RepairRestart, RepairReceipt, RepairCommit, RepairFails, RepairLeaves,
           Acquire, Send, Release
<1>8. CASE PollStart
    BY <1>8 DEF PollStart
<1>9. CASE PollStep
    BY <1>9 DEF PollStep, PollRead, PollCheck, PollTake, PollWrite, PollEnd,
           PollSkips, Acquire, Send, Release
<1>10. CASE CaptureStart
    BY <1>10 DEF CaptureStart, Acquire
<1>11. CASE CaptureStep
    <2>1. CASE CaptureSave \/ CaptureRefused \/ CaptureRoute
        BY <2>1 DEF CaptureSave, CaptureRefused, CaptureRoute, Release
    <2>2. CASE CaptureRedirect \/ CaptureRunning \/ CaptureStartFails
        BY <2>2 DEF CaptureRedirect, CaptureRunning, CaptureStartFails, Send
    <2>3. CASE CaptureUndo \/ CaptureUnrestored
        BY <2>3 DEF CaptureUndo, CaptureUnrestored, Send
    <2>4. CASE CaptureCleared
        BY <2>4 DEF CaptureCleared, CaptureRestored, Release
    <2> QED
        BY <1>11, <2>1, <2>2, <2>3, <2>4 DEF CaptureStep
<1>12. CASE StopRead
    BY <1>12 DEF StopRead
<1>13. CASE StopStep
    BY <1>13 DEF StopStep, StopAdopt, StopSave, StopGuard, StopRestore, StopVerify,
           StopCleared, StopUnrestored, StopFails, StopLeaves, Adopt, Send, Release
<1>14. CASE Setup
    BY <1>14 DEF Setup
<1>15. CASE Unload
    BY <1>15 DEF Unload
<1>16. CASE Crash
    BY <1>16 DEF Crash
<1>17. CASE TimerRead \/ TimerSave
    BY <1>17 DEF TimerRead, TimerSave
<1>18. CASE UNCHANGED vars
    BY <1>18 DEF vars
<1> QED
    BY <1>1, <1>2, <1>3, <1>4, <1>5, <1>6, <1>7, <1>8, <1>9, <1>10, <1>11, <1>12,
       <1>13, <1>14, <1>15, <1>16, <1>17, <1>18 DEF Next

\* The session file is ahead of the redirect: the start saves it before the first
\* write that points the collector at the proxy.
LEMMA StartRecordsStep ==
    OneFlow /\ StartAlone /\ IInv /\ [Next]_vars => StartRecords'
<1> SUFFICES ASSUME OneFlow /\ StartAlone /\ IInv, [Next]_vars PROVE StartRecords'
    OBVIOUS
<1> USE DEF OneFlow, StartAlone, StartRecords, RedirectIsRecorded,
           IInv, JInv, CInv, StartOwns, SessionShutsOut,
           StopHolds, TimerHolds, RepairJournalled, OneOwner, RepairOwns, TypeOK,
           AxesOK, PhasesOK
<1>1. CASE \E k \in QuickOp : QuickStart(k)
    BY <1>1 DEF QuickStart, Acquire, QuickTargets
<1>2. CASE QuickStep
    BY <1>2 DEF QuickStep, QuickWrite, QuickConfirmed, QuickFails, QuickLeaves, Send,
           Release
<1>3. CASE \E t \in {"inbound", "callback"} : TransitionStart(t)
    BY <1>3 DEF TransitionStart, Acquire
<1>4. CASE TransitionStep
    BY <1>4 DEF TransitionStep, TransitionLock, TransitionPlan, TransitionSave,
           TransitionJournal, TransitionRestart, TransitionReceipt, TransitionCommit,
           TransitionRecoveredInbound, TransitionFails, TransitionLeaves,
           TransitionTo, CommitMarker, Send, Release
<1>5. CASE TransitionCancel
    BY <1>5 DEF TransitionCancel, TransitionLeaves, Release
<1>6. CASE RepairRead
    BY <1>6 DEF RepairRead, Unfinished
<1>7. CASE RepairStep
    BY <1>7 DEF RepairStep, RepairSuspend, RepairAcquire, RepairBootstrap,
           RepairRestart, RepairReceipt, RepairCommit, RepairFails, RepairLeaves,
           Acquire, Send, Release
<1>8. CASE PollStart
    BY <1>8 DEF PollStart
<1>9. CASE PollStep
    BY <1>9 DEF PollStep, PollRead, PollCheck, PollTake, PollWrite, PollEnd,
           PollSkips, Acquire, Send, Release
<1>10. CASE CaptureStart
    BY <1>10 DEF CaptureStart, Acquire
<1>11. CASE CaptureStep
    <2>1. CASE CaptureSave
        BY <2>1 DEF CaptureSave
    <2>2. CASE CaptureRoute
        BY <2>2 DEF CaptureRoute
    <2>3. CASE CaptureRedirect
        BY <2>3 DEF CaptureRedirect
    <2>4. CASE CaptureStartFails
        BY <2>4 DEF CaptureStartFails
    <2>5. CASE CaptureUndo
        BY <2>5 DEF CaptureUndo
    <2>6. CASE CaptureRefused \/ CaptureRunning \/ CaptureCleared \/ CaptureUnrestored
        BY <2>6 DEF CaptureRefused, CaptureRunning, CaptureCleared, CaptureUnrestored
    <2> QED
        BY <1>11, <2>1, <2>2, <2>3, <2>4, <2>5, <2>6 DEF CaptureStep
<1>12. CASE StopRead
    BY <1>12 DEF StopRead
<1>13. CASE StopStep
    BY <1>13 DEF StopStep, StopAdopt, StopSave, StopGuard, StopRestore, StopVerify,
           StopCleared, StopUnrestored, StopFails, StopLeaves, Adopt, Send, Release
<1>14. CASE Setup
    BY <1>14 DEF Setup
<1>15. CASE Unload
    BY <1>15 DEF Unload
<1>16. CASE Crash
    BY <1>16 DEF Crash
<1>17. CASE TimerRead \/ TimerSave
    <2>1. CASE TimerRead
        BY <2>1 DEF TimerRead
    <2>2. CASE TimerSave
        <3>1. cs = "context" => (record = None \/ revived)'
            BY Zenon, <2>2 DEF TimerSave
        <3> QED
            BY <2>2, <3>1 DEF TimerSave
    <2> QED
        BY <1>17, <2>1, <2>2
<1>18. CASE UNCHANGED vars
    BY <1>18 DEF vars
<1> QED
    BY <1>1, <1>2, <1>3, <1>4, <1>5, <1>6, <1>7, <1>8, <1>9, <1>10, <1>11, <1>12,
       <1>13, <1>14, <1>15, <1>16, <1>17, <1>18 DEF Next

\* A persisted session leaves no way for another operation to take the token,
\* across a crash and until the recovery adopts it.
LEMMA ShutsOutStep ==
    OneFlow /\ StartAlone /\ IInv /\ [Next]_vars => SessionShutsOut'
<1> SUFFICES ASSUME OneFlow /\ StartAlone /\ IInv, [Next]_vars PROVE SessionShutsOut'
    OBVIOUS
<1> USE DEF OneFlow, StartAlone, StartRecords, IInv, JInv, CInv, StartOwns, SessionShutsOut,
           StopHolds, TimerHolds, RepairJournalled, OneOwner, RepairOwns, TypeOK,
           AxesOK, PhasesOK
<1>1. CASE \E k \in QuickOp : QuickStart(k)
    BY <1>1 DEF QuickStart, Acquire, QuickTargets
<1>2. CASE QuickStep
    BY <1>2 DEF QuickStep, QuickWrite, QuickConfirmed, QuickFails, QuickLeaves, Send,
           Release
<1>3. CASE \E t \in {"inbound", "callback"} : TransitionStart(t)
    BY <1>3 DEF TransitionStart, Acquire
<1>4. CASE TransitionStep
    BY <1>4 DEF TransitionStep, TransitionLock, TransitionPlan, TransitionSave,
           TransitionJournal, TransitionRestart, TransitionReceipt, TransitionCommit,
           TransitionRecoveredInbound, TransitionFails, TransitionLeaves,
           TransitionTo, CommitMarker, Send, Release
<1>5. CASE TransitionCancel
    BY <1>5 DEF TransitionCancel, TransitionLeaves, Release
<1>6. CASE RepairRead
    BY <1>6 DEF RepairRead, Unfinished
<1>7. CASE RepairStep
    BY <1>7 DEF RepairStep, RepairSuspend, RepairAcquire, RepairBootstrap,
           RepairRestart, RepairReceipt, RepairCommit, RepairFails, RepairLeaves,
           Acquire, Send, Release
<1>8. CASE PollStart
    BY <1>8 DEF PollStart
<1>9. CASE PollStep
    BY <1>9 DEF PollStep, PollRead, PollCheck, PollTake, PollWrite, PollEnd,
           PollSkips, Acquire, Send, Release
<1>10. CASE CaptureStart
    BY <1>10 DEF CaptureStart, Acquire
<1>11. CASE CaptureStep
    <2>1. CASE CaptureSave \/ CaptureRefused \/ CaptureRoute
        BY <2>1 DEF CaptureSave, CaptureRefused, CaptureRoute, Release
    <2>2. CASE CaptureRedirect \/ CaptureRunning \/ CaptureStartFails
        BY <2>2 DEF CaptureRedirect, CaptureRunning, CaptureStartFails, Send
    <2>3. CASE CaptureUndo \/ CaptureUnrestored
        BY <2>3 DEF CaptureUndo, CaptureUnrestored, Send
    <2>4. CASE CaptureCleared
        BY <2>4 DEF CaptureCleared, CaptureRestored, Release
    <2> QED
        BY <1>11, <2>1, <2>2, <2>3, <2>4 DEF CaptureStep
<1>12. CASE StopRead
    BY <1>12 DEF StopRead
<1>13. CASE StopStep
    BY <1>13 DEF StopStep, StopAdopt, StopSave, StopGuard, StopRestore, StopVerify,
           StopCleared, StopUnrestored, StopFails, StopLeaves, Adopt, Send, Release
<1>14. CASE Setup
    BY <1>14 DEF Setup
<1>15. CASE Unload
    BY <1>15 DEF Unload
<1>16. CASE Crash
    BY <1>16 DEF Crash
<1>17. CASE TimerRead \/ TimerSave
    BY <1>17 DEF TimerRead, TimerSave
<1>18. CASE UNCHANGED vars
    BY <1>18 DEF vars
<1> QED
    BY <1>1, <1>2, <1>3, <1>4, <1>5, <1>6, <1>7, <1>8, <1>9, <1>10, <1>11, <1>12,
       <1>13, <1>14, <1>15, <1>16, <1>17, <1>18 DEF Next

\* A stop keeps the session it read, and what it verified stays true because
\* nobody else moves the endpoint.
LEMMA StopHoldsStep ==
    OneFlow /\ StartAlone /\ IInv /\ [Next]_vars => StopHolds'
<1> SUFFICES ASSUME OneFlow /\ StartAlone /\ IInv, [Next]_vars PROVE StopHolds'
    OBVIOUS
<1> USE DEF OneFlow, StartAlone, StartRecords, RedirectIsRecorded,
           IInv, JInv, CInv, StartOwns, SessionShutsOut,
           StopHolds, TimerHolds, RepairJournalled, OneOwner, RepairOwns, TypeOK,
           AxesOK, PhasesOK
<1>1. CASE \E k \in QuickOp : QuickStart(k)
    BY <1>1 DEF QuickStart, Acquire, QuickTargets
<1>2. CASE QuickStep
    BY <1>2 DEF QuickStep, QuickWrite, QuickConfirmed, QuickFails, QuickLeaves, Send,
           Release
<1>3. CASE \E t \in {"inbound", "callback"} : TransitionStart(t)
    BY <1>3 DEF TransitionStart, Acquire
<1>4. CASE TransitionStep
    BY <1>4 DEF TransitionStep, TransitionLock, TransitionPlan, TransitionSave,
           TransitionJournal, TransitionRestart, TransitionReceipt, TransitionCommit,
           TransitionRecoveredInbound, TransitionFails, TransitionLeaves,
           TransitionTo, CommitMarker, Send, Release
<1>5. CASE TransitionCancel
    BY <1>5 DEF TransitionCancel, TransitionLeaves, Release
<1>6. CASE RepairRead
    BY <1>6 DEF RepairRead, Unfinished
<1>7. CASE RepairStep
    BY <1>7 DEF RepairStep, RepairSuspend, RepairAcquire, RepairBootstrap,
           RepairRestart, RepairReceipt, RepairCommit, RepairFails, RepairLeaves,
           Acquire, Send, Release
<1>8. CASE PollStart
    BY <1>8 DEF PollStart
<1>9. CASE PollStep
    BY <1>9 DEF PollStep, PollRead, PollCheck, PollTake, PollWrite, PollEnd,
           PollSkips, Acquire, Send, Release
<1>10. CASE CaptureStart
    BY <1>10 DEF CaptureStart, Acquire
<1>11. CASE CaptureStep
    <2>1. CASE CaptureSave \/ CaptureRefused \/ CaptureRoute
        BY <2>1 DEF CaptureSave, CaptureRefused, CaptureRoute, Release
    <2>2. CASE CaptureRedirect \/ CaptureRunning \/ CaptureStartFails
        BY <2>2 DEF CaptureRedirect, CaptureRunning, CaptureStartFails, Send
    <2>3. CASE CaptureUndo \/ CaptureUnrestored
        BY <2>3 DEF CaptureUndo, CaptureUnrestored, Send
    <2>4. CASE CaptureCleared
        BY <2>4 DEF CaptureCleared, CaptureRestored, Release
    <2> QED
        BY <1>11, <2>1, <2>2, <2>3, <2>4 DEF CaptureStep
<1>12. CASE StopRead
    BY <1>12 DEF StopRead
<1>13. CASE StopStep
    BY <1>13 DEF StopStep, StopAdopt, StopSave, StopGuard, StopRestore, StopVerify,
           StopCleared, StopUnrestored, StopFails, StopLeaves, Adopt, Send, Release
<1>14. CASE Setup
    BY <1>14 DEF Setup
<1>15. CASE Unload
    BY <1>15 DEF Unload
<1>16. CASE Crash
    BY <1>16 DEF Crash
<1>17. CASE TimerRead \/ TimerSave
    BY <1>17 DEF TimerRead, TimerSave
<1>18. CASE UNCHANGED vars
    BY <1>18 DEF vars
<1> QED
    BY <1>1, <1>2, <1>3, <1>4, <1>5, <1>6, <1>7, <1>8, <1>9, <1>10, <1>11, <1>12,
       <1>13, <1>14, <1>15, <1>16, <1>17, <1>18 DEF Next

\* While a session lasts, no writer of its file changes what it says of the redirect.
LEMMA TimerHoldsStep ==
    OneFlow /\ StartAlone /\ IInv /\ [Next]_vars => TimerHolds'
<1> SUFFICES ASSUME OneFlow /\ StartAlone /\ IInv, [Next]_vars PROVE TimerHolds'
    OBVIOUS
<1> USE DEF OneFlow, StartAlone, StartRecords, RedirectIsRecorded,
           IInv, JInv, CInv, StartOwns, SessionShutsOut,
           StopHolds, TimerHolds, RepairJournalled, OneOwner, RepairOwns, TypeOK,
           AxesOK, PhasesOK
<1>1. CASE \E k \in QuickOp : QuickStart(k)
    BY <1>1 DEF QuickStart, Acquire, QuickTargets
<1>2. CASE QuickStep
    BY <1>2 DEF QuickStep, QuickWrite, QuickConfirmed, QuickFails, QuickLeaves, Send,
           Release
<1>3. CASE \E t \in {"inbound", "callback"} : TransitionStart(t)
    BY <1>3 DEF TransitionStart, Acquire
<1>4. CASE TransitionStep
    BY <1>4 DEF TransitionStep, TransitionLock, TransitionPlan, TransitionSave,
           TransitionJournal, TransitionRestart, TransitionReceipt, TransitionCommit,
           TransitionRecoveredInbound, TransitionFails, TransitionLeaves,
           TransitionTo, CommitMarker, Send, Release
<1>5. CASE TransitionCancel
    BY <1>5 DEF TransitionCancel, TransitionLeaves, Release
<1>6. CASE RepairRead
    BY <1>6 DEF RepairRead, Unfinished
<1>7. CASE RepairStep
    BY <1>7 DEF RepairStep, RepairSuspend, RepairAcquire, RepairBootstrap,
           RepairRestart, RepairReceipt, RepairCommit, RepairFails, RepairLeaves,
           Acquire, Send, Release
<1>8. CASE PollStart
    BY <1>8 DEF PollStart
<1>9. CASE PollStep
    BY <1>9 DEF PollStep, PollRead, PollCheck, PollTake, PollWrite, PollEnd,
           PollSkips, Acquire, Send, Release
<1>10. CASE CaptureStart
    BY <1>10 DEF CaptureStart, Acquire
<1>11. CASE CaptureStep
    <2>1. CASE CaptureSave
        BY <2>1 DEF CaptureSave
    <2>2. CASE CaptureRunning
        <3>1. record # None /\ recordRedirects' = recordRedirects
            <4>1. CASE cs = "wait"
                BY Zenon, <2>2, <4>1 DEF CaptureRunning, FlagsOK
            <4>2. CASE cs = "redirected"
                BY Zenon, <2>2, <4>2 DEF CaptureRunning, FlagsOK
            <4> QED
                BY <2>2, <4>1, <4>2 DEF CaptureRunning
        <3> QED
            BY <2>2, <3>1 DEF CaptureRunning
    <2>3. CASE CaptureUnrestored
        <3>1. record # None /\ recordRedirects' = recordRedirects
            BY Zenon, <2>3 DEF CaptureUnrestored, FlagsOK
        <3> QED
            BY <2>3, <3>1 DEF CaptureUnrestored
    <2>4. CASE CaptureRefused \/ CaptureRoute \/ CaptureRedirect \/ CaptureStartFails
               \/ CaptureUndo \/ CaptureCleared
        BY <2>4 DEF CaptureRefused, CaptureRoute, CaptureRedirect, CaptureStartFails,
               CaptureUndo, CaptureCleared
    <2> QED
        BY <1>11, <2>1, <2>2, <2>3, <2>4 DEF CaptureStep
<1>12. CASE StopRead
    BY <1>12 DEF StopRead
<1>13. CASE StopStep
    BY <1>13 DEF StopStep, StopAdopt, StopSave, StopGuard, StopRestore, StopVerify,
           StopCleared, StopUnrestored, StopFails, StopLeaves, Adopt, Send, Release
<1>14. CASE Setup
    BY <1>14 DEF Setup
<1>15. CASE Unload
    BY <1>15 DEF Unload
<1>16. CASE Crash
    BY <1>16 DEF Crash
<1>17. CASE TimerRead \/ TimerSave
    BY <1>17 DEF TimerRead, TimerSave
<1>18. CASE UNCHANGED vars
    BY <1>18 DEF vars
<1> QED
    BY <1>1, <1>2, <1>3, <1>4, <1>5, <1>6, <1>7, <1>8, <1>9, <1>10, <1>11, <1>12,
       <1>13, <1>14, <1>15, <1>16, <1>17, <1>18 DEF Next

\* A record with the redirect ends only when the collector is back at the cloud.
LEMMA RecordedStep ==
    OneFlow /\ StartAlone /\ IInv /\ [Next]_vars => RedirectIsRecorded'
<1> SUFFICES ASSUME OneFlow /\ StartAlone /\ IInv, [Next]_vars PROVE RedirectIsRecorded'
    OBVIOUS
<1> USE DEF OneFlow, StartAlone, StartRecords, RedirectIsRecorded,
           IInv, JInv, CInv, StartOwns, SessionShutsOut,
           StopHolds, TimerHolds, RepairJournalled, OneOwner, RepairOwns, TypeOK,
           AxesOK, PhasesOK
<1>1. CASE \E k \in QuickOp : QuickStart(k)
    BY <1>1 DEF QuickStart, Acquire, QuickTargets
<1>2. CASE QuickStep
    BY <1>2 DEF QuickStep, QuickWrite, QuickConfirmed, QuickFails, QuickLeaves, Send,
           Release
<1>3. CASE \E t \in {"inbound", "callback"} : TransitionStart(t)
    BY <1>3 DEF TransitionStart, Acquire
<1>4. CASE TransitionStep
    BY <1>4 DEF TransitionStep, TransitionLock, TransitionPlan, TransitionSave,
           TransitionJournal, TransitionRestart, TransitionReceipt, TransitionCommit,
           TransitionRecoveredInbound, TransitionFails, TransitionLeaves,
           TransitionTo, CommitMarker, Send, Release
<1>5. CASE TransitionCancel
    BY <1>5 DEF TransitionCancel, TransitionLeaves, Release
<1>6. CASE RepairRead
    BY <1>6 DEF RepairRead, Unfinished
<1>7. CASE RepairStep
    BY <1>7 DEF RepairStep, RepairSuspend, RepairAcquire, RepairBootstrap,
           RepairRestart, RepairReceipt, RepairCommit, RepairFails, RepairLeaves,
           Acquire, Send, Release
<1>8. CASE PollStart
    BY <1>8 DEF PollStart
<1>9. CASE PollStep
    BY <1>9 DEF PollStep, PollRead, PollCheck, PollTake, PollWrite, PollEnd,
           PollSkips, Acquire, Send, Release
<1>10. CASE CaptureStart
    BY <1>10 DEF CaptureStart, Acquire
<1>11. CASE CaptureStep
    <2>1. CASE CaptureSave \/ CaptureRefused \/ CaptureRoute
        BY <2>1 DEF CaptureSave, CaptureRefused, CaptureRoute, Release
    <2>2. CASE CaptureRedirect \/ CaptureRunning \/ CaptureStartFails
        BY <2>2 DEF CaptureRedirect, CaptureRunning, CaptureStartFails, Send
    <2>3. CASE CaptureUndo \/ CaptureUnrestored
        BY <2>3 DEF CaptureUndo, CaptureUnrestored, Send
    <2>4. CASE CaptureCleared
        BY <2>4 DEF CaptureCleared, CaptureRestored, Release
    <2> QED
        BY <1>11, <2>1, <2>2, <2>3, <2>4 DEF CaptureStep
<1>12. CASE StopRead
    BY <1>12 DEF StopRead
<1>13. CASE StopStep
    BY <1>13 DEF StopStep, StopAdopt, StopSave, StopGuard, StopRestore, StopVerify,
           StopCleared, StopUnrestored, StopFails, StopLeaves, Adopt, Send, Release
<1>14. CASE Setup
    BY <1>14 DEF Setup
<1>15. CASE Unload
    BY <1>15 DEF Unload
<1>16. CASE Crash
    BY <1>16 DEF Crash
<1>17. CASE TimerRead \/ TimerSave
    BY <1>17 DEF TimerRead, TimerSave
<1>18. CASE UNCHANGED vars
    BY <1>18 DEF vars
<1> QED
    BY <1>1, <1>2, <1>3, <1>4, <1>5, <1>6, <1>7, <1>8, <1>9, <1>10, <1>11, <1>12,
       <1>13, <1>14, <1>15, <1>16, <1>17, <1>18 DEF Next

-----------------------------------------------------------------------------
(* The theorems *)

\* An entry as onboarding leaves it satisfies everything.
LEMMA InitInv == Init => IInv
<1> SUFFICES ASSUME Init PROVE IInv
    OBVIOUS
<1>1. FlagsOK
    BY Zenon DEF Init, FlagsOK
<1>2. AxesOK /\ PhasesOK
    BY DEF Init, AxesOK, PhasesOK
<1>3. OneOwner /\ QuickAims /\ MarkerIsInbound /\ TransitionJournalled
        /\ RepairJournalled /\ NeverStranded
    BY DEF Init, OneOwner, RepairOwns, QuickAims, MarkerIsInbound,
           TransitionJournalled, ToCallback, RepairJournalled, NeverStranded
<1>4. CInv
    BY DEF Init, CInv, StartOwns, StartRecords, SessionShutsOut, StopHolds,
           TimerHolds, RedirectIsRecorded
<1> QED
    BY <1>1, <1>2, <1>3, <1>4 DEF IInv, JInv, TypeOK

\* Whatever the operations do, crashes included, every variable keeps its type.
THEOREM OwnershipTyped == Spec => []TypeOK
<1>1. Init => TypeOK
    BY InitInv DEF IInv, JInv
<1>2. TypeOK /\ [Next]_vars => TypeOK'
    BY FlagsStep, AxesStep, PhasesStep DEF TypeOK
<1> QED
    BY <1>1, <1>2, PTL DEF Spec

\* The endpoint operation authority: whatever the flows and stops overlap with,
\* no two of the transition, the repair, the short operations and the reconcile
\* are past their acquire together, and the token names the one that is.
THEOREM AuthorityIsExclusive == Spec => []OneOwner
<1>1. Init => OneOwner
    BY InitInv DEF IInv, JInv
<1>2. TypeOK /\ OneOwner /\ [Next]_vars => OneOwner'
    BY OwnerStep
<1> QED
    BY <1>1, <1>2, OwnershipTyped, PTL DEF Spec

\* With one flow at a time, the journal part of the invariant is inductive.
LEMMA JournalInv == ASSUME OneFlow PROVE Spec => []JInv
<1>1. Init => JInv
    BY InitInv DEF IInv
<1>2. JInv /\ [Next]_vars => JInv'
  <2> SUFFICES ASSUME JInv, [Next]_vars PROVE JInv'
    OBVIOUS
  <2>1. TypeOK' /\ OneOwner' /\ QuickAims'
    BY FlagsStep, AxesStep, PhasesStep, OwnerStep, AimStep DEF JInv, TypeOK
  <2>2. RepairJournalled'
    BY OneFlow, RepairStepInv DEF JInv
  <2>3. MarkerIsInbound' /\ TransitionJournalled'
    BY TransitionStepInv DEF JInv
  <2>4. NeverStranded'
    BY StrandStep
  <2> QED
    BY <2>1, <2>2, <2>3, <2>4 DEF JInv
<1> QED
    BY <1>1, <1>2, PTL DEF Spec

\* A collector that a transition or a repair sent to the cloud, while its entry
\* still waits for it inbound, always has the marker that lets the repair end
\* the move: across crashes, failed proofs, and stops that race a start.
THEOREM StrandedNever == ASSUME OneFlow PROVE Spec => []NeverStranded
<1>1. JInv => NeverStranded
    BY DEF JInv
<1> QED
    BY <1>1, JournalInv, PTL

\* With one flow at a time and no stop or reload inside a start, the whole
\* invariant is inductive.
LEMMA OwnershipInv == ASSUME OneFlow, StartAlone PROVE Spec => []IInv
<1>1. Init => IInv
    BY InitInv
<1>2. JInv /\ JInv' /\ IInv /\ [Next]_vars => IInv'
    BY StartOwnsStep, StartRecordsStep, ShutsOutStep, StopHoldsStep,
       TimerHoldsStep, RecordedStep
       DEF IInv, CInv
<1>3. IInv => JInv
    BY DEF IInv
<1> QED
    BY <1>1, <1>2, <1>3, JournalInv, PTL DEF Spec

\* A collector that a capture redirected and that still points at the proxy
\* always has the session file its recovery restores it from.
THEOREM RedirectRecorded == ASSUME OneFlow, StartAlone PROVE Spec => []RedirectIsRecorded
<1>1. IInv => RedirectIsRecorded
    BY DEF IInv, CInv
<1> QED
    BY <1>1, OwnershipInv, PTL

\* A loaded entry with a persisted capture session holds the authority, but for the
\* session that a late timer reset put back after a stop had cleared it. Assumed:
\* one flow, and no stop or reload inside a start. (A reload during a stop is not
\* in the model.)
THEOREM SessionOwned == ASSUME OneFlow, StartAlone PROVE Spec => []SessionIsOwned
<1>1. IInv => SessionIsOwned
    BY DEF IInv, CInv, SessionShutsOut, SessionIsOwned
<1> QED
    BY <1>1, OwnershipInv, PTL

-----------------------------------------------------------------------------
(* The refinement: every step is a step of EndpointJournal or a stutter *)

JournalStep == Journal!Next \/ UNCHANGED Journal!vars

\* A write by the holder of the authority moves the register, or nothing; sent
\* to the cloud by a transition or a repair, it is behind the journal.
LEMMA SendMoves ==
    ASSUME NEW e \in Endpoint, NEW by, Send(e, by), held # None,
           held \in {"transition", "repair"} /\ e = "cloud" => marker # None,
           UNCHANGED <<held, axes>>
    PROVE  JournalStep
BY DEF Send, JournalStep, Journal!Next, Journal!Move, Journal!vars

\* The end of an operation that changes nothing durable gives the token back.
LEMMA ReleaseDrops ==
    ASSUME NEW o, Release(o), UNCHANGED <<wire, axes>>
    PROVE  JournalStep
BY DEF Release, JournalStep, Journal!Next, Journal!Drop, Journal!vars

\* Taking the token is the abstract Take.
LEMMA AcquireTakes ==
    ASSUME NEW o \in Op, Acquire(o), UNCHANGED <<wire, axes>>
    PROVE  JournalStep
BY DEF Acquire, JournalStep, Journal!Next, Journal!Take

\* A step that leaves the register, its owner and its journal alone stutters.
LEMMA OthersStutter ==
    ASSUME UNCHANGED <<held, wire, axes>>
    PROVE  JournalStep
BY DEF JournalStep, Journal!vars

\* Bind, rollback, manual write and system action: a write, then the policy
\* that says what the write did.
LEMMA QuickRefines == JInv /\ QuickStep => JournalStep
<1> SUFFICES ASSUME JInv, QuickStep PROVE JournalStep
    OBVIOUS
<1>1. CASE QuickWrite
  <2>1. CASE held = "system"
    BY <1>1, <2>1, OthersStutter DEF QuickWrite
  <2>2. CASE held # "system"
    BY <1>1, <2>2, SendMoves DEF QuickWrite, JInv, OneOwner, TypeOK, AxesOK
  <2> QED
    BY <2>1, <2>2
<1>2. CASE QuickConfirmed
  <2>1. CASE held = "bind"
    <3>1. endpoint = "ha" /\ policy' = "managed"
      BY <1>2, <2>1 DEF QuickConfirmed, JInv, QuickAims, QuickTargets
    <3> QED
      BY <1>2, <2>1, <3>1
         DEF QuickConfirmed, QuickLeaves, Release, JournalStep, Journal!Next, Journal!Control
  <2>2. CASE held = "rollback"
    <3>1. endpoint = "cloud" /\ policy' = "external"
      BY <1>2, <2>2 DEF QuickConfirmed, JInv, QuickAims, QuickTargets
    <3> QED
      BY <1>2, <2>2, <3>1
         DEF QuickConfirmed, QuickLeaves, Release, JournalStep, Journal!Next, Journal!Control
  <2>3. CASE held \notin {"bind", "rollback"}
    <3>1. policy' = policy
      BY <1>2, <2>3 DEF QuickConfirmed
    <3> QED
      BY <1>2, <3>1, ReleaseDrops DEF QuickConfirmed, QuickLeaves
  <2> QED
    BY <2>1, <2>2, <2>3
<1>3. CASE QuickFails
    BY <1>3, ReleaseDrops DEF QuickFails, QuickLeaves
<1> QED
    BY <1>1, <1>2, <1>3 DEF QuickStep

\* The transition: the marker is the abstract Intend, the receipt Confirm or
\* Control, the commit Settle.
LEMMA TransitionRefines == JInv /\ TransitionStep => JournalStep
<1> SUFFICES ASSUME JInv, TransitionStep PROVE JournalStep
    OBVIOUS
<1>1. CASE TransitionLock \/ TransitionPlan \/ TransitionSave
    BY <1>1 DEF TransitionLock, TransitionPlan, TransitionSave, JournalStep, Journal!vars
<1>2. CASE TransitionJournal
    BY <1>2 DEF TransitionJournal, JInv, OneOwner, TransitionJournalled, ToCallback,
                JournalStep, Journal!Next, Journal!Intend
<1>3. CASE TransitionRestart
  <2>1. CASE trWrites
    <3>1. TransitionTo = "cloud" => marker # None
      BY <1>3 DEF TransitionRestart, TransitionTo, JInv, TransitionJournalled, ToCallback,
                  TypeOK, AxesOK
    <3>2. held = "transition" /\ TransitionTo \in Endpoint
      BY <1>3 DEF TransitionRestart, TransitionTo, JInv, OneOwner
    <3>3. Send(TransitionTo, "switch") /\ UNCHANGED <<held, axes>>
      BY <1>3, <2>1 DEF TransitionRestart
    <3> QED
      BY <3>1, <3>2, <3>3, SendMoves
  <2>2. CASE ~trWrites
    BY <1>3, <2>2, OthersStutter DEF TransitionRestart
  <2> QED
    BY <2>1, <2>2
<1>4. CASE TransitionReceipt
  <2>0. held = "transition"
    BY <1>4 DEF TransitionReceipt, JInv, OneOwner
  <2>1. CASE trWrites /\ trTarget = "inbound"
    BY <1>4, <2>0, <2>1 DEF TransitionReceipt, TransitionTo, JournalStep, Journal!Next,
                            Journal!Control
  <2>2. CASE trWrites /\ trTarget = "callback"
    BY <1>4, <2>0, <2>2 DEF TransitionReceipt, TransitionTo, JInv, TransitionJournalled,
                            ToCallback, JournalStep, Journal!Next, Journal!Confirm
  <2>3. CASE ~trWrites
    BY <1>4, <2>3 DEF TransitionReceipt, JournalStep, Journal!vars
  <2> QED
    BY <2>1, <2>2, <2>3 DEF JInv, TypeOK, AxesOK
<1>5. CASE TransitionCommit
  <2>0. held = "transition" /\ held' = None /\ marker' = None
    BY <1>5 DEF TransitionCommit, TransitionLeaves, CommitMarker, Release, JInv, OneOwner
  <2>1. CASE trTarget = "inbound"
    BY <1>5, <2>0, <2>1 DEF TransitionCommit, JournalStep, Journal!Next, Journal!SettleInbound
  <2>2. CASE trTarget = "callback"
    BY <1>5, <2>0, <2>2 DEF TransitionCommit, JInv, TransitionJournalled, ToCallback,
                            JournalStep, Journal!Next, Journal!SettleCallback
  <2> QED
    BY <2>1, <2>2 DEF JInv, TypeOK, AxesOK
<1>6. CASE TransitionRecoveredInbound
    BY <1>6, ReleaseDrops DEF TransitionRecoveredInbound, TransitionLeaves, CommitMarker
<1>7. CASE TransitionFails
    BY <1>7, ReleaseDrops DEF TransitionFails, TransitionLeaves
<1> QED
    BY <1>1, <1>2, <1>3, <1>4, <1>5, <1>6, <1>7 DEF TransitionStep

\* The repair restores behind the marker it read and settles like a transition.
LEMMA RepairRefines == JInv /\ RepairStep => JournalStep
<1> SUFFICES ASSUME JInv, RepairStep PROVE JournalStep
    OBVIOUS
<1>1. CASE RepairSuspend \/ RepairBootstrap
    BY <1>1 DEF RepairSuspend, RepairBootstrap, JournalStep, Journal!vars
<1>2. CASE RepairAcquire
    BY <1>2, AcquireTakes DEF RepairAcquire
<1>3. CASE RepairRestart
    BY <1>3, SendMoves, OthersStutter
       DEF RepairRestart, JInv, OneOwner, RepairOwns, RepairJournalled
<1>4. CASE RepairReceipt
    BY <1>4 DEF RepairReceipt, JInv, OneOwner, RepairOwns, RepairJournalled,
                JournalStep, Journal!Next, Journal!Confirm, Journal!vars
<1>5. CASE RepairCommit
    BY <1>5 DEF RepairCommit, RepairLeaves, Release, JInv, OneOwner, RepairOwns,
                RepairJournalled, JournalStep, Journal!Next, Journal!SettleCallback
<1>6. CASE RepairFails
    BY <1>6, ReleaseDrops DEF RepairFails, RepairLeaves
<1> QED
    BY <1>1, <1>2, <1>3, <1>4, <1>5, <1>6 DEF RepairStep

\* The poll reads, and reconciles under its own token.
LEMMA PollRefines == JInv /\ PollStep => JournalStep
<1> SUFFICES ASSUME JInv, PollStep PROVE JournalStep
    OBVIOUS
<1>1. CASE PollRead \/ PollCheck
    BY <1>1 DEF PollRead, PollCheck, JournalStep, Journal!vars
<1>2. CASE PollTake
    BY <1>2, AcquireTakes DEF PollTake
<1>3. CASE PollWrite
    BY <1>3, SendMoves DEF PollWrite, JInv, OneOwner
<1>4. CASE PollEnd
    BY <1>4, ReleaseDrops DEF PollEnd
<1> QED
    BY <1>1, <1>2, <1>3, <1>4 DEF PollStep

\* A capture start writes only under its token and gives it back at the end.
LEMMA CaptureRefines == IInv /\ CaptureStep => JournalStep
<1> SUFFICES ASSUME IInv, CaptureStep PROVE JournalStep
    OBVIOUS
<1>1. CASE CaptureSave \/ CaptureRoute \/ CaptureRunning \/ CaptureStartFails \/ CaptureUnrestored
    BY <1>1 DEF CaptureSave, CaptureRoute, CaptureRunning, CaptureStartFails,
                CaptureUnrestored, JournalStep, Journal!vars
<1>2. CASE CaptureRedirect
    BY <1>2, SendMoves DEF CaptureRedirect, IInv, CInv, StartOwns
<1>3. CASE CaptureUndo
    BY <1>3, SendMoves DEF CaptureUndo, IInv, CInv, StartOwns
<1>4. CASE CaptureRefused \/ CaptureCleared
    BY <1>4, ReleaseDrops DEF CaptureRefused, CaptureCleared
<1> QED
    BY <1>1, <1>2, <1>3, <1>4 DEF CaptureStep

\* A stop adopts the token its session left and restores under it.
LEMMA StopRefines == IInv /\ StopStep => JournalStep
<1> SUFFICES ASSUME IInv, StopStep PROVE JournalStep
    OBVIOUS
<1>1. CASE StopSave \/ StopGuard \/ StopVerify \/ StopUnrestored \/ StopFails
    BY <1>1 DEF StopSave, StopGuard, StopVerify, StopUnrestored, StopFails, StopLeaves,
                JournalStep, Journal!vars
<1>2. CASE StopAdopt
    BY <1>2, AcquireTakes, OthersStutter DEF StopAdopt, Adopt, Acquire
<1>3. CASE StopRestore
    BY <1>3, SendMoves DEF StopRestore, IInv, CInv, StopHolds
<1>4. CASE StopCleared
    BY <1>4, ReleaseDrops DEF StopCleared
<1> QED
    BY <1>1, <1>2, <1>3, <1>4 DEF StopStep

\* Every step of the operations, a crash included, is a step of the journalled
\* single-owner register or leaves it alone.
LEMMA StepRefines == IInv /\ [Next]_vars => JournalStep
<1> SUFFICES ASSUME IInv, [Next]_vars PROVE JournalStep
    OBVIOUS
<1>1. JInv
    BY DEF IInv
<1>2. CASE \E k \in QuickOp : QuickStart(k)
    BY <1>2, AcquireTakes DEF QuickStart
<1>3. CASE \E t \in {"inbound", "callback"} : TransitionStart(t)
    BY <1>3, AcquireTakes DEF TransitionStart
<1>4. CASE CaptureStart
    BY <1>4, AcquireTakes DEF CaptureStart
<1>5. CASE TransitionCancel
    BY <1>5, ReleaseDrops DEF TransitionCancel, TransitionLeaves
<1>6. CASE RepairRead \/ PollStart \/ StopRead \/ TimerRead \/ TimerSave \/ Setup
           \/ Unload \/ UNCHANGED vars
    BY <1>6 DEF RepairRead, PollStart, StopRead, TimerRead, TimerSave, Setup, Unload,
                vars, JournalStep, Journal!vars
<1>7. CASE Crash
    BY <1>7 DEF Crash, JournalStep, Journal!Next, Journal!Drop, Journal!vars
<1> QED
    BY <1>1, <1>2, <1>3, <1>4, <1>5, <1>6, <1>7, QuickRefines, TransitionRefines,
       RepairRefines, PollRefines, CaptureRefines, StopRefines DEF Next

\* With one flow at a time and no stop or reload inside a start, the code is an
\* implementation of EndpointJournal: only the holder of the authority moves the
\* endpoint, a transition or a repair sends it to the cloud only behind the
\* marker, and strategy, policy and marker change in one write.
THEOREM OperationsImplementJournal ==
    ASSUME OneFlow, StartAlone PROVE Spec => ImplementsJournal
<1>1. Init => Journal!Init
    BY DEF Init, Journal!Init
<1>2. IInv /\ [Next]_vars => [Journal!Next]_(Journal!vars)
    BY StepRefines DEF JournalStep
<1> QED
    BY <1>1, <1>2, OwnershipInv, PTL DEF Spec, ImplementsJournal, Journal!Spec

=============================================================================
