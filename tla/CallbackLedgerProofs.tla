------------------------ MODULE CallbackLedgerProofs ------------------------
(***************************************************************************)
(* What CallbackLedger guarantees for any number of tasks, senders and       *)
(* attempt ids, and any bound on the generation and on the probe passes.     *)
(***************************************************************************)
EXTENDS CallbackLedger, FiniteSetTheorems, TLAPS

Sending == {s \in Sender : send[s] = "sending"}
Inhibiting == {t \in Task : silence[t] \in {"draining", "silent"}}

\* The counters and the event say what they stand for.
CountersOK ==
    /\ active = Cardinality(Sending)
    /\ drained <=> active = 0
    /\ inhibitors = Cardinality(Inhibiting)

\* No open attempt was ever told of a foreign trigger.
NoForeign == \A a \in Open : attempts[a].foreign = 0

IInv == TypeOK /\ LeaseLockStep /\ CountersOK /\ SilentWindow /\ NoForeign

-----------------------------------------------------------------------------
(* Counting over finite sets *)

\* The sets that the ledger counts are finite.
LEMMA FiniteSubsets ==
    IsFiniteSet(Sending) /\ IsFiniteSet(Inhibiting)
<1>1. Sending \subseteq Sender /\ Inhibiting \subseteq Task
  BY DEF Sending, Inhibiting
<1> QED
  BY <1>1, LedgerAssumption, FS_Subset DEF LedgerAssumption

\* Entering a counted scope adds one.
LEMMA CountUp ==
    ASSUME NEW S, IsFiniteSet(S), NEW x, x \notin S
    PROVE  Cardinality(S \cup {x}) = Cardinality(S) + 1
  BY FS_AddElement

\* Leaving takes one away.
LEMMA CountDown ==
    ASSUME NEW S, IsFiniteSet(S), NEW x \in S
    PROVE  /\ Cardinality(S \ {x}) = Cardinality(S) - 1
           /\ Cardinality(S) > 0
<1>1. Cardinality(S) \in Nat
  BY FS_CardinalityType
<1>2. Cardinality(S) # 0
  BY FS_EmptySet
<1> QED
  BY <1>1, <1>2, FS_RemoveElement

\* A zero counter means that nobody is in the scope.
LEMMA NobodyCounted ==
    ASSUME CountersOK
    PROVE  /\ active = 0 => Sending = {}
           /\ inhibitors = 0 => Inhibiting = {}
  BY FiniteSubsets, FS_EmptySet DEF CountersOK

-----------------------------------------------------------------------------
(* The inductive invariant *)

\* The initial state satisfies the inductive invariant.
LEMMA InitInv == Init => IInv
<1> SUFFICES ASSUME Init PROVE IInv
  OBVIOUS
<1> USE LedgerAssumption DEF LedgerAssumption, Init
<1>1. Sending = {} /\ Inhibiting = {}
  BY DEF Sending, Inhibiting
<1>2. Cardinality({}) = 0
  BY FS_EmptySet
<1>3. TypeOK
  BY DEF TypeOK, Open, Tally
<1>4. LeaseLockStep
  BY DEF LeaseLockStep, Open
<1>5. CountersOK
  BY <1>1, <1>2 DEF CountersOK
<1>6. SilentWindow /\ NoForeign
  BY DEF SilentWindow, NoForeign, Open
<1> QED
  BY <1>3, <1>4, <1>5, <1>6 DEF IInv

\* The retry budget that BeginSend gives a send is in range.
LEMMA PassRange == 0 \in 0 .. MaxPasses /\ MaxPasses - 1 \in 0 .. MaxPasses
  BY LedgerAssumption DEF LedgerAssumption

\* Every step keeps the types.
LEMMA TypeStep == TypeOK /\ [Next]_vars => TypeOK'
<1> SUFFICES ASSUME TypeOK, [Next]_vars PROVE TypeOK'
  OBVIOUS
<1> USE LedgerAssumption DEF LedgerAssumption, TypeOK, Open, Tally, leaseVars, sendVars,
        silenceVars
<1>1. ASSUME NEW t \in Task, TaskStep(t) PROVE TypeOK'
  <2>1. CASE AcquireLease(t)
    BY <2>1 DEF AcquireLease
  <2>2. CASE WaitForLease(t) \/ DuplicateRefused(t) \/ GiveUp(t)
    BY <2>2 DEF WaitForLease, DuplicateRefused, GiveUp
  <2>3. CASE LeaveLease(t)
    BY <2>3 DEF LeaveLease, ReleaseCausality
  <2>4. CASE Inhibit(t) \/ Drained(t) \/ LeaveSilence(t)
    BY <2>4 DEF Inhibit, Drained, LeaveSilence
  <2> QED
    BY <1>1, <2>1, <2>2, <2>3, <2>4 DEF TaskStep
<1>2. ASSUME NEW s \in Sender, SenderStep(s) PROVE TypeOK'
  <2>1. ASSUME Record(s) PROVE /\ generation' \in 0 .. MaxGeneration
                               /\ Open' \subseteq Attempt
                               /\ attempts' \in [Open' -> Tally]
    <3>1. \A a \in Open : /\ attempts[a].own \in Nat
                          /\ attempts[a].foreign \in Nat
      OBVIOUS
    <3>2. \A a \in Open : Counted(s)[a] \in Tally
      BY <3>1 DEF Counted
    <3>3. Counted(s) \in [Open -> Tally]
      BY <3>2 DEF Counted
    <3> QED
      BY <2>1, <3>3 DEF Record
  <2>2. CASE BeginSend(s)
    <3>1. UNCHANGED <<lease, owner, silence, inhibitors>> /\ Record(s)
      BY <2>2 DEF BeginSend
    <3>2. send' \in [Sender -> {"idle", "sending"}] /\ wire' \subseteq Sender
      BY <2>2 DEF BeginSend
    <3>3. passes' \in [Sender -> 0 .. MaxPasses]
      BY <2>2, PassRange DEF BeginSend
    <3>4. active' \in Nat
      BY <2>2 DEF BeginSend
    <3>5. drained' \in BOOLEAN
      BY <2>2, Zenon DEF BeginSend
    <3> QED
      BY <2>1, <3>1, <3>2, <3>3, <3>4, <3>5
  <2>3. CASE PassDone(s) \/ Retransmit(s)
    BY <2>3 DEF PassDone, Retransmit
  <2>4. CASE EndSend(s) \/ CancelSend(s)
    <3>1. LeaveScope(s)
      BY <2>4 DEF EndSend, CancelSend
    <3>2. /\ send' \in [Sender -> {"idle", "sending"}]
          /\ passes' \in [Sender -> 0 .. MaxPasses]
      BY <3>1, PassRange DEF LeaveScope
    <3>3. active' \in Nat
      BY <3>1 DEF LeaveScope
    <3>4. drained' \in BOOLEAN
      BY <3>1 DEF LeaveScope
    <3> QED
      BY <3>1, <3>2, <3>3, <3>4 DEF LeaveScope
  <2>5. CASE Announce(s)
    BY <2>1, <2>5 DEF Announce
  <2> QED
    BY <1>2, <2>2, <2>3, <2>4, <2>5 DEF SenderStep
<1>3. ASSUME UNCHANGED vars PROVE TypeOK'
  BY <1>3 DEF vars
<1> QED
  BY <1>1, <1>2, <1>3 DEF Next

\* Every step keeps owner, tally and lease holder together.
LEMMA LockStepStep == TypeOK /\ LeaseLockStep /\ [Next]_vars => LeaseLockStep'
<1> SUFFICES ASSUME TypeOK, LeaseLockStep, [Next]_vars PROVE LeaseLockStep'
  OBVIOUS
<1> USE LedgerAssumption DEF LedgerAssumption, TypeOK, LeaseLockStep, Open, leaseVars,
        sendVars, silenceVars
<1>1. ASSUME NEW t \in Task, TaskStep(t) PROVE LeaseLockStep'
  <2>1. CASE AcquireLease(t)
    <3>1. \A u \in Task : lease[u] # "held"
      BY <2>1 DEF AcquireLease
    <3>2. /\ owner' = AttemptOf[t]
          /\ \A u \in Task : lease'[u] = "held" <=> u = t
          /\ Open' = {owner'}
      BY <2>1, <3>1 DEF AcquireLease
    <3> QED
      BY <3>2
  <2>2. CASE WaitForLease(t) \/ DuplicateRefused(t) \/ GiveUp(t)
    <3>1. lease[t] # "held" /\ lease'[t] # "held"
      BY <2>2 DEF WaitForLease, DuplicateRefused, GiveUp
    <3>2. /\ UNCHANGED <<owner, attempts>>
          /\ \A u \in Task : u # t => lease'[u] = lease[u]
      BY <2>2 DEF WaitForLease, DuplicateRefused, GiveUp
    <3>3. \A u \in Task : lease'[u] = "held" <=> lease[u] = "held"
      BY <3>1, <3>2
    <3> QED
      BY <3>2, <3>3
  <2>3. CASE LeaveLease(t)
    <3>1. owner = AttemptOf[t] /\ \A u \in Task : lease[u] = "held" => u = t
      BY <2>3 DEF LeaveLease
    <3>2. /\ owner' = NoAttempt
          /\ Open' = {}
          /\ \A u \in Task : lease'[u] # "held"
      BY <2>3, <3>1 DEF LeaveLease, ReleaseCausality
    <3> QED
      BY <3>2
  <2>4. CASE Inhibit(t) \/ Drained(t) \/ LeaveSilence(t)
    BY <2>4 DEF Inhibit, Drained, LeaveSilence
  <2> QED
    BY <1>1, <2>1, <2>2, <2>3, <2>4 DEF TaskStep
<1>2. ASSUME NEW s \in Sender, SenderStep(s) PROVE LeaseLockStep'
  <2>1. UNCHANGED <<lease, owner>> /\ Open' = Open
    BY <1>2 DEF SenderStep, BeginSend, PassDone, Retransmit, EndSend, CancelSend, LeaveScope,
                Announce, Record, Counted
  <2> QED
    BY <2>1
<1>3. ASSUME UNCHANGED vars PROVE LeaseLockStep'
  BY <1>3 DEF vars
<1> QED
  BY <1>1, <1>2, <1>3 DEF Next

\* Each counted set changes by the element that enters or leaves its scope.
LEMMA CountersStep == TypeOK /\ CountersOK /\ [Next]_vars => CountersOK'
<1> SUFFICES ASSUME TypeOK, CountersOK, [Next]_vars PROVE CountersOK'
  OBVIOUS
<1>0. active \in Nat /\ inhibitors \in Nat /\ drained \in BOOLEAN
  BY DEF TypeOK
<1>1. ASSUME NEW t \in Task, TaskStep(t) PROVE CountersOK'
  <2> USE DEF leaseVars, sendVars, silenceVars
  <2>1. UNCHANGED <<send, active, drained>>
    BY <1>1 DEF TaskStep, AcquireLease, WaitForLease, DuplicateRefused, GiveUp, LeaveLease,
                Inhibit, Drained, LeaveSilence
  <2>2. Sending' = Sending
    BY <2>1 DEF Sending
  <2>3. inhibitors' = Cardinality(Inhibiting')
    <3>1. CASE Inhibit(t)
      <4>1. Inhibiting' = Inhibiting \cup {t} /\ t \notin Inhibiting
        BY <3>1 DEF Inhibit, Inhibiting, TypeOK
      <4> QED
        BY <3>1, <4>1, CountUp, FiniteSubsets DEF Inhibit, CountersOK
    <3>2. CASE LeaveSilence(t)
      <4>1. Inhibiting' = Inhibiting \ {t} /\ t \in Inhibiting
        BY <3>2 DEF LeaveSilence, Inhibiting, TypeOK
      <4> QED
        BY <3>2, <4>1, CountDown, FiniteSubsets DEF LeaveSilence, CountersOK
    <3>3. CASE Drained(t)
      <4>1. Inhibiting' = Inhibiting
        BY <3>3 DEF Drained, Inhibiting, TypeOK
      <4> QED
        BY <3>3, <4>1 DEF Drained, CountersOK
    <3>4. CASE UNCHANGED <<silence, inhibitors>>
      BY <3>4 DEF CountersOK, Inhibiting
    <3> QED
      BY <1>1, <3>1, <3>2, <3>3, <3>4 DEF TaskStep, AcquireLease, WaitForLease,
         DuplicateRefused, GiveUp, LeaveLease
  <2> QED
    BY <2>1, <2>2, <2>3 DEF CountersOK
<1>2. ASSUME NEW s \in Sender, SenderStep(s) PROVE CountersOK'
  <2> USE DEF leaseVars, sendVars, silenceVars
  <2>1. UNCHANGED <<silence, inhibitors>>
    BY <1>2 DEF SenderStep, BeginSend, PassDone, Retransmit, EndSend, CancelSend, LeaveScope,
                Announce
  <2>2. inhibitors' = Cardinality(Inhibiting')
    BY <2>1 DEF CountersOK, Inhibiting
  <2>3. CASE BeginSend(s)
    <3>1. Sending' = Sending \cup {s} /\ s \notin Sending
      BY <2>3 DEF BeginSend, Sending, TypeOK
    <3>2. active' = Cardinality(Sending') /\ active' # 0
      BY <1>0, <2>3, <3>1, CountUp, FiniteSubsets DEF BeginSend, CountersOK
    <3>3. ~drained'
      BY <2>3, Zenon DEF BeginSend
    <3> QED
      BY <2>2, <3>2, <3>3 DEF CountersOK
  <2>4. CASE EndSend(s) \/ CancelSend(s)
    <3>1. LeaveScope(s) /\ send[s] = "sending"
      BY <2>4 DEF EndSend, CancelSend
    <3>2. Sending' = Sending \ {s} /\ s \in Sending
      BY <3>1 DEF LeaveScope, Sending, TypeOK
    <3>3. active' = Cardinality(Sending') /\ active > 0
      BY <1>0, <3>1, <3>2, CountDown, FiniteSubsets DEF LeaveScope, CountersOK
    <3>4. ~drained
      BY <1>0, <3>3 DEF CountersOK
    <3>5. drained' <=> active' = 0
      BY <3>1, <3>4 DEF LeaveScope
    <3> QED
      BY <2>2, <3>3, <3>5 DEF CountersOK
  <2>5. CASE UNCHANGED <<send, active, drained>>
    BY <2>2, <2>5 DEF CountersOK, Sending
  <2> QED
    BY <1>2, <2>3, <2>4, <2>5 DEF SenderStep, PassDone, Retransmit, Announce
<1>3. ASSUME UNCHANGED vars PROVE CountersOK'
  BY <1>3 DEF vars, CountersOK, Sending, Inhibiting
<1> QED
  BY <1>1, <1>2, <1>3 DEF Next

\* A verifier enters its silent window only when the event says that nobody
\* sends, and while it inhibits nobody starts.
LEMMA SilentStep ==
    TypeOK /\ CountersOK /\ SilentWindow /\ [Next]_vars => SilentWindow'
<1> SUFFICES ASSUME TypeOK, CountersOK, SilentWindow, [Next]_vars,
                    NEW v \in Task, silence'[v] = "silent", NEW r \in Sender
             PROVE  send'[r] = "idle"
  BY DEF SilentWindow
<1>0. (drained => Sending = {}) /\ (inhibitors = 0 => Inhibiting = {})
  BY NobodyCounted DEF CountersOK
<1> USE DEF leaseVars, sendVars, silenceVars
<1>1. ASSUME NEW t \in Task, TaskStep(t) PROVE send'[r] = "idle"
  <2>1. send' = send
    BY <1>1 DEF TaskStep, AcquireLease, WaitForLease, DuplicateRefused, GiveUp, LeaveLease,
                Inhibit, Drained, LeaveSilence
  <2>2. CASE Drained(t)
    <3>1. Sending = {}
      BY <1>0, <2>2 DEF Drained
    <3> QED
      BY <2>1, <3>1 DEF Sending, TypeOK
  <2>3. CASE ~Drained(t)
    <3>1. silence[v] = "silent"
      BY <1>1, <2>3 DEF TaskStep, AcquireLease, WaitForLease, DuplicateRefused, GiveUp,
                        LeaveLease, Inhibit, LeaveSilence, TypeOK
    <3> QED
      BY <2>1, <3>1 DEF SilentWindow
  <2> QED
    BY <2>2, <2>3
<1>2. ASSUME NEW s \in Sender, SenderStep(s) PROVE send'[r] = "idle"
  <2>1. silence' = silence
    BY <1>2 DEF SenderStep, BeginSend, PassDone, Retransmit, EndSend, CancelSend, LeaveScope,
                Announce
  <2>2. send[r] = "idle" /\ v \in Inhibiting
    BY <2>1 DEF SilentWindow, Inhibiting
  <2>3. ~BeginSend(s)
    BY <1>0, <2>2 DEF BeginSend, MaySend
  <2>4. send'[r] = send[r] \/ send'[r] = "idle"
    BY <1>2, <2>3 DEF SenderStep, PassDone, Retransmit, EndSend, CancelSend, LeaveScope,
                      Announce, TypeOK
  <2> QED
    BY <2>2, <2>4
<1>3. ASSUME UNCHANGED vars PROVE send'[r] = "idle"
  BY <1>3 DEF vars, SilentWindow
<1> QED
  BY <1>1, <1>2, <1>3 DEF Next

\* A recorded trigger passed the gate, so it belongs to the one open attempt.
LEMMA RecordedIsOwn ==
    ASSUME TypeOK, LeaseLockStep, NEW s \in Sender, MaySend(s), Record(s),
           NEW a \in Open
    PROVE  /\ attempts'[a].foreign = attempts[a].foreign
           /\ attempts'[a].own = attempts[a].own + 1
<1>1. a = Context[s]
  BY DEF LeaseLockStep, MaySend
<1>2. attempts[a] \in Tally
  BY DEF TypeOK
<1>3. attempts'[a] = [attempts[a] EXCEPT !.own = @ + 1]
  BY <1>1 DEF Record, Counted
<1> QED
  BY <1>2, <1>3 DEF Tally

\* No open attempt ever counts a foreign trigger.
LEMMA ForeignStep ==
    TypeOK /\ LeaseLockStep /\ NoForeign /\ [Next]_vars => NoForeign'
<1> SUFFICES ASSUME TypeOK, LeaseLockStep, NoForeign, [Next]_vars, NEW a \in Open'
             PROVE  attempts'[a].foreign = 0
  BY DEF NoForeign
<1> USE DEF leaseVars, sendVars, silenceVars
<1>1. ASSUME NEW t \in Task, TaskStep(t) PROVE attempts'[a].foreign = 0
  <2>1. CASE AcquireLease(t)
    BY <2>1 DEF AcquireLease, NoForeign, Open
  <2>2. CASE LeaveLease(t)
    BY <2>2 DEF LeaveLease, ReleaseCausality, NoForeign, Open
  <2>3. CASE UNCHANGED attempts
    BY <2>3 DEF NoForeign, Open
  <2> QED
    BY <1>1, <2>1, <2>2, <2>3 DEF TaskStep, WaitForLease, DuplicateRefused, GiveUp, Inhibit,
                                  Drained, LeaveSilence
<1>2. ASSUME NEW s \in Sender, SenderStep(s) PROVE attempts'[a].foreign = 0
  <2>1. CASE BeginSend(s) \/ Announce(s)
    <3>1. MaySend(s) /\ Record(s)
      BY <2>1 DEF BeginSend, Announce
    <3>2. a \in Open
      BY <3>1 DEF Record, Counted, Open
    <3> QED
      BY <3>1, <3>2, RecordedIsOwn DEF NoForeign
  <2>2. CASE UNCHANGED attempts
    BY <2>2 DEF NoForeign, Open
  <2> QED
    BY <1>2, <2>1, <2>2 DEF SenderStep, PassDone, Retransmit, EndSend, CancelSend, LeaveScope
<1>3. ASSUME UNCHANGED vars PROVE attempts'[a].foreign = 0
  BY <1>3 DEF vars, NoForeign, Open
<1> QED
  BY <1>1, <1>2, <1>3 DEF Next

\* Every step keeps the inductive invariant.
LEMMA Inductive == IInv /\ [Next]_vars => IInv'
  BY TypeStep, LockStepStep, CountersStep, SilentStep, ForeignStep DEF IInv

\* The inductive invariant of the ledger holds in every reachable state.
THEOREM InvariantHolds == Spec => []IInv
  BY InitInv, Inductive, PTL DEF Spec

-----------------------------------------------------------------------------
(* The results *)

\* The ledger's fields keep their types.
THEOREM TypeCorrect == Spec => []TypeOK
<1>1. IInv => TypeOK
  BY DEF IInv
<1> QED
  BY <1>1, InvariantHolds, PTL

\* The owner string, the open tally and the task inside causality_lease never fall
\* out of step, so at most one attempt's window is open.
THEOREM LeaseIsExclusive == Spec => []LeaseLockStep
<1>1. IInv => LeaseLockStep
  BY DEF IInv
<1> QED
  BY <1>1, InvariantHolds, PTL

\* No send is inside callback_send_scope while a verifier is in its window.
THEOREM SilenceHolds == Spec => []SilentWindow
<1>1. IInv => SilentWindow
  BY DEF IInv
<1> QED
  BY <1>1, InvariantHolds, PTL

\* The generation does not move while a verifier stays in its silent window.
THEOREM GenerationIsFrozen == Spec => GenerationFrozen
<1>1. IInv /\ [Next]_vars => [(\E t \in Task : Watched(t)) => generation' = generation]_vars
  <2> SUFFICES ASSUME IInv, [Next]_vars, NEW t \in Task, Watched(t)
               PROVE  generation' = generation
    OBVIOUS
  <2> USE DEF leaseVars, sendVars, silenceVars
  <2>1. inhibitors # 0
    <3>1. t \in Inhibiting
      BY DEF Watched, Inhibiting
    <3> QED
      BY <3>1, NobodyCounted DEF IInv
  <2>2. \A s \in Sender : ~BeginSend(s) /\ ~Announce(s)
    BY <2>1 DEF BeginSend, Announce, MaySend
  <2> QED
    BY <2>2 DEF Next, TaskStep, SenderStep, AcquireLease, WaitForLease, DuplicateRefused,
                GiveUp, LeaveLease, Inhibit, Drained, LeaveSilence, PassDone, Retransmit,
                EndSend, CancelSend, LeaveScope, vars
<1> QED
  BY <1>1, InvariantHolds, PTL DEF Spec, GenerationFrozen

\* Every trigger recorded while an attempt's window is open is counted as its own.
THEOREM WindowIsAttributed == Spec => WindowAttribution
<1>1. IInv /\ [Next]_vars
        => [\A a \in Attempt : a \in Open /\ a \in Open' => Attributed(a)]_vars
  <2> SUFFICES ASSUME IInv, [Next]_vars, NEW a \in Attempt, a \in Open, a \in Open'
               PROVE  Attributed(a)
    OBVIOUS
  <2> USE DEF leaseVars, sendVars, silenceVars
  <2>1. TypeOK /\ LeaseLockStep /\ attempts[a].foreign = 0 /\ attempts'[a].foreign = 0
    BY Inductive DEF IInv, NoForeign
  <2>2. attempts[a].own \in Nat /\ generation \in Nat
    BY <2>1 DEF TypeOK, Tally
  <2>3. ASSUME NEW t \in Task, TaskStep(t)
        PROVE  attempts'[a] = attempts[a] /\ generation' = generation
    <3>1. CASE AcquireLease(t)
      BY <2>1, <3>1 DEF AcquireLease, LeaseLockStep, Open
    <3>2. CASE LeaveLease(t)
      BY <3>2 DEF LeaveLease, ReleaseCausality, Open
    <3>3. CASE UNCHANGED <<attempts, generation>>
      BY <3>3
    <3> QED
      BY <2>3, <3>1, <3>2, <3>3 DEF TaskStep, WaitForLease, DuplicateRefused, GiveUp,
                                    Inhibit, Drained, LeaveSilence
  <2>4. ASSUME NEW s \in Sender, BeginSend(s) \/ Announce(s)
        PROVE  /\ attempts'[a].own = attempts[a].own + 1
               /\ generation' = generation + 1
    <3>1. MaySend(s) /\ Record(s)
      BY <2>4 DEF BeginSend, Announce
    <3> QED
      BY <2>1, <3>1, RecordedIsOwn DEF Record
  <2>5. ASSUME NEW s \in Sender, SenderStep(s), ~BeginSend(s), ~Announce(s)
        PROVE  UNCHANGED <<attempts, generation>>
    BY <2>5 DEF SenderStep, PassDone, Retransmit, EndSend, CancelSend, LeaveScope
  <2>6. CASE UNCHANGED vars
    BY <2>1, <2>2, <2>6 DEF vars, Attributed
  <2> QED
    BY <2>1, <2>2, <2>3, <2>4, <2>5, <2>6 DEF Next, Attributed
<1> QED
  BY <1>1, InvariantHolds, PTL DEF Spec, WindowAttribution
=============================================================================
