-------------------------- MODULE MCCallbackLedger --------------------------
(***************************************************************************)
(* CallbackLedger on small instances.  t1 and t2 use one attempt id, t3 its *)
(* own; s0 sends without an attempt, s1 and s2 in the context of one.       *)
(***************************************************************************)
EXTENDS CallbackLedger

CONSTANTS t1, t2, t3, s0, s1, s2, a1, a2

MCAttemptOf == [t \in Task |-> IF t = t3 THEN a2 ELSE a1]
MCContext ==
    [s \in Sender |-> CASE s = s0 -> NoAttempt [] s = s1 -> a1 [] OTHER -> a2]
=============================================================================
