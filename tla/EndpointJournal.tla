---------------------------- MODULE EndpointJournal ----------------------------
(***************************************************************************)
(* What the endpoint operations of one config entry promise together: one  *)
(* register (the server endpoint the collector keeps in its parameter 21)  *)
(* with at most one owner, and a write-ahead journal (the transition       *)
(* marker in the entry data) for the only moves that can strand it.        *)
(*                                                                         *)
(* The promise, from the module comments of collector_endpoint_operation,  *)
(* strategy_transition and strategy_transition_recovery:                   *)
(*   - only the owner moves the endpoint;                                  *)
(*   - a transition or a repair sends the collector back to the cloud only *)
(*     with the intent journalled before;                                  *)
(*   - the strategy changes in one durable write, together with the end of *)
(*     the journal and with the policy that goes with it.                  *)
(*                                                                         *)
(* EndpointOwnership is the code; it is checked to implement this Spec.    *)
(***************************************************************************)
CONSTANTS None, Op

VARIABLES
    owner,      \* the operation that owns the endpoint, or None
    endpoint,   \* where the collector connects on its own: "ha" or "cloud"
    strategy,   \* "inbound" or "callback", durable
    policy,     \* "managed" or "external", durable
    intent      \* the journal: None, "pending" or "confirmed", durable

vars == <<owner, endpoint, strategy, policy, intent>>

Init ==
    /\ owner = None
    /\ endpoint \in {"ha", "cloud"}
    /\ strategy \in {"inbound", "callback"}
    /\ policy \in {"managed", "external"}
    /\ intent = None

Take(o) ==
    /\ owner = None
    /\ owner' = o
    /\ UNCHANGED <<endpoint, strategy, policy, intent>>

\* The operation ends, or Home Assistant restarts and forgets it.
Drop ==
    /\ owner # None
    /\ owner' = None
    /\ UNCHANGED <<endpoint, strategy, policy, intent>>

Move(e) ==
    /\ owner # None
    /\ owner \in {"transition", "repair"} /\ e = "cloud" => intent # None
    /\ endpoint' = e
    /\ UNCHANGED <<owner, strategy, policy, intent>>

Intend ==
    /\ owner = "transition"
    /\ strategy = "inbound"
    /\ intent' = "pending"
    /\ UNCHANGED <<owner, endpoint, strategy, policy>>

\* The restore is known to have happened: the policy follows in the same write.
Confirm ==
    /\ owner \in {"transition", "repair"}
    /\ intent # None
    /\ endpoint = "cloud"
    /\ intent' = "confirmed"
    /\ policy' = "external"
    /\ UNCHANGED <<owner, endpoint, strategy>>

\* A confirmed write of another kind: the policy says who holds the endpoint.
Control ==
    /\ owner \in {"transition", "bind", "rollback"}
    /\ policy' = IF endpoint = "ha" THEN "managed" ELSE "external"
    /\ owner' \in {owner, None}
    /\ UNCHANGED <<endpoint, strategy, intent>>

SettleInbound ==
    /\ owner = "transition"
    /\ endpoint = "ha"
    /\ strategy' = "inbound"
    /\ policy' \in {policy, "managed"}
    /\ intent' = None
    /\ owner' = None
    /\ UNCHANGED endpoint

SettleCallback ==
    /\ owner \in {"transition", "repair"}
    /\ intent # None
    /\ strategy' = "callback"
    /\ policy' = "external"
    /\ intent' = None
    /\ owner' = None
    /\ UNCHANGED endpoint

Next ==
    \/ \E o \in Op : Take(o)
    \/ Drop
    \/ \E e \in {"ha", "cloud"} : Move(e)
    \/ Intend
    \/ Confirm
    \/ Control
    \/ SettleInbound
    \/ SettleCallback

Spec == Init /\ [][Next]_vars
=============================================================================
