-------------------------- MODULE DeliveryContract --------------------------
(***************************************************************************)
(* What one consumer/event subscription promises its publishers: a message *)
(* its queue accepted stays outstanding until the handler has succeeded    *)
(* with it or it lies in the dead-letter queue.  It may be handled more    *)
(* than once, and both handled and dead-lettered.                          *)
(***************************************************************************)
CONSTANT Messages

VARIABLES outstanding,  \* messages of which a live copy exists
          handled,      \* messages a handler succeeded with
          buried        \* messages in the dead-letter queue

vars == <<outstanding, handled, buried>>

Init == outstanding = {} /\ handled = {} /\ buried = {}

Accept(m) ==
    /\ m \notin handled \cup buried
    /\ outstanding' = outstanding \cup {m}
    /\ UNCHANGED <<handled, buried>>

Handle(m) ==
    /\ m \in outstanding
    /\ handled' = handled \cup {m}
    /\ UNCHANGED <<outstanding, buried>>

Bury(m) ==
    /\ m \in outstanding
    /\ buried' = buried \cup {m}
    /\ UNCHANGED <<outstanding, handled>>

Settle(m) ==
    /\ m \in outstanding \cap (handled \cup buried)
    /\ outstanding' = outstanding \ {m}
    /\ UNCHANGED <<handled, buried>>

(* A copy in flight when its consumer stopped waiting for the confirm may    *)
(* still arrive, after another copy settled the message.                     *)
Revive(m) ==
    /\ m \in handled \cup buried
    /\ outstanding' = outstanding \cup {m}
    /\ UNCHANGED <<handled, buried>>

ReviveDead(m) ==
    /\ m \in handled \cup buried
    /\ buried' = buried \cup {m}
    /\ UNCHANGED <<outstanding, handled>>

Next == \E m \in Messages : \/ Accept(m)
                            \/ Handle(m)
                            \/ Bury(m)
                            \/ Settle(m)
                            \/ Revive(m)
                            \/ ReviveDead(m)

Spec == Init /\ [][Next]_vars
=============================================================================
