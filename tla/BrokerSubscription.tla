------------------------- MODULE BrokerSubscription -------------------------
(***************************************************************************)
(* RabbitMQDomainBroker: publish, and one subscription with its queue, its *)
(* delayed-retry queue and its dead-letter queue.  Every copy of a message *)
(* occupies a slot.  A publication is on the wire until the server routes  *)
(* it (and confirms) or refuses it (and nacks); consumers crash and are    *)
(* restarted in between.                                                   *)
(***************************************************************************)
EXTENDS Integers, FiniteSets

CONSTANTS Messages,
          Poison,      \* messages whose handler, or whose schema, always fails
          Consumers,   \* processes subscribed under the same consumerName
          Slots,       \* bound: copies that exist at once
          MaxRetries,  \* options.maxRetries
          MaxFaults,   \* bound: crashes and refused or unconfirmed copies
          None

ASSUME SubscriptionAssumption ==
    /\ MaxRetries \in Nat /\ MaxFaults \in Nat
    /\ Poison \subseteq Messages /\ Slots \subseteq Nat
    /\ None \notin Slots /\ None \notin Messages

VARIABLES
  bound,      \* the queues exist and are bound
  pub,        \* what the publisher of each message knows
  copies,     \* each slot: its message, x-retry-count and place
  pc,         \* each consumer
  held, out,  \* its unacknowledged copy, the copy whose confirm it awaits
  handled,    \* messages some handler run succeeded with
  faults

serverVars == <<bound, copies>>
consumerVars == <<pc, held, out>>
vars == <<bound, pub, copies, pc, held, out, handled, faults>>

Wire == {"toQueue", "toRetry", "toDead"}
Live == {"queue", "unacked", "retry"}
Free == [msg |-> None, retries |-> 0, place |-> "free"]
FreeSlots == {c \in Slots : copies[c].place = "free"}
(* Slots are only names: the least free one is taken.                       *)
NextSlot == {c \in FreeSlots : \A s \in FreeSlots : c <= s}
Arrived(place) == CASE place = "toQueue" -> "queue"
                    [] place = "toRetry" -> "retry"
                    [] place = "toDead"  -> "dead"

Init == /\ bound = FALSE
        /\ pub = [m \in Messages |-> "unsent"]
        /\ copies = [c \in Slots |-> Free]
        /\ pc = [k \in Consumers |-> "down"]
        /\ held = [k \in Consumers |-> None]
        /\ out = [k \in Consumers |-> None]
        /\ handled = {}
        /\ faults = 0

Fault == faults < MaxFaults /\ faults' = faults + 1

-----------------------------------------------------------------------------
(* publish(): channel.publish, then waitForConfirms                         *)

PublishEvent(m) ==
    /\ pub[m] = "unsent"
    /\ \E c \in NextSlot : copies' = [copies EXCEPT ![c] =
         [msg |-> m, retries |-> 0, place |-> "toQueue"]]
    /\ pub' = [pub EXCEPT ![m] = "waiting"]
    /\ UNCHANGED <<bound, consumerVars, handled, faults>>

(* The server took the copy on the wire: whoever waits for it is confirmed.  *)
(* The exchange drops a message no queue is bound for and confirms it all    *)
(* the same.                                                                 *)
Landed(copy) == IF copy.place = "toQueue" /\ ~bound THEN Free
                ELSE [copy EXCEPT !.place = Arrived(copy.place)]
(* mutant: a confirmed republication is followed by a nack                  *)
AnsweredByNack(c, answer) ==
    /\ pub' = pub
    /\ pc' = [k \in Consumers |->
                IF pc[k] = "confirming" /\ out[k] = c THEN "nacking" ELSE pc[k]]
    /\ out' = [k \in Consumers |-> IF out[k] = c THEN None ELSE out[k]]
Answered(c, answer) ==
    /\ pub' = IF copies[c].place = "toQueue" /\ pub[copies[c].msg] = "waiting"
              THEN [pub EXCEPT ![copies[c].msg] =
                      IF answer = "ack" THEN "confirmed" ELSE "rejected"]
              ELSE pub
    /\ pc' = [k \in Consumers |->
                IF pc[k] = "confirming" /\ out[k] = c
                THEN IF answer = "ack" THEN "acking" ELSE "nacking" ELSE pc[k]]
    /\ out' = [k \in Consumers |-> IF out[k] = c THEN None ELSE out[k]]

BrokerRoutes(c) ==
    /\ copies[c].place \in Wire
    /\ copies' = [copies EXCEPT ![c] = Landed(copies[c])]
    /\ Answered(c, "ack")
    /\ UNCHANGED <<bound, held, handled, faults>>

(* basic.nack, or the connection went away under the copy                    *)
BrokerRefuses(c) ==
    /\ copies[c].place \in Wire
    /\ Fault
    /\ copies' = [copies EXCEPT ![c] = Free]
    /\ Answered(c, "nack")
    /\ UNCHANGED <<bound, held, handled>>

-----------------------------------------------------------------------------
(* subscribe(): every queue is asserted and bound before consume            *)

AssertTopology(k) ==
    /\ pc[k] = "down"
    /\ bound' = TRUE
    /\ pc' = [pc EXCEPT ![k] = "asserted"]
    /\ UNCHANGED <<pub, copies, held, out, handled, faults>>

Consume(k) ==
    /\ pc[k] = "asserted"
    /\ pc' = [pc EXCEPT ![k] = "idle"]
    /\ UNCHANGED <<pub, serverVars, held, out, handled, faults>>

(* prefetch(1): one unacknowledged copy per consumer                        *)
Deliver(k, c) ==
    /\ pc[k] = "idle"
    /\ copies[c].place = "queue"
    /\ copies' = [copies EXCEPT ![c].place = "unacked"]
    /\ pc' = [pc EXCEPT ![k] = "handling"]
    /\ held' = [held EXCEPT ![k] = c]
    /\ UNCHANGED <<bound, pub, out, handled, faults>>

HandlerSucceeds(k) ==
    /\ pc[k] = "handling"
    /\ copies[held[k]].msg \notin Poison
    /\ handled' = handled \cup {copies[held[k]].msg}
    /\ pc' = [pc EXCEPT ![k] = "acking"]
    /\ UNCHANGED <<pub, serverVars, held, out, faults>>

(* mutants: one retry too few, x-retry-count not raised                     *)
RetryOnceLess(copy) ==
    IF copy.retries + 1 < MaxRetries THEN "toRetry" ELSE "toDead"
SameRetryCount(copy) == copy.retries
RetryTarget(copy) ==
    IF copy.retries < MaxRetries THEN "toRetry" ELSE "toDead"
NextRetryCount(copy) == copy.retries + 1

Republish(k, answer) ==
    LET copy == copies[held[k]] IN
    /\ pc[k] = "handling"
    /\ \E c \in NextSlot :
         /\ copies' = [copies EXCEPT ![c] =
              [msg |-> copy.msg, retries |-> NextRetryCount(copy),
               place |-> RetryTarget(copy)]]
         /\ out' = [out EXCEPT ![k] = c]
    /\ pc' = [pc EXCEPT ![k] = answer]
    /\ UNCHANGED <<bound, pub, held, handled, faults>>

(* The schema or the handler rejects: retryOrDeadLetter republishes the copy *)
(* with x-retry-count + 1 and waits for the confirm.                         *)
ThrowsAndAcks(k) == Republish(k, "acking")   \* mutant: without waiting
HandlerThrows(k) == Republish(k, "confirming")

(* waitForConfirms waits for every publication of the shared channel: it     *)
(* rejects when another caller's was nacked, while this one is on its way.   *)
ConfirmRejects(k) ==
    /\ pc[k] = "confirming"
    /\ Fault
    /\ pc' = [pc EXCEPT ![k] = "nacking"]
    /\ out' = [out EXCEPT ![k] = None]
    /\ UNCHANGED <<pub, serverVars, held, handled>>

Release(k, copy) ==
    /\ copies' = [copies EXCEPT ![held[k]] = copy]
    /\ held' = [held EXCEPT ![k] = None]

Ack(k) ==
    /\ pc[k] = "acking"
    /\ Release(k, Free)
    /\ pc' = [pc EXCEPT ![k] = "idle"]
    /\ UNCHANGED <<bound, pub, out, handled, faults>>

NackRequeue(k) ==
    /\ pc[k] = "nacking"
    /\ Release(k, [copies[held[k]] EXCEPT !.place = "queue"])
    /\ pc' = [pc EXCEPT ![k] = "idle"]
    /\ UNCHANGED <<bound, pub, out, handled, faults>>

(* x-message-ttl of the retry queue: dead-lettered back into the queue       *)
RetryDelayExpires(c) ==
    /\ copies[c].place = "retry"
    /\ copies' = [copies EXCEPT ![c].place = "queue"]
    /\ UNCHANGED <<bound, pub, consumerVars, handled, faults>>

(* The connection closes: process.exit(1).  The server requeues what was not *)
(* acknowledged.                                                             *)
Crash(k) ==
    /\ pc[k] # "down"
    /\ Fault
    /\ IF held[k] = None
       THEN UNCHANGED <<copies, held>>
       ELSE Release(k, [copies[held[k]] EXCEPT !.place = "queue"])
    /\ pc' = [pc EXCEPT ![k] = "down"]
    /\ out' = [out EXCEPT ![k] = None]
    /\ UNCHANGED <<bound, pub, handled>>

-----------------------------------------------------------------------------
Start(k) == AssertTopology(k) \/ Consume(k)
Answer(k) == Ack(k) \/ NackRequeue(k)
Handle(k) == HandlerSucceeds(k) \/ HandlerThrows(k)

Next == \/ \E m \in Messages : PublishEvent(m)
        \/ \E c \in Slots : BrokerRoutes(c) \/ BrokerRefuses(c)
        \/ \E k \in Consumers : Start(k) \/ Handle(k) \/ Answer(k)
        \/ \E k \in Consumers, c \in Slots : Deliver(k, c)
        \/ \E k \in Consumers : ConfirmRejects(k) \/ Crash(k)
        \/ \E c \in Slots : RetryDelayExpires(c)

Spec == Init /\ [][Next]_vars

(* The server, its timers and a restarted process keep going; nothing makes  *)
(* a publication, a refusal or a crash happen.                               *)
Fairness == /\ \A c \in Slots : /\ WF_vars(BrokerRoutes(c))
                                /\ WF_vars(RetryDelayExpires(c))
                                /\ WF_vars(\E k \in Consumers : Deliver(k, c))
            /\ \A k \in Consumers : /\ WF_vars(Start(k))
                                    /\ WF_vars(Handle(k))
                                    /\ WF_vars(Answer(k))

FairSpec == Spec /\ Fairness

-----------------------------------------------------------------------------
(* Every variable stays in its type.                                        *)
TypeOK ==
    /\ bound \in BOOLEAN
    /\ pub \in [Messages -> {"unsent", "waiting", "confirmed", "rejected"}]
    /\ copies \in [Slots -> [msg : Messages \cup {None},
                             retries : 0..(MaxRetries + 1),
                             place : Wire \cup Live \cup {"free", "dead"}]]
    /\ pc \in [Consumers -> {"down", "asserted", "idle", "handling",
                             "confirming", "acking", "nacking"}]
    /\ held \in [Consumers -> Slots \cup {None}]
    /\ out \in [Consumers -> Slots \cup {None}]
    /\ handled \subseteq Messages
    /\ faults \in 0..MaxFaults

Outstanding == {m \in Messages :
                  \E c \in Slots : copies[c].msg = m /\ copies[c].place \in Live}
Buried == {m \in Messages :
             \E c \in Slots : copies[c].msg = m /\ copies[c].place = "dead"}

(* A confirmed message that found a queue is never lost, not even while a    *)
(* consumer that failed with it is swapping the copy it holds for its retry. *)
Contract == INSTANCE DeliveryContract WITH
              outstanding <- Outstanding, buried <- Buried
ImplementsDelivery == Contract!Spec

(* A copy is dead-lettered after exactly MaxRetries delayed retries of its   *)
(* line, and a copy that is still tried has retries left.                    *)
DeadMeansExhausted ==
    \A c \in Slots :
      /\ copies[c].place \in {"dead", "toDead"} =>
           copies[c].retries = MaxRetries + 1
      /\ copies[c].place \in Live => copies[c].retries <= MaxRetries

(* Copies do not multiply: there is one per published message, one more for  *)
(* each fault, and one for each consumer that has republished the copy it    *)
(* holds and is to acknowledge it; to reject it instead takes a fault.       *)
CopiesAreAccounted ==
    Cardinality(Slots \ FreeSlots)
      <= Cardinality({m \in Messages : pub[m] # "unsent"}) + faults
         + Cardinality({k \in Consumers :
                          pc[k] \in {"confirming", "acking"}})

(* A message that reached the queue is handled or dead-lettered in the end:  *)
(* neither the retry cycle nor duplicates and crashes leave it hanging.      *)
AcceptedIsSettled ==
    \A m \in Messages : (m \in Outstanding) ~> (m \in handled \cup Buried)
=============================================================================
