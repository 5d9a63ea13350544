---------------------- MODULE BrokerSubscriptionProofs ----------------------
(***************************************************************************)
(* BrokerSubscription for any messages, consumers, slots and bounds: its   *)
(* types, what a dead letter means, how many copies there are, and that it *)
(* implements DeliveryContract.                                            *)
(***************************************************************************)
EXTENDS BrokerSubscription, FiniteSetTheorems, TLAPS

Copy == [msg : Messages \cup {None}, retries : 0..(MaxRetries + 1),
         place : Wire \cup Live \cup {"free", "dead"}]
Holding == {"handling", "confirming", "acking", "nacking"}

(* A slot in use has a message, and a retry count its place allows.         *)
SlotInv ==
    \A c \in Slots :
      /\ copies[c].place # "free" => copies[c].msg \in Messages
      /\ copies[c].place \in {"toDead", "dead"} =>
           copies[c].retries = MaxRetries + 1
      /\ copies[c].place \in {"toQueue", "toRetry"} \cup Live =>
           copies[c].retries <= MaxRetries

(* A consumer at work holds an unacknowledged copy no other consumer holds. *)
HeldInv ==
    /\ \A k \in Consumers :
         IF pc[k] \in Holding
         THEN held[k] \in Slots /\ copies[held[k]].place = "unacked"
         ELSE held[k] = None
    /\ \A k, j \in Consumers : held[k] # None /\ k # j => held[k] # held[j]

(* d continues the line of c: same message, tried at least once more.       *)
Continues(d, c) == /\ copies[d].msg = copies[c].msg
                   /\ copies[d].retries > copies[c].retries

(* A consumer awaiting a confirm awaits that of the copy's successor.       *)
OutInv ==
    \A k \in Consumers :
      IF pc[k] = "confirming"
      THEN /\ out[k] \in Slots
           /\ copies[out[k]].place \in {"toRetry", "toDead"}
           /\ Continues(out[k], held[k])
      ELSE out[k] = None

Kept == Outstanding \cup handled \cup Buried

(* A copy is acknowledged because its message is handled or buried, or      *)
(* because a live copy carries its line on.  The retry count orders the      *)
(* copies of a message, so two consumers never acknowledge on each other's   *)
(* account.                                                                 *)
LineInv ==
    \A k \in Consumers :
      pc[k] = "acking" =>
        \/ copies[held[k]].msg \in handled \cup Buried
        \/ \E c \in Slots : copies[c].place \in Live /\ Continues(c, held[k])

(* A republished copy on the wire is of a message that is kept anyway.      *)
WireInv ==
    \A c \in Slots :
      copies[c].place \in {"toRetry", "toDead"} => copies[c].msg \in Kept

IInv == TypeOK /\ SlotInv /\ HeldInv /\ OutInv /\ LineInv /\ WireInv

-----------------------------------------------------------------------------
(* The invariant holds before anything is published.                        *)
LEMMA InitIInv == Init => IInv
<1> SUFFICES ASSUME Init PROVE IInv
  OBVIOUS
<1> USE SubscriptionAssumption DEF Init
<1>1. TypeOK
  <2>1. bound \in BOOLEAN
    OBVIOUS
  <2>2. copies \in [Slots -> [msg : Messages \cup {None},
                             retries : 0..(MaxRetries + 1),
                             place : Wire \cup Live \cup {"free", "dead"}]]
    BY DEF Free
  <2>3. QED
    BY <2>1, <2>2 DEF TypeOK
<1>2. SlotInv /\ WireInv
  BY DEF SlotInv, WireInv, Free, Live
<1>3. HeldInv /\ OutInv /\ LineInv
  BY DEF HeldInv, OutInv, LineInv, Holding
<1>4. QED
  BY <1>1, <1>2, <1>3 DEF IInv

(* Types and slots: a copy changes place with a retry count that fits.      *)
LEMMA TypeStep == IInv /\ [Next]_vars => TypeOK' /\ SlotInv'
<1> SUFFICES ASSUME IInv, [Next]_vars PROVE TypeOK' /\ SlotInv'
  OBVIOUS
<1> USE SubscriptionAssumption DEF IInv, TypeOK, SlotInv, Live, Wire, Free, Copy
<1>1. ASSUME NEW m \in Messages, PublishEvent(m) PROVE TypeOK' /\ SlotInv'
  BY <1>1 DEF PublishEvent, NextSlot, FreeSlots, consumerVars
<1>2. ASSUME NEW c \in Slots, BrokerRoutes(c) PROVE TypeOK' /\ SlotInv'
  <2> DEFINE moved == [copies[c] EXCEPT !.place = Arrived(copies[c].place)]
  <2>1. copies[c].place \in Wire
    BY <1>2 DEF BrokerRoutes
  <2>2. moved \in Copy /\ Free \in Copy
    BY <2>1 DEF Arrived
  <2>3. PICK x \in {moved, Free} : copies' = [copies EXCEPT ![c] = x]
    <3>1. Landed(copies[c]) \in {moved, Free}
      BY Zenon DEF Landed
    <3>2. QED
      BY <1>2, <3>1 DEF BrokerRoutes
  <2>4. copies' \in [Slots -> Copy]
    BY <2>2, <2>3
  <2>5. pc' \in [Consumers -> {"down", "asserted", "idle", "handling",
                             "confirming", "acking", "nacking"}]
    BY <1>2 DEF BrokerRoutes, Answered
  <2>6. pub' \in [Messages -> {"unsent", "waiting", "confirmed", "rejected"}]
    BY <1>2 DEF BrokerRoutes, Answered
  <2>7. out' \in [Consumers -> Slots \cup {None}]
    BY <1>2 DEF BrokerRoutes, Answered
  <2>8. TypeOK'
    BY <1>2, <2>4, <2>5, <2>6, <2>7 DEF BrokerRoutes
  <2>9. SlotInv'
    BY <2>1, <2>3 DEF Arrived
  <2> QED BY <2>8, <2>9
<1>3. ASSUME NEW c \in Slots, BrokerRefuses(c) PROVE TypeOK' /\ SlotInv'
  BY <1>3 DEF BrokerRefuses, Answered, Fault
<1>4. ASSUME NEW k \in Consumers, Start(k) PROVE TypeOK' /\ SlotInv'
  BY <1>4 DEF Start, AssertTopology, Consume, serverVars
<1>5. ASSUME NEW k \in Consumers, HandlerSucceeds(k)
      PROVE  TypeOK' /\ SlotInv'
  BY <1>5 DEF HandlerSucceeds, serverVars, HeldInv, Holding
<1>6. ASSUME NEW k \in Consumers, HandlerThrows(k) PROVE TypeOK' /\ SlotInv'
  <2> DEFINE copy == copies[held[k]]
             next == [msg |-> copy.msg, retries |-> NextRetryCount(copy),
                      place |-> RetryTarget(copy)]
  <2>1. held[k] \in Slots /\ copy \in Copy /\ copy.retries \in 0..MaxRetries
        /\ copy.msg \in Messages
    <3>1. held[k] \in Slots /\ copy.place = "unacked"
      BY <1>6 DEF HandlerThrows, Republish, HeldInv, Holding
    <3>2. copy \in Copy
      BY <3>1
    <3>3. copy.retries <= MaxRetries /\ copy.msg \in Messages
      BY <3>1
    <3>4. QED
      BY <3>1, <3>2, <3>3
  <2>2. next \in Copy
    BY <2>1 DEF NextRetryCount, RetryTarget
  <2>3. PICK c \in Slots : /\ copies' = [copies EXCEPT ![c] = next]
                          /\ out' = [out EXCEPT ![k] = c]
    BY <1>6 DEF HandlerThrows, Republish, NextSlot, FreeSlots
  <2>4. TypeOK'
    BY <1>6, <2>2, <2>3 DEF HandlerThrows, Republish
  <2>5. SlotInv'
    BY <2>1, <2>3 DEF NextRetryCount, RetryTarget
  <2>6. QED
    BY <2>4, <2>5
<1>7. ASSUME NEW k \in Consumers, Answer(k) PROVE TypeOK' /\ SlotInv'
  <2>1. held[k] \in Slots
    BY <1>7 DEF Answer, Ack, NackRequeue, HeldInv, Holding
  <2>2. CASE Ack(k)
    BY <2>1, <2>2 DEF Ack, Release
  <2>3. CASE NackRequeue(k)
    BY <2>1, <2>3 DEF NackRequeue, Release, HeldInv, Holding
  <2>4. QED
    BY <1>7, <2>2, <2>3 DEF Answer
<1>8. ASSUME NEW k \in Consumers, NEW c \in Slots, Deliver(k, c)
      PROVE  TypeOK' /\ SlotInv'
  BY <1>8 DEF Deliver
<1>9. ASSUME NEW k \in Consumers, ConfirmRejects(k) PROVE TypeOK' /\ SlotInv'
  BY <1>9 DEF ConfirmRejects, Fault, serverVars
<1>10. ASSUME NEW k \in Consumers, Crash(k) PROVE TypeOK' /\ SlotInv'
  BY <1>10 DEF Crash, Fault, Release, HeldInv, Holding
<1>11. ASSUME NEW c \in Slots, RetryDelayExpires(c) PROVE TypeOK' /\ SlotInv'
  BY <1>11 DEF RetryDelayExpires, consumerVars
<1>12. CASE UNCHANGED vars
  BY <1>12 DEF vars
<1>13. QED
  BY <1>1, <1>2, <1>3, <1>4, <1>5, <1>6, <1>7, <1>8, <1>9, <1>10, <1>11,
     <1>12 DEF Next, Handle

(* A consumer takes the copy it answers for from the queue and gives it up   *)
(* with its answer; the copy on whose confirm it waits stays on the wire.   *)
LEMMA HeldStep == IInv /\ [Next]_vars => HeldInv'
<1> SUFFICES ASSUME IInv, [Next]_vars PROVE HeldInv'
  OBVIOUS
<1> USE SubscriptionAssumption DEF IInv, TypeOK, HeldInv, Holding, Live, Wire
<1>1. ASSUME NEW m \in Messages, PublishEvent(m) PROVE HeldInv'
  BY <1>1 DEF PublishEvent, NextSlot, FreeSlots, consumerVars
<1>2. ASSUME NEW c \in Slots, BrokerRoutes(c) PROVE HeldInv'
  BY <1>2 DEF BrokerRoutes, Answered
<1>3. ASSUME NEW c \in Slots, BrokerRefuses(c) PROVE HeldInv'
  BY <1>3 DEF BrokerRefuses, Answered
<1>4. ASSUME NEW k \in Consumers, Start(k) PROVE HeldInv'
  BY <1>4 DEF Start, AssertTopology, Consume, serverVars
<1>5. ASSUME NEW k \in Consumers, HandlerSucceeds(k) PROVE HeldInv'
  BY <1>5 DEF HandlerSucceeds, serverVars
<1>6. ASSUME NEW k \in Consumers, HandlerThrows(k) PROVE HeldInv'
  BY <1>6 DEF HandlerThrows, Republish, NextSlot, FreeSlots
<1>7. ASSUME NEW k \in Consumers, Answer(k) PROVE HeldInv'
  BY <1>7 DEF Answer, Ack, NackRequeue, Release
<1>8. ASSUME NEW k \in Consumers, NEW c \in Slots, Deliver(k, c)
      PROVE  HeldInv'
  BY <1>8 DEF Deliver
<1>9. ASSUME NEW k \in Consumers, ConfirmRejects(k) PROVE HeldInv'
  BY <1>9 DEF ConfirmRejects, serverVars
<1>10. ASSUME NEW k \in Consumers, Crash(k) PROVE HeldInv'
  BY <1>10 DEF Crash, Release
<1>11. ASSUME NEW c \in Slots, RetryDelayExpires(c) PROVE HeldInv'
  BY <1>11 DEF RetryDelayExpires, consumerVars
<1>12. CASE UNCHANGED vars
  BY <1>12 DEF vars
<1>13. QED
  BY <1>1, <1>2, <1>3, <1>4, <1>5, <1>6, <1>7, <1>8, <1>9, <1>10, <1>11,
     <1>12 DEF Next, Handle

(* A live or dead copy stays in its line and place of keeping; only an ack   *)
(* removes one.                                                             *)
LEMMA CopyStays ==
  ASSUME IInv, [Next]_vars, NEW c \in Slots,
         copies[c].place \in Live \cup {"dead"}
  PROVE  \/ /\ copies'[c].msg = copies[c].msg
            /\ copies'[c].retries = copies[c].retries
            /\ copies[c].place \in Live => copies'[c].place \in Live
            /\ copies[c].place = "dead" => copies'[c].place = "dead"
         \/ \E k \in Consumers : Ack(k) /\ held[k] = c
<1> DEFINE Stays == /\ copies'[c].msg = copies[c].msg
                    /\ copies'[c].retries = copies[c].retries
                    /\ copies[c].place \in Live => copies'[c].place \in Live
                    /\ copies[c].place = "dead" => copies'[c].place = "dead"
<1> USE SubscriptionAssumption DEF IInv, TypeOK, Live, Wire
<1>1. ASSUME NEW m \in Messages, PublishEvent(m) PROVE Stays
  BY <1>1 DEF PublishEvent, NextSlot, FreeSlots
<1>2. ASSUME NEW d \in Slots, BrokerRoutes(d) PROVE Stays
  BY <1>2 DEF BrokerRoutes
<1>3. ASSUME NEW d \in Slots, BrokerRefuses(d) PROVE Stays
  BY <1>3 DEF BrokerRefuses
<1>4. ASSUME NEW k \in Consumers, Start(k) PROVE Stays
  BY <1>4 DEF Start, AssertTopology, Consume, serverVars
<1>5. ASSUME NEW k \in Consumers, HandlerSucceeds(k) PROVE Stays
  BY <1>5 DEF HandlerSucceeds, serverVars
<1>6. ASSUME NEW k \in Consumers, HandlerThrows(k) PROVE Stays
  BY <1>6 DEF HandlerThrows, Republish, NextSlot, FreeSlots
<1>7. ASSUME NEW k \in Consumers, NackRequeue(k) PROVE Stays
  BY <1>7 DEF NackRequeue, Release, HeldInv, Holding
<1>8. ASSUME NEW k \in Consumers, Ack(k), held[k] # c PROVE Stays
  BY <1>8 DEF Ack, Release
<1>9. ASSUME NEW k \in Consumers, NEW d \in Slots, Deliver(k, d) PROVE Stays
  BY <1>9 DEF Deliver
<1>10. ASSUME NEW k \in Consumers, ConfirmRejects(k) PROVE Stays
  BY <1>10 DEF ConfirmRejects, serverVars
<1>11. ASSUME NEW k \in Consumers, Crash(k) PROVE Stays
  BY <1>11 DEF Crash, Release, HeldInv, Holding
<1>12. ASSUME NEW d \in Slots, RetryDelayExpires(d) PROVE Stays
  BY <1>12 DEF RetryDelayExpires
<1>13. CASE UNCHANGED vars
  BY <1>13 DEF vars
<1>14. QED
  BY <1>1, <1>2, <1>3, <1>4, <1>5, <1>6, <1>7, <1>8, <1>9, <1>10, <1>11,
     <1>12, <1>13 DEF Next, Handle, Answer

(* The message of an acknowledged copy is kept by what LineInv promised.    *)
LEMMA AckKeeps ==
  ASSUME IInv, NEW k \in Consumers, Ack(k)
  PROVE  /\ held[k] \in Slots
         /\ copies[held[k]].msg \in Kept'
         /\ \A c \in Slots : c # held[k] => copies'[c] = copies[c]
         /\ handled' = handled
<1> USE DEF IInv, TypeOK
<1>1. /\ held[k] \in Slots /\ copies[held[k]].place = "unacked"
      /\ copies' = [copies EXCEPT ![held[k]] = Free] /\ handled' = handled
  BY DEF Ack, Release, HeldInv, Holding
<1>2. copies[held[k]].msg \in Messages
  BY <1>1 DEF SlotInv
<1>3. CASE copies[held[k]].msg \in handled
  BY <1>1, <1>3 DEF Kept
<1>4. CASE copies[held[k]].msg \in Buried
  <2>1. PICK c \in Slots : /\ copies[c].msg = copies[held[k]].msg
                          /\ copies[c].place = "dead"
    BY <1>4 DEF Buried
  <2>2. c # held[k] /\ copies'[c] = copies[c]
    BY <1>1, <2>1
  <2>3. QED
    BY <1>1, <1>2, <2>1, <2>2 DEF Kept, Buried
<1>5. ASSUME NEW c \in Slots, copies[c].place \in Live, Continues(c, held[k])
      PROVE  copies[held[k]].msg \in Kept'
  <2>1. c # held[k] /\ copies'[c] = copies[c]
    BY <1>1, <1>5 DEF Continues
  <2>2. QED
    BY <1>1, <1>2, <1>5, <2>1 DEF Continues, Kept, Outstanding
<1>6. QED
  BY <1>1, <1>3, <1>4, <1>5 DEF LineInv, Ack

(* What is kept stays kept: no step loses a message that was accepted.      *)
LEMMA KeptStep ==
  ASSUME IInv, [Next]_vars
  PROVE  Buried \subseteq Buried' /\ handled \subseteq handled'
         /\ Kept \subseteq Kept'
<1>1. handled \subseteq handled'
  BY DEF Next, vars, PublishEvent, BrokerRoutes, BrokerRefuses, Start,
         AssertTopology, Consume, Handle, HandlerSucceeds, HandlerThrows,
         Republish, Answer, Ack, NackRequeue, Deliver, ConfirmRejects, Crash,
         RetryDelayExpires
<1>2. ASSUME NEW m \in Buried PROVE m \in Buried'
  <2>1. PICK c \in Slots : copies[c].msg = m /\ copies[c].place = "dead"
    BY <1>2 DEF Buried
  <2>2. \A k \in Consumers : Ack(k) => held[k] # c
    BY <2>1 DEF Ack, IInv, HeldInv, Holding
  <2>3. copies'[c].msg = m /\ copies'[c].place = "dead"
    BY <2>1, <2>2, CopyStays
  <2>4. QED
    BY <1>2, <2>3 DEF Buried
<1>3. ASSUME NEW m \in Outstanding PROVE m \in Kept'
  <2>1. PICK c \in Slots : copies[c].msg = m /\ copies[c].place \in Live
    BY <1>3 DEF Outstanding
  <2>2. CASE \E k \in Consumers : Ack(k) /\ held[k] = c
    BY <2>1, <2>2, AckKeeps
  <2>3. CASE copies'[c].msg = m /\ copies'[c].place \in Live
    BY <1>3, <2>3 DEF Outstanding, Kept
  <2>4. QED
    BY <2>1, <2>2, <2>3, CopyStays
<1>4. QED
  BY <1>1, <1>2, <1>3 DEF Kept

(* The confirm a consumer awaits is that of its copy's successor.           *)
LEMMA OutStep == IInv /\ [Next]_vars => OutInv'
<1> SUFFICES ASSUME IInv, [Next]_vars PROVE OutInv'
  OBVIOUS
<1> USE SubscriptionAssumption DEF IInv, TypeOK, OutInv, HeldInv, Holding,
                                   Continues, Live, Wire
<1>1. ASSUME NEW m \in Messages, PublishEvent(m) PROVE OutInv'
  BY <1>1 DEF PublishEvent, NextSlot, FreeSlots, consumerVars
<1>2. ASSUME NEW c \in Slots, BrokerRoutes(c) PROVE OutInv'
  BY <1>2 DEF BrokerRoutes, Answered
<1>3. ASSUME NEW c \in Slots, BrokerRefuses(c) PROVE OutInv'
  BY <1>3 DEF BrokerRefuses, Answered
<1>4. ASSUME NEW k \in Consumers, Start(k) PROVE OutInv'
  BY <1>4 DEF Start, AssertTopology, Consume, serverVars
<1>5. ASSUME NEW k \in Consumers, HandlerSucceeds(k) PROVE OutInv'
  BY <1>5 DEF HandlerSucceeds, serverVars
<1>6. ASSUME NEW k \in Consumers, HandlerThrows(k) PROVE OutInv'
  <2> DEFINE copy == copies[held[k]]
  <2>1. held[k] \in Slots /\ copy.place = "unacked" /\ copy.retries \in Int
    <3>1. held[k] \in Slots /\ copy.place = "unacked"
      BY <1>6 DEF HandlerThrows, Republish
    <3>2. copy \in Copy
      BY <3>1 DEF Copy
    <3>3. copy.retries \in 0..(MaxRetries + 1)
      BY <3>2 DEF Copy
    <3>4. QED
      BY <3>1, <3>3
  <2>2. PICK c \in Slots :
          /\ copies[c].place = "free" /\ out' = [out EXCEPT ![k] = c]
          /\ copies' = [copies EXCEPT ![c] =
               [msg |-> copy.msg, retries |-> NextRetryCount(copy),
                place |-> RetryTarget(copy)]]
    BY <1>6 DEF HandlerThrows, Republish, NextSlot, FreeSlots
  <2>3. pc' = [pc EXCEPT ![k] = "confirming"] /\ held' = held
    BY <1>6 DEF HandlerThrows, Republish
  <2>4. copies'[c].msg = copy.msg /\ copies'[c].retries = copy.retries + 1
        /\ copies'[c].place \in {"toRetry", "toDead"}
    BY <2>2 DEF NextRetryCount, RetryTarget
  <2>5. ASSUME NEW j \in Consumers, j # k, pc[j] = "confirming"
        PROVE  /\ copies'[out[j]] = copies[out[j]]
               /\ copies'[held[j]] = copies[held[j]]
    BY <2>2, <2>5
  <2>6. copies'[held[k]] = copies[held[k]]
    BY <2>1, <2>2
  <2>7. QED
    BY <2>1, <2>2, <2>3, <2>4, <2>5, <2>6
<1>7. ASSUME NEW k \in Consumers, Answer(k) PROVE OutInv'
  BY <1>7 DEF Answer, Ack, NackRequeue, Release
<1>8. ASSUME NEW k \in Consumers, NEW c \in Slots, Deliver(k, c)
      PROVE  OutInv'
  BY <1>8 DEF Deliver
<1>9. ASSUME NEW k \in Consumers, ConfirmRejects(k) PROVE OutInv'
  BY <1>9 DEF ConfirmRejects, serverVars
<1>10. ASSUME NEW k \in Consumers, Crash(k) PROVE OutInv'
  BY <1>10 DEF Crash, Release
<1>11. ASSUME NEW c \in Slots, RetryDelayExpires(c) PROVE OutInv'
  BY <1>11 DEF RetryDelayExpires, consumerVars
<1>12. CASE UNCHANGED vars
  BY <1>12 DEF vars
<1>13. QED
  BY <1>1, <1>2, <1>3, <1>4, <1>5, <1>6, <1>7, <1>8, <1>9, <1>10, <1>11,
     <1>12 DEF Next, Handle

(* How a consumer comes to be about to ack, or stays so.                    *)
LEMMA AckingStep ==
  ASSUME IInv, [Next]_vars, NEW k \in Consumers, pc'[k] = "acking"
  PROVE  \/ pc[k] = "acking" /\ held'[k] = held[k]
         \/ HandlerSucceeds(k)
         \/ /\ pc[k] = "confirming" /\ held'[k] = held[k]
            /\ BrokerRoutes(out[k])
<1> USE DEF IInv, TypeOK
<1> DEFINE Because == \/ pc[k] = "acking" /\ held'[k] = held[k]
                      \/ HandlerSucceeds(k)
                      \/ /\ pc[k] = "confirming" /\ held'[k] = held[k]
                         /\ BrokerRoutes(out[k])
<1>1. ASSUME NEW m \in Messages, PublishEvent(m) PROVE Because
  BY <1>1 DEF PublishEvent, consumerVars
<1>2. ASSUME NEW c \in Slots, BrokerRoutes(c) PROVE Because
  BY <1>2 DEF BrokerRoutes, Answered
<1>3. ASSUME NEW c \in Slots, BrokerRefuses(c) PROVE Because
  BY <1>3 DEF BrokerRefuses, Answered
<1>4. ASSUME NEW j \in Consumers, Start(j) PROVE Because
  BY <1>4 DEF Start, AssertTopology, Consume
<1>5. ASSUME NEW j \in Consumers, HandlerSucceeds(j) PROVE Because
  BY <1>5 DEF HandlerSucceeds
<1>6. ASSUME NEW j \in Consumers, HandlerThrows(j) PROVE Because
  BY <1>6 DEF HandlerThrows, Republish
<1>7. ASSUME NEW j \in Consumers, Answer(j) PROVE Because
  BY <1>7 DEF Answer, Ack, NackRequeue, Release
<1>8. ASSUME NEW j \in Consumers, NEW c \in Slots, Deliver(j, c)
      PROVE  Because
  BY <1>8 DEF Deliver
<1>9. ASSUME NEW j \in Consumers, ConfirmRejects(j) PROVE Because
  BY <1>9 DEF ConfirmRejects
<1>10. ASSUME NEW j \in Consumers, Crash(j) PROVE Because
  BY <1>10 DEF Crash, Release
<1>11. ASSUME NEW c \in Slots, RetryDelayExpires(c) PROVE Because
  BY <1>11 DEF RetryDelayExpires, consumerVars
<1>12. CASE UNCHANGED vars
  BY <1>12 DEF vars
<1>13. QED
  BY <1>1, <1>2, <1>3, <1>4, <1>5, <1>6, <1>7, <1>8, <1>9, <1>10, <1>11,
     <1>12 DEF Next, Handle

(* The line of a live copy is carried on: by itself, by a later copy, or the *)
(* message is handled or buried.                                            *)
LEMMA LineGoesOn ==
  ASSUME IInv, [Next]_vars, NEW c \in Slots, copies[c].place \in Live
  PROVE  \/ copies[c].msg \in handled' \cup Buried'
         \/ \E d \in Slots : /\ copies'[d].place \in Live
                            /\ copies'[d].msg = copies[c].msg
                            /\ copies'[d].retries >= copies[c].retries
<1>1. copies[c].retries \in Int
  BY DEF IInv, TypeOK
<1>2. ASSUME NEW k \in Consumers, Ack(k), held[k] = c
      PROVE  \/ copies[c].msg \in handled' \cup Buried'
             \/ \E d \in Slots : /\ copies'[d].place \in Live
                                /\ copies'[d].msg = copies[c].msg
                                /\ copies'[d].retries >= copies[c].retries
  <2>1. CASE copies[c].msg \in handled \cup Buried
    BY <2>1, KeptStep
  <2>2. ASSUME NEW d \in Slots, copies[d].place \in Live, Continues(d, c)
        PROVE  /\ copies'[d].place \in Live
               /\ copies'[d].msg = copies[c].msg
               /\ copies'[d].retries >= copies[c].retries
    <3>1. copies[d].retries \in Int /\ d # c
      BY <1>1, <2>2 DEF IInv, TypeOK, Continues
    <3>2. copies'[d] = copies[d]
      BY <1>2, <3>1, AckKeeps
    <3>3. QED
      BY <1>1, <2>2, <3>1, <3>2 DEF Continues
  <2>3. QED
    BY <1>2, <2>1, <2>2 DEF IInv, LineInv, Ack
<1>3. QED
  BY <1>1, <1>2, CopyStays

(* LineInv is inductive: for each action, why an acknowledgement stays safe. *)
LEMMA LineStep == IInv /\ [Next]_vars => LineInv'
<1> SUFFICES ASSUME IInv, [Next]_vars, NEW k \in Consumers,
                    pc'[k] = "acking"
             PROVE  \/ copies'[held'[k]].msg \in handled' \cup Buried'
                    \/ \E c \in Slots : /\ copies'[c].place \in Live
                                       /\ Continues(c, held[k])'
  BY Zenon DEF LineInv
<1> USE DEF IInv, TypeOK
<1>1. CASE HandlerSucceeds(k)
  BY <1>1 DEF HandlerSucceeds, serverVars
<1>2. ASSUME pc[k] \in {"acking", "confirming"}
      PROVE  /\ held[k] \in Slots /\ copies[held[k]].place \in Live
             /\ copies[held[k]].retries \in Int
  BY <1>2 DEF HeldInv, Holding, Live
<1>3. CASE pc[k] = "acking" /\ held'[k] = held[k]
  <2>1. /\ copies'[held[k]].msg = copies[held[k]].msg
        /\ copies'[held[k]].retries = copies[held[k]].retries
    <3>1. ASSUME NEW j \in Consumers, Ack(j) PROVE held[j] # held[k]
      <4>1. j # k
        BY <1>3, <3>1 DEF Ack
      <4>2. held[j] # None
        BY <3>1, SubscriptionAssumption DEF Ack, HeldInv, Holding
      <4>3. QED
        BY <4>1, <4>2 DEF HeldInv
    <3>2. QED
      BY <1>2, <1>3, <3>1, CopyStays DEF Live
  <2>2. CASE copies[held[k]].msg \in handled \cup Buried
    BY <1>3, <2>1, <2>2, KeptStep
  <2>3. ASSUME NEW c \in Slots, copies[c].place \in Live,
               Continues(c, held[k])
        PROVE  \/ copies[held[k]].msg \in handled' \cup Buried'
               \/ \E d \in Slots : /\ copies'[d].place \in Live
                                  /\ copies'[d].msg = copies[held[k]].msg
                                  /\ copies'[d].retries > copies[held[k]].retries
    <3>1. copies[c].retries \in Int /\ copies'[held[k]].retries \in Int
      BY <1>2, <1>3, <2>1
    <3>2. \A d \in Slots : copies'[d].retries \in Int
      BY TypeStep
    <3>3. QED
      BY <1>2, <1>3, <2>3, <3>1, <3>2, LineGoesOn DEF Continues
  <2>4. QED
    BY <1>3, <2>1, <2>2, <2>3 DEF LineInv, Continues
<1>4. CASE /\ pc[k] = "confirming" /\ held'[k] = held[k]
           /\ BrokerRoutes(out[k])
  <2>1. /\ out[k] \in Slots /\ copies[out[k]].place \in {"toRetry", "toDead"}
        /\ Continues(out[k], held[k]) /\ copies[out[k]].msg \in Messages
    BY <1>4 DEF OutInv, SlotInv
  <2>2. copies' = [copies EXCEPT ![out[k]].place = Arrived(copies[out[k]].place)]
    BY <1>4, <2>1 DEF BrokerRoutes, Landed
  <2>3. /\ copies'[held[k]] = copies[held[k]]
        /\ copies'[out[k]].msg = copies[out[k]].msg
        /\ copies'[out[k]].retries = copies[out[k]].retries
        /\ copies'[out[k]].place = Arrived(copies[out[k]].place)
    BY <1>2, <1>4, <2>1, <2>2 DEF Live
  <2>4. CASE copies[out[k]].place = "toRetry"
    BY <1>4, <2>1, <2>3, <2>4 DEF Arrived, Live, Continues
  <2>5. CASE copies[out[k]].place = "toDead"
    BY <1>4, <2>1, <2>3, <2>5 DEF Arrived, Buried, Continues
  <2>6. QED
    BY <2>1, <2>4, <2>5
<1>5. QED
  BY <1>1, <1>3, <1>4, AckingStep

(* A copy enters the wire for the retry or the dead-letter queue while the   *)
(* copy it continues is still held.                                         *)
LEMMA WireStep == IInv /\ [Next]_vars => WireInv'
<1> SUFFICES ASSUME IInv, [Next]_vars, NEW c \in Slots,
                    copies'[c].place \in {"toRetry", "toDead"}
             PROVE  copies'[c].msg \in Kept'
  BY Zenon DEF WireInv
<1> DEFINE Old == /\ copies[c].place \in {"toRetry", "toDead"}
                  /\ copies'[c].msg = copies[c].msg
<1> USE DEF IInv, TypeOK
<1>1. ASSUME NEW m \in Messages, PublishEvent(m) PROVE Old
  BY <1>1 DEF PublishEvent, NextSlot, FreeSlots
<1>2. ASSUME NEW d \in Slots, BrokerRoutes(d) PROVE Old
  <2>1. CASE c = d
    <3>1. copies'[c] = Landed(copies[c]) /\ copies[c].place \in Wire
      BY <1>2, <2>1 DEF BrokerRoutes
    <3>2. Landed(copies[c]).place \in {"free"} \cup {Arrived(copies[c].place)}
      BY <3>1 DEF Landed, Free, Arrived, Wire
    <3>3. QED
      BY <3>1, <3>2 DEF Arrived, Wire
  <2>2. CASE c # d
    BY <1>2, <2>2 DEF BrokerRoutes
  <2>3. QED
    BY <2>1, <2>2
<1>3. ASSUME NEW d \in Slots, BrokerRefuses(d) PROVE Old
  BY <1>3 DEF BrokerRefuses, Free
<1>4. ASSUME NEW k \in Consumers, Start(k) PROVE Old
  BY <1>4 DEF Start, AssertTopology, Consume, serverVars
<1>5. ASSUME NEW k \in Consumers, HandlerSucceeds(k) PROVE Old
  BY <1>5 DEF HandlerSucceeds, serverVars
<1>6. ASSUME NEW k \in Consumers, HandlerThrows(k)
      PROVE  Old \/ copies'[c].msg \in Outstanding
  <2>1. held[k] \in Slots /\ copies[held[k]].place = "unacked"
        /\ copies[held[k]].msg \in Messages
    BY <1>6 DEF HandlerThrows, Republish, HeldInv, Holding, SlotInv
  <2>2. PICK d \in Slots : copies' = [copies EXCEPT ![d] =
               [msg |-> copies[held[k]].msg,
                retries |-> NextRetryCount(copies[held[k]]),
                place |-> RetryTarget(copies[held[k]])]]
    BY <1>6 DEF HandlerThrows, Republish, NextSlot, FreeSlots
  <2>3. QED
    BY <2>1, <2>2 DEF Outstanding, Live
<1>7. ASSUME NEW k \in Consumers, Answer(k) PROVE Old
  BY <1>7 DEF Answer, Ack, NackRequeue, Release, HeldInv, Holding, Free
<1>8. ASSUME NEW k \in Consumers, NEW d \in Slots, Deliver(k, d) PROVE Old
  BY <1>8 DEF Deliver
<1>9. ASSUME NEW k \in Consumers, ConfirmRejects(k) PROVE Old
  BY <1>9 DEF ConfirmRejects, serverVars
<1>10. ASSUME NEW k \in Consumers, Crash(k) PROVE Old
  BY <1>10 DEF Crash, Release, HeldInv, Holding
<1>11. ASSUME NEW d \in Slots, RetryDelayExpires(d) PROVE Old
  BY <1>11 DEF RetryDelayExpires
<1>12. ASSUME UNCHANGED vars PROVE Old
  BY <1>12 DEF vars
<1>13. Old \/ copies'[c].msg \in Outstanding
  BY <1>1, <1>2, <1>3, <1>4, <1>5, <1>6, <1>7, <1>8, <1>9, <1>10, <1>11,
     <1>12 DEF Next, Handle
<1>14. QED
  BY <1>13, KeptStep DEF WireInv, Kept

-----------------------------------------------------------------------------
(* The inductive invariant holds of every state of the specification.       *)
THEOREM Invariance == Spec => []IInv
<1>1. IInv /\ [Next]_vars => IInv'
  BY TypeStep, HeldStep, OutStep, LineStep, WireStep DEF IInv
<1>2. QED
  BY InitIInv, <1>1, PTL DEF Spec

(* The types of the subscription's state.                                   *)
THEOREM TypesHold == Spec => []TypeOK
  BY Invariance, PTL DEF IInv

(* Copies are dead-lettered after exactly MaxRetries retries, for every      *)
(* value of maxRetries and any number of consumers and crashes.             *)
LEMMA ExhaustedIfDead == IInv => DeadMeansExhausted
  BY SubscriptionAssumption
  DEF IInv, TypeOK, SlotInv, DeadMeansExhausted, Live

(* A dead-lettered copy was retried maxRetries times, a live one has retries  *)
(* left, in every state of the specification.                               *)
THEOREM DeadLettersAreExhausted == Spec => []DeadMeansExhausted
  BY Invariance, ExhaustedIfDead, PTL

-----------------------------------------------------------------------------
(* How many copies there are.                                               *)
Used == Slots \ FreeSlots
Sent == {m \in Messages : pub[m] # "unsent"}
Swapping == {k \in Consumers : pc[k] \in {"confirming", "acking"}}

(* No two consumers await the confirm of one copy, so that a refused copy    *)
(* turns away a single consumer; and the sets that are counted are finite,   *)
(* however many messages, consumers and slots there are.                    *)
CountInv ==
    /\ \A k, j \in Consumers : out[k] # None /\ k # j => out[k] # out[j]
    /\ IsFiniteSet(Used) /\ IsFiniteSet(Sent) /\ IsFiniteSet(Swapping)
    /\ CopiesAreAccounted

(* Each copy republished takes a free slot of its own.                      *)
LEMMA OutDistinct ==
    ASSUME IInv, CountInv, [Next]_vars,
           NEW k \in Consumers, NEW j \in Consumers, k # j, out'[k] # None
    PROVE  out'[k] # out'[j]
<1> USE DEF IInv, TypeOK
<1>1. ASSUME NEW i \in Consumers, HandlerThrows(i)
      PROVE  out'[k] # out'[j]
  <2>1. PICK c \in Slots : /\ copies[c].place = "free"
                           /\ out' = [out EXCEPT ![i] = c]
    BY <1>1 DEF HandlerThrows, Republish, NextSlot, FreeSlots
  <2>2. \A l \in Consumers : out[l] # c
    BY <2>1, SubscriptionAssumption DEF OutInv
  <2>3. QED
    BY <2>1, <2>2 DEF CountInv
<1>2. ASSUME \A l \in Consumers : out'[l] \in {None, out[l]}
      PROVE  out'[k] # out'[j]
  BY <1>2 DEF CountInv
<1>3. ASSUME NEW c \in Slots, BrokerRoutes(c) \/ BrokerRefuses(c)
      PROVE  \A l \in Consumers : out'[l] \in {None, out[l]}
  BY <1>3 DEF BrokerRoutes, BrokerRefuses, Answered
<1>4. ASSUME NEW i \in Consumers,
             Start(i) \/ HandlerSucceeds(i) \/ Answer(i) \/ ConfirmRejects(i)
               \/ Crash(i)
      PROVE  \A l \in Consumers : out'[l] \in {None, out[l]}
  BY <1>4 DEF Start, AssertTopology, Consume, HandlerSucceeds, Answer, Ack,
              NackRequeue, ConfirmRejects, Crash
<1>5. ASSUME NEW i \in Consumers, NEW c \in Slots, Deliver(i, c)
      PROVE  \A l \in Consumers : out'[l] \in {None, out[l]}
  BY <1>5 DEF Deliver
<1>6. ASSUME NEW m \in Messages, PublishEvent(m)
      PROVE  out' = out
  BY <1>6 DEF PublishEvent, consumerVars
<1>7. ASSUME NEW c \in Slots, RetryDelayExpires(c)
      PROVE  out' = out
  BY <1>7 DEF RetryDelayExpires, consumerVars
<1>8. CASE UNCHANGED vars
  BY <1>2, <1>8 DEF vars
<1>9. QED
  BY <1>1, <1>2, <1>3, <1>4, <1>5, <1>6, <1>7, <1>8 DEF Next, Handle

(* The counts of a set that gains or loses an element.                      *)
LEMMA OneMore ==
    ASSUME NEW S, NEW T, NEW x, IsFiniteSet(S), x \notin S, T = S \cup {x}
    PROVE  /\ IsFiniteSet(T) /\ Cardinality(S) \in Nat
           /\ Cardinality(T) = Cardinality(S) + 1
  BY FS_AddElement, FS_CardinalityType

LEMMA OneLess ==
    ASSUME NEW S, NEW T, NEW x, IsFiniteSet(S), x \in S, T = S \ {x}
    PROVE  /\ IsFiniteSet(T) /\ Cardinality(S) \in Nat
           /\ Cardinality(T) = Cardinality(S) - 1
  BY FS_RemoveElement, FS_CardinalityType

(* A copy is published: the message or the consumer it stands for is         *)
(* counted with it.                                                         *)
LEMMA CopyAdded ==
    ASSUME IInv, CountInv
    PROVE  /\ \A m \in Messages : PublishEvent(m) =>
                \E c \in Slots \ Used :
                  /\ Used' = Used \cup {c} /\ Swapping' = Swapping
                  /\ m \notin Sent /\ Sent' = Sent \cup {m} /\ faults' = faults
           /\ \A k \in Consumers : HandlerThrows(k) =>
                \E c \in Slots \ Used :
                  /\ Used' = Used \cup {c} /\ Sent' = Sent /\ faults' = faults
                  /\ k \notin Swapping /\ Swapping' = Swapping \cup {k}
<1> USE DEF IInv, TypeOK
<1>1. ASSUME NEW m \in Messages, PublishEvent(m)
      PROVE  \E c \in Slots \ Used :
                  /\ Used' = Used \cup {c} /\ Swapping' = Swapping
                  /\ m \notin Sent /\ Sent' = Sent \cup {m} /\ faults' = faults
  <2>1. PICK c \in Slots : /\ copies[c].place = "free"
                           /\ copies' = [copies EXCEPT ![c] =
                                [msg |-> m, retries |-> 0, place |-> "toQueue"]]
    BY <1>1 DEF PublishEvent, NextSlot, FreeSlots
  <2>2. c \notin Used /\ Used' = Used \cup {c}
    BY <2>1 DEF Used, FreeSlots
  <2>3. m \notin Sent /\ Sent' = Sent \cup {m}
    BY <1>1 DEF PublishEvent, Sent
  <2>4. Swapping' = Swapping /\ faults' = faults
    BY <1>1 DEF PublishEvent, consumerVars, Swapping
  <2>5. QED
    BY <2>2, <2>3, <2>4
<1>2. ASSUME NEW k \in Consumers, HandlerThrows(k)
      PROVE  \E c \in Slots \ Used :
                  /\ Used' = Used \cup {c} /\ Sent' = Sent /\ faults' = faults
                  /\ k \notin Swapping /\ Swapping' = Swapping \cup {k}
  <2>1. PICK c \in Slots :
           /\ copies[c].place = "free"
           /\ copies' = [copies EXCEPT ![c] =
                [msg |-> copies[held[k]].msg,
                 retries |-> NextRetryCount(copies[held[k]]),
                 place |-> RetryTarget(copies[held[k]])]]
    BY <1>2 DEF HandlerThrows, Republish, NextSlot, FreeSlots
  <2>2. c \notin Used /\ Used' = Used \cup {c}
    BY <2>1 DEF Used, FreeSlots, RetryTarget
  <2>3. k \notin Swapping /\ Swapping' = Swapping \cup {k}
    BY <1>2 DEF HandlerThrows, Republish, Swapping
  <2>4. Sent' = Sent /\ faults' = faults
    BY <1>2 DEF HandlerThrows, Republish, Sent
  <2>5. QED
    BY <2>2, <2>3, <2>4
<1>3. QED
  BY <1>1, <1>2

(* A copy is freed: acknowledged by the consumer it was counted for, or      *)
(* refused at the cost of a fault, which turns away at most one consumer.    *)
LEMMA CopyFreed ==
    ASSUME IInv, CountInv
    PROVE  /\ \A k \in Consumers : Ack(k) =>
                /\ held[k] \in Used /\ Used' = Used \ {held[k]}
                /\ k \in Swapping /\ Swapping' = Swapping \ {k}
                /\ Sent' = Sent /\ faults' = faults
           /\ \A c \in Slots : BrokerRefuses(c) =>
                /\ c \in Used /\ Used' = Used \ {c}
                /\ Sent' = Sent /\ faults' = faults + 1
                /\ \/ Swapping' = Swapping
                   \/ \E k \in Swapping : Swapping' = Swapping \ {k}
<1> USE DEF IInv, TypeOK
<1>1. ASSUME NEW k \in Consumers, Ack(k)
      PROVE  /\ held[k] \in Used /\ Used' = Used \ {held[k]}
             /\ k \in Swapping /\ Swapping' = Swapping \ {k}
             /\ Sent' = Sent /\ faults' = faults
  <2>1. held[k] \in Slots /\ copies[held[k]].place = "unacked"
    BY <1>1 DEF Ack, HeldInv, Holding
  <2>2. held[k] \in Used /\ Used' = Used \ {held[k]}
    BY <1>1, <2>1 DEF Ack, Release, Free, Used, FreeSlots
  <2>3. k \in Swapping /\ Swapping' = Swapping \ {k}
    BY <1>1 DEF Ack, Swapping
  <2>4. Sent' = Sent /\ faults' = faults
    BY <1>1 DEF Ack, Sent
  <2>5. QED
    BY <2>2, <2>3, <2>4
<1>2. ASSUME NEW c \in Slots, BrokerRefuses(c)
      PROVE  /\ c \in Used /\ Used' = Used \ {c}
             /\ Sent' = Sent /\ faults' = faults + 1
             /\ \/ Swapping' = Swapping
                \/ \E k \in Swapping : Swapping' = Swapping \ {k}
  <2>1. c \in Used /\ Used' = Used \ {c}
    BY <1>2 DEF BrokerRefuses, Free, Used, FreeSlots, Wire
  <2>2. Sent' = Sent /\ faults' = faults + 1
    BY <1>2 DEF BrokerRefuses, Answered, Fault, Sent
  <2>3. Swapping' = Swapping \ {k \in Consumers :
                                  pc[k] = "confirming" /\ out[k] = c}
    BY <1>2 DEF BrokerRefuses, Answered, Swapping
  <2>4. CASE \E k \in Consumers : pc[k] = "confirming" /\ out[k] = c
    <3>1. PICK k \in Consumers : pc[k] = "confirming" /\ out[k] = c
      BY <2>4
    <3>2. \A j \in Consumers : out[j] = c => j = k
      BY <3>1, SubscriptionAssumption DEF CountInv
    <3>3. k \in Swapping /\ Swapping' = Swapping \ {k}
      BY <2>3, <3>1, <3>2 DEF Swapping
    <3>4. QED
      BY <2>1, <2>2, <3>3
  <2>5. CASE ~ \E k \in Consumers : pc[k] = "confirming" /\ out[k] = c
    BY <2>1, <2>2, <2>3, <2>5
  <2>6. QED
    BY <2>4, <2>5
<1>3. QED
  BY <1>1, <1>2

(* Every other step leaves the copies as many as they are: it may free one   *)
(* no queue was bound for, add a consumer that is done with its message, or  *)
(* take one away for a fault.                                               *)
LEMMA CopiesKept ==
    ASSUME IInv, [Next]_vars,
           \A m \in Messages : ~PublishEvent(m),
           \A k \in Consumers : ~HandlerThrows(k) /\ ~Ack(k),
           \A c \in Slots : ~BrokerRefuses(c)
    PROVE  /\ Used' \subseteq Used /\ Sent' = Sent
           /\ \/ Swapping' = Swapping /\ faults' = faults
              \/ \E k \in Consumers : /\ Swapping' = Swapping \cup {k}
                                      /\ faults' = faults
              \/ \E k \in Consumers : /\ Swapping' = Swapping \ {k}
                                      /\ faults' = faults + 1
<1> DEFINE Quiet == /\ Used' \subseteq Used /\ Sent' = Sent
                    /\ Swapping' = Swapping /\ faults' = faults
<1> USE DEF IInv, TypeOK, Used, FreeSlots, Sent, Swapping
<1>1. ASSUME NEW c \in Slots, BrokerRoutes(c) PROVE Quiet
  BY <1>1 DEF BrokerRoutes, Answered, Wire
<1>2. ASSUME NEW k \in Consumers, Start(k) PROVE Quiet
  BY <1>2 DEF Start, AssertTopology, Consume, serverVars
<1>3. ASSUME NEW k \in Consumers, HandlerSucceeds(k)
      PROVE  /\ Used' \subseteq Used /\ Sent' = Sent
             /\ Swapping' = Swapping \cup {k} /\ faults' = faults
  BY <1>3 DEF HandlerSucceeds, serverVars
<1>4. ASSUME NEW k \in Consumers, NackRequeue(k) PROVE Quiet
  BY <1>4 DEF NackRequeue, Release, HeldInv, Holding
<1>5. ASSUME NEW k \in Consumers, NEW c \in Slots, Deliver(k, c) PROVE Quiet
  BY <1>5 DEF Deliver
<1>6. ASSUME NEW k \in Consumers, ConfirmRejects(k)
      PROVE  /\ Used' \subseteq Used /\ Sent' = Sent
             /\ Swapping' = Swapping \ {k} /\ faults' = faults + 1
  BY <1>6 DEF ConfirmRejects, serverVars, Fault
<1>7. ASSUME NEW k \in Consumers, Crash(k)
      PROVE  /\ Used' \subseteq Used /\ Sent' = Sent
             /\ Swapping' = Swapping \ {k} /\ faults' = faults + 1
  BY <1>7 DEF Crash, Release, Fault, HeldInv, Holding
<1>8. ASSUME NEW c \in Slots, RetryDelayExpires(c) PROVE Quiet
  BY <1>8 DEF RetryDelayExpires, consumerVars
<1>9. CASE UNCHANGED vars
  BY <1>9 DEF vars
<1>10. QED
  BY <1>1, <1>2, <1>3, <1>4, <1>5, <1>6, <1>7, <1>8, <1>9
  DEF Next, Handle, Answer

(* The account is kept in every step.                                       *)
LEMMA CountStep == IInv /\ CountInv /\ [Next]_vars => CountInv'
<1> SUFFICES ASSUME IInv, CountInv, [Next]_vars PROVE CountInv'
  OBVIOUS
<1> DEFINE u == Cardinality(Used) s == Cardinality(Sent)
           a == Cardinality(Swapping)
           Counted == /\ IsFiniteSet(Used') /\ IsFiniteSet(Sent')
                      /\ IsFiniteSet(Swapping')
                      /\ u' <= s' + faults' + a'
<1>0. /\ IsFiniteSet(Used) /\ IsFiniteSet(Sent) /\ IsFiniteSet(Swapping)
      /\ u \in Nat /\ s \in Nat /\ a \in Nat /\ faults \in Nat
      /\ u <= s + faults + a
  BY FS_CardinalityType
  DEF IInv, TypeOK, CountInv, CopiesAreAccounted, Used, Sent, Swapping
<1> SUFFICES Counted
  BY OutDistinct DEF CountInv, CopiesAreAccounted, Used, Sent, Swapping
<1>1. ASSUME NEW m \in Messages, PublishEvent(m) PROVE Counted
  <2>1. PICK c \in Slots \ Used :
           /\ Used' = Used \cup {c} /\ Swapping' = Swapping
           /\ m \notin Sent /\ Sent' = Sent \cup {m} /\ faults' = faults
    BY <1>1, CopyAdded
  <2>2. IsFiniteSet(Used') /\ u' = u + 1
    BY <1>0, <2>1, OneMore
  <2>3. IsFiniteSet(Sent') /\ s' = s + 1
    BY <1>0, <2>1, OneMore
  <2>4. QED
    BY <1>0, <2>1, <2>2, <2>3
<1>2. ASSUME NEW k \in Consumers, HandlerThrows(k) PROVE Counted
  <2>1. PICK c \in Slots \ Used :
           /\ Used' = Used \cup {c} /\ Sent' = Sent /\ faults' = faults
           /\ k \notin Swapping /\ Swapping' = Swapping \cup {k}
    BY <1>2, CopyAdded
  <2>2. IsFiniteSet(Used') /\ u' = u + 1
    BY <1>0, <2>1, OneMore
  <2>3. IsFiniteSet(Swapping') /\ a' = a + 1
    BY <1>0, <2>1, OneMore
  <2>4. QED
    BY <1>0, <2>1, <2>2, <2>3
<1>3. ASSUME NEW k \in Consumers, Ack(k) PROVE Counted
  <2>1. /\ held[k] \in Used /\ Used' = Used \ {held[k]}
        /\ k \in Swapping /\ Swapping' = Swapping \ {k}
        /\ Sent' = Sent /\ faults' = faults
    BY <1>3, CopyFreed
  <2>2. IsFiniteSet(Used') /\ u' = u - 1
    BY <1>0, <2>1, OneLess
  <2>3. IsFiniteSet(Swapping') /\ a' = a - 1
    BY <1>0, <2>1, OneLess
  <2>4. QED
    BY <1>0, <2>1, <2>2, <2>3
<1>4. ASSUME NEW c \in Slots, BrokerRefuses(c) PROVE Counted
  <2>1. /\ c \in Used /\ Used' = Used \ {c}
        /\ Sent' = Sent /\ faults' = faults + 1
        /\ \/ Swapping' = Swapping
           \/ \E k \in Swapping : Swapping' = Swapping \ {k}
    BY <1>4, CopyFreed
  <2>2. IsFiniteSet(Used') /\ u' = u - 1
    BY <1>0, <2>1, OneLess
  <2>3. IsFiniteSet(Swapping') /\ a' \in {a, a - 1}
    BY <1>0, <2>1, OneLess
  <2>4. QED
    BY <1>0, <2>1, <2>2, <2>3
<1>5. ASSUME \A m \in Messages : ~PublishEvent(m),
             \A k \in Consumers : ~HandlerThrows(k) /\ ~Ack(k),
             \A c \in Slots : ~BrokerRefuses(c)
      PROVE  Counted
  <2>1. /\ Used' \subseteq Used /\ Sent' = Sent
        /\ \/ Swapping' = Swapping /\ faults' = faults
           \/ \E k \in Consumers : /\ Swapping' = Swapping \cup {k}
                                   /\ faults' = faults
           \/ \E k \in Consumers : /\ Swapping' = Swapping \ {k}
                                   /\ faults' = faults + 1
    BY <1>5, CopiesKept
  <2>2. IsFiniteSet(Used') /\ u' <= u /\ u' \in Nat
    BY <1>0, <2>1, FS_Subset, FS_CardinalityType
  <2>3. /\ IsFiniteSet(Swapping') /\ a' \in Nat
        /\ faults' + a' >= faults + a
    <3>1. CASE Swapping' = Swapping /\ faults' = faults
      BY <1>0, <3>1
    <3>2. ASSUME NEW k \in Consumers, Swapping' = Swapping \cup {k},
                 faults' = faults
          PROVE  /\ IsFiniteSet(Swapping') /\ a' \in Nat
                 /\ faults' + a' >= faults + a
      <4>1. IsFiniteSet(Swapping') /\ a' \in {a, a + 1}
        BY <1>0, <3>2, FS_AddElement
      <4>2. QED
        BY <1>0, <3>2, <4>1
    <3>3. ASSUME NEW k \in Consumers, Swapping' = Swapping \ {k},
                 faults' = faults + 1
          PROVE  /\ IsFiniteSet(Swapping') /\ a' \in Nat
                 /\ faults' + a' >= faults + a
      <4>1. IsFiniteSet(Swapping') /\ a' \in {a, a - 1}
        BY <1>0, <3>3, FS_RemoveElement
      <4>2. a' \in Nat
        BY <4>1, FS_CardinalityType
      <4>3. QED
        BY <1>0, <3>3, <4>1, <4>2
    <3>4. QED
      BY <2>1, <3>1, <3>2, <3>3
  <2>4. QED
    BY <1>0, <2>1, <2>2, <2>3
<1>6. QED
  BY <1>1, <1>2, <1>3, <1>4, <1>5

(* Whatever crashes, refusals and requeued originals do, copies never exceed *)
(* the messages sent, the faults and the consumers about to acknowledge.     *)
THEOREM CopiesDoNotMultiply == Spec => []CopiesAreAccounted
<1>1. Init => CountInv
  <2> SUFFICES ASSUME Init PROVE CountInv
    OBVIOUS
  <2>1. Used = {} /\ Sent = {} /\ Swapping = {}
    BY DEF Init, Free, Used, FreeSlots, Sent, Swapping
  <2>2. QED
    BY <2>1, FS_EmptySet
    DEF Init, CountInv, CopiesAreAccounted, Used, Sent, Swapping
<1>2. IInv /\ CountInv /\ [Next]_vars => CountInv'
  BY CountStep
<1>3. CountInv => CopiesAreAccounted
  BY DEF CountInv
<1>4. QED
  BY <1>1, <1>2, <1>3, Invariance, PTL DEF Spec

-----------------------------------------------------------------------------
(* Refinement.                                                              *)
LEMMA InitContract == Init => Contract!Init
  BY SubscriptionAssumption
  DEF Init, Contract!Init, Outstanding, Buried, Free, Live

(* What a step leaves of the sets the contract sees, copy by copy.          *)
LEMMA SameSets ==
  ASSUME \A c \in Slots :
           /\ copies'[c].place \in Live <=> copies[c].place \in Live
           /\ copies'[c].place = "dead" <=> copies[c].place = "dead"
           /\ copies[c].place \in Live \cup {"dead"} =>
                copies'[c].msg = copies[c].msg
  PROVE  Outstanding' = Outstanding /\ Buried' = Buried
<1>1. Outstanding' = Outstanding
  BY DEF Outstanding
<1>2. Buried' = Buried
  BY DEF Buried
<1>3. QED
  BY <1>1, <1>2

(* Routing a copy is Accept, Revive, Bury or ReviveDead of its message, or   *)
(* nothing the contract sees.                                               *)
LEMMA RoutesRefines ==
  ASSUME IInv, NEW c \in Slots, BrokerRoutes(c)
  PROVE  [Contract!Next]_(Contract!vars)
<1> DEFINE m == copies[c].msg
<1> USE DEF IInv, TypeOK
<1>1. /\ copies[c].place \in Wire /\ m \in Messages /\ handled' = handled
      /\ copies' = [copies EXCEPT ![c] = Landed(copies[c])]
  BY DEF BrokerRoutes, SlotInv, Wire
<1>2. CASE Landed(copies[c]) = Free
  <2>1. Outstanding' = Outstanding /\ Buried' = Buried
    BY <1>1, <1>2, SameSets DEF Free, Live, Wire
  <2>2. QED
    BY <1>1, <2>1 DEF Contract!vars
<1>3. CASE Landed(copies[c]) # Free
  <2>1. /\ copies'[c].place = Arrived(copies[c].place)
        /\ copies'[c].msg = m
        /\ \A d \in Slots : d # c => copies'[d] = copies[d]
    <3>1. Landed(copies[c]) = [copies[c] EXCEPT !.place = Arrived(copies[c].place)]
      BY <1>3, Zenon DEF Landed
    <3>2. QED
      BY <1>1, <3>1
  <2>2. CASE copies[c].place \in {"toQueue", "toRetry"}
    <3>1. Outstanding' = Outstanding \cup {m} /\ Buried' = Buried
      BY <1>1, <2>1, <2>2 DEF Arrived, Live, Outstanding, Buried
    <3>2. Contract!Accept(m) \/ Contract!Revive(m)
      BY <1>1, <3>1 DEF Contract!Accept, Contract!Revive
    <3>3. QED
      BY <1>1, <3>2 DEF Contract!Next
  <2>3. CASE copies[c].place = "toDead"
    <3>1. Outstanding' = Outstanding /\ Buried' = Buried \cup {m}
      BY <1>1, <2>1, <2>3 DEF Arrived, Live, Outstanding, Buried
    <3>2. m \in Kept
      BY <2>3 DEF WireInv
    <3>3. Contract!Bury(m) \/ Contract!ReviveDead(m)
      BY <1>1, <3>1, <3>2 DEF Contract!Bury, Contract!ReviveDead, Kept
    <3>4. QED
      BY <1>1, <3>3 DEF Contract!Next
  <2>4. QED
    BY <1>1, <2>2, <2>3 DEF Wire
<1>4. QED
  BY <1>2, <1>3

(* An ack settles the message, unless another live copy of it remains.      *)
LEMMA AckRefines ==
  ASSUME IInv, NEW k \in Consumers, Ack(k)
  PROVE  [Contract!Next]_(Contract!vars)
<1> DEFINE m == copies[held[k]].msg
<1> USE DEF IInv, TypeOK
<1>1. /\ held[k] \in Slots /\ copies[held[k]].place = "unacked"
      /\ m \in Messages /\ m \in Outstanding
  BY DEF Ack, HeldInv, Holding, SlotInv, Live, Outstanding
<1>2. /\ m \in Kept' /\ handled' = handled
      /\ \A c \in Slots : c # held[k] => copies'[c] = copies[c]
  BY AckKeeps
<1>3. copies'[held[k]].place = "free"
  BY <1>1 DEF Ack, Release, Free
<1>4. Buried' = Buried
  BY <1>1, <1>2, <1>3 DEF Buried
<1>5. Outstanding \ {m} \subseteq Outstanding' /\ Outstanding' \subseteq Outstanding
  BY <1>1, <1>2, <1>3 DEF Outstanding, Live
<1>6. CASE m \in Outstanding'
  BY <1>2, <1>4, <1>5, <1>6 DEF Contract!vars
<1>7. CASE m \notin Outstanding'
  <2>1. Outstanding' = Outstanding \ {m} /\ m \in handled \cup Buried
    BY <1>2, <1>4, <1>5, <1>7 DEF Kept
  <2>2. Contract!Settle(m)
    BY <1>1, <1>2, <1>4, <2>1 DEF Contract!Settle
  <2>3. QED
    BY <1>1, <2>2 DEF Contract!Next
<1>8. QED
  BY <1>6, <1>7

(* Every step of the subscription is a step of the contract, or a stutter.  *)
LEMMA StepRefines ==
  IInv /\ [Next]_vars => [Contract!Next]_(Contract!vars)
<1> SUFFICES ASSUME IInv, [Next]_vars
             PROVE  [Contract!Next]_(Contract!vars)
  OBVIOUS
<1> DEFINE Same == /\ Outstanding' = Outstanding /\ Buried' = Buried
                   /\ handled' = handled
<1> USE DEF IInv, TypeOK, Live, Wire, Free
<1>1. ASSUME NEW m \in Messages, PublishEvent(m) PROVE Same
  BY <1>1, SameSets DEF PublishEvent, NextSlot, FreeSlots
<1>2. ASSUME NEW c \in Slots, BrokerRefuses(c) PROVE Same
  BY <1>2, SameSets DEF BrokerRefuses
<1>3. ASSUME NEW k \in Consumers, Start(k) PROVE Same
  BY <1>3, SameSets DEF Start, AssertTopology, Consume, serverVars
<1>4. ASSUME NEW k \in Consumers, HandlerSucceeds(k)
      PROVE  [Contract!Next]_(Contract!vars)
  <2>1. copies[held[k]].msg \in Outstanding
    BY <1>4 DEF HandlerSucceeds, HeldInv, Holding, SlotInv, Outstanding
  <2>2. Outstanding' = Outstanding /\ Buried' = Buried
    BY <1>4, SameSets DEF HandlerSucceeds, serverVars
  <2>3. Contract!Handle(copies[held[k]].msg)
    BY <1>4, <2>1, <2>2 DEF HandlerSucceeds, Contract!Handle
  <2>4. copies[held[k]].msg \in Messages
    BY <2>1 DEF Outstanding
  <2>5. QED
    BY <2>3, <2>4 DEF Contract!Next
<1>5. ASSUME NEW k \in Consumers, HandlerThrows(k) PROVE Same
  <2>1. RetryTarget(copies[held[k]]) \in {"toRetry", "toDead"}
    BY DEF RetryTarget
  <2>2. QED
    BY <1>5, <2>1, SameSets DEF HandlerThrows, Republish, NextSlot, FreeSlots
<1>6. ASSUME NEW k \in Consumers, NackRequeue(k) PROVE Same
  BY <1>6, SameSets DEF NackRequeue, Release, HeldInv, Holding
<1>7. ASSUME NEW k \in Consumers, NEW c \in Slots, Deliver(k, c) PROVE Same
  BY <1>7, SameSets DEF Deliver
<1>8. ASSUME NEW k \in Consumers, ConfirmRejects(k) PROVE Same
  BY <1>8, SameSets DEF ConfirmRejects, serverVars
<1>9. ASSUME NEW k \in Consumers, Crash(k) PROVE Same
  BY <1>9, SameSets DEF Crash, Release, HeldInv, Holding
<1>10. ASSUME NEW c \in Slots, RetryDelayExpires(c) PROVE Same
  BY <1>10, SameSets DEF RetryDelayExpires
<1>11. ASSUME UNCHANGED vars PROVE Same
  BY <1>11, SameSets DEF vars
<1>12. Same => [Contract!Next]_(Contract!vars)
  BY DEF Contract!vars
<1>13. QED
  BY <1>1, <1>2, <1>3, <1>4, <1>5, <1>6, <1>7, <1>8, <1>9, <1>10, <1>11,
     <1>12, RoutesRefines, AckRefines DEF Next, Handle, Answer

(* For any number of messages, consumers and copies, whatever is refused,    *)
(* nacked or crashes: a message the queue accepted is never lost before it   *)
(* was handled or dead-lettered.                                            *)
THEOREM SubscriptionImplementsContract == Spec => ImplementsDelivery
  BY Invariance, InitContract, StepRefines, PTL
  DEF Spec, ImplementsDelivery, Contract!Spec
=============================================================================
