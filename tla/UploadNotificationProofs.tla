----------------------- MODULE UploadNotificationProofs -----------------------
(***************************************************************************)
(* Proofs about UploadNotification, for any keys, notifications, retries   *)
(* and faults.                                                             *)
(***************************************************************************)
EXTENDS UploadNotification, FiniteSetTheorems, TLAPS

EventType == [records : Seq(Keys), pos : Nat, try : 0..MaxRetries + 1,
              state : {"free", "queued", "running", "awaiting", "done",
                       "dropped"}]

(* An invocation that is queued has a try left; one that has begun is at a  *)
(* record, and one that is done is past the last.                           *)
EventInv ==
    \A e \in Events :
      /\ event[e].state = "queued" => event[e].try <= MaxRetries
      /\ event[e].state \in {"running", "awaiting", "done"} => event[e].pos >= 1
      /\ event[e].state = "done" => event[e].pos \notin DOMAIN event[e].records

(* Only stored objects are notified, and only they are sent to the webhook. *)
StoredInv ==
    /\ \A k \in Keys : notified[k] <= puts[k]
    /\ \A e \in Events : \A i \in DOMAIN event[e].records :
         puts[event[e].records[i]] > 0
    /\ \A c \in calls : c.key \in Originals => puts[c.key] > 0

(* A call of the lambda is about the record it was made for; its good       *)
(* answer is given after the broker's.                                      *)
CallInv ==
    \A c \in calls :
      /\ c.from \in Events =>
           /\ event[c.from].state # "free"
           /\ c.pos \in DOMAIN event[c.from].records
           /\ c.key = event[c.from].records[c.pos]
      /\ c.state = "ok" /\ c.key \in Originals => announced[c.key] > 0

(* Every original the loop has passed is announced.                         *)
PassedInv ==
    \A e \in Events :
      event[e].state \in {"running", "awaiting", "done"} =>
        \A i \in DOMAIN event[e].records :
          i < event[e].pos /\ event[e].records[i] \in Originals =>
            announced[event[e].records[i]] > 0

IInv == TypeOK /\ EventInv /\ StoredInv /\ CallInv /\ PassedInv

LEMMA TypeParts ==
  TypeOK => /\ event \in [Events -> EventType]
            /\ puts \in [Keys -> Nat] /\ notified \in [Keys -> Nat]
            /\ announced \in [Originals -> Nat]
            /\ calls \subseteq CallType /\ faults \in Nat
  BY NotificationAssumption DEF TypeOK, EventType

LEMMA InitHolds == Init => IInv
<1> SUFFICES ASSUME Init PROVE IInv
  OBVIOUS
<1>1. FreeEvent \in EventType /\ DOMAIN FreeEvent.records = {}
  BY NotificationAssumption DEF FreeEvent, EventType
<1>2. TypeOK
  BY <1>1, NotificationAssumption DEF Init, TypeOK, EventType
<1>3. EventInv /\ StoredInv /\ CallInv /\ PassedInv
  BY <1>1 DEF Init, EventInv, StoredInv, CallInv, PassedInv, FreeEvent
<1> QED BY <1>2, <1>3 DEF IInv

LEMMA StutterKeeps == IInv /\ UNCHANGED vars => IInv'
  BY DEF vars, IInv, TypeOK, EventInv, StoredInv, CallInv, PassedInv

-----------------------------------------------------------------------------
(* Objects and requests for keys.                                           *)
LEMMA BucketKeeps ==
  ASSUME IInv, (\E v \in Originals : UploadRequest(v))
               \/ \E k \in Keys : PutObject(k)
  PROVE  IInv'
<1>1. TypeOK'
  <2>1. CASE \E v \in Originals : UploadRequest(v)
    BY <2>1 DEF UploadRequest, IInv, TypeOK
  <2>2. ASSUME NEW k \in Keys, PutObject(k) PROVE TypeOK'
    <3>1. puts' \in [Keys -> 0..MaxPuts]
      BY <2>2, NotificationAssumption DEF PutObject, IInv, TypeOK
    <3> QED BY <2>2, <3>1 DEF PutObject, IInv, TypeOK
  <2> QED BY <2>1, <2>2
<1>2. /\ UNCHANGED <<notified, event, calls, announced, faults>>
      /\ \A k \in Keys : puts'[k] \in Nat /\ puts'[k] >= puts[k]
  BY TypeParts DEF UploadRequest, PutObject, IInv
<1>3. EventInv' /\ CallInv' /\ PassedInv'
  BY <1>2 DEF IInv, EventInv, CallInv, PassedInv
<1>4. StoredInv'
  <2>1. \A e \in Events : \A i \in DOMAIN event[e].records :
          event[e].records[i] \in Keys
    BY TypeParts DEF IInv, EventType
  <2>2. \A k \in Keys : puts[k] \in Nat /\ notified[k] \in Nat
    BY TypeParts DEF IInv
  <2> QED BY <1>2, <2>1, <2>2 DEF IInv, StoredInv, Keys
<1> QED BY <1>1, <1>3, <1>4 DEF IInv

(* A new notification.                                                      *)
LEMMA QueueKeeps ==
  ASSUME IInv, NEW e \in Events, NEW records \in Seq(Keys),
         event[e].state = "free", Queue(e, records),
         \A i \in DOMAIN records : puts[records[i]] > 0,
         notified' \in [Keys -> Nat],
         \A k \in Keys : notified'[k] <= puts[k],
         faults' \in 0..MaxFaults,
         UNCHANGED <<issued, puts, calls, announced>>
  PROVE  IInv'
<1>1. TypeOK /\ event \in [Events -> EventType]
  BY TypeParts DEF IInv
<1> DEFINE new == [records |-> records, state |-> "queued", try |-> 0,
                   pos |-> 0]
<1>2. /\ event' \in [Events -> EventType]
      /\ event'[e].records = records /\ event'[e].state = "queued"
      /\ event'[e].try = 0
      /\ \A d \in Events \ {e} : event'[d] = event[d]
  <2>1. new \in EventType
    BY NotificationAssumption DEF EventType
  <2>2. event' = [event EXCEPT ![e] = new]
    BY DEF Queue
  <2>3. event'[e] = new /\ \A d \in Events \ {e} : event'[d] = event[d]
    BY <1>1, <2>2
  <2> QED BY <1>1, <2>1, <2>2, <2>3
<1>3. TypeOK'
  BY <1>1, <1>2 DEF TypeOK, EventType
<1>4. EventInv' /\ PassedInv'
  BY <1>2, NotificationAssumption DEF IInv, EventInv, PassedInv
<1>5. StoredInv'
  BY <1>2 DEF IInv, StoredInv
<1>6. CallInv'
  BY <1>2 DEF IInv, CallInv
<1> QED BY <1>3, <1>4, <1>5, <1>6 DEF IInv

LEMMA NotifyKeeps ==
  ASSUME IInv, NEW e \in Events, Notify(e) \/ NotifyAgain(e)
  PROVE  IInv'
<1>1. event[e].state = "free"
  BY DEF Notify, NotifyAgain, IsNext, FreeEvents
<1>2. TypeOK /\ puts \in [Keys -> Nat] /\ notified \in [Keys -> Nat]
  BY TypeParts DEF IInv
<1>3. CASE Notify(e)
  <2>1. PICK records \in Batches :
          /\ Queue(e, records)
          /\ notified' = [k \in Keys |->
               IF \E i \in DOMAIN records : records[i] = k
               THEN notified[k] + 1 ELSE notified[k]]
    BY <1>3 DEF Notify
  <2>2. /\ records \in Seq(Keys)
        /\ \A i \in DOMAIN records : records[i] \in Pending
    <3>1. CASE records \in {<<k>> : k \in Pending}
      <4>1. PICK k \in Pending : records = <<k>>
        BY <3>1
      <4> QED BY <4>1 DEF Pending
    <3>2. CASE records \notin {<<k>> : k \in Pending}
      <4>1. PICK k \in Pending, l \in Pending : records = <<k, l>>
        BY <2>1, <3>2 DEF Batches
      <4> QED BY <4>1 DEF Pending
    <3> QED BY <3>1, <3>2
  <2>3. /\ \A k \in Keys : notified'[k] <= puts[k]
        /\ notified' \in [Keys -> Nat]
        /\ \A i \in DOMAIN records : puts[records[i]] > 0
    BY <1>2, <2>1, <2>2 DEF Pending, IInv, StoredInv
  <2>4. faults' \in 0..MaxFaults /\ UNCHANGED <<issued, puts, calls, announced>>
    BY <1>2, <1>3 DEF Notify, TypeOK
  <2> QED BY <1>1, <2>1, <2>2, <2>3, <2>4, QueueKeeps
<1>4. CASE NotifyAgain(e)
  <2>1. PICK d \in Events : Queue(e, event[d].records)
    BY <1>4 DEF NotifyAgain
  <2>2. event[d].records \in Seq(Keys)
    BY TypeParts DEF IInv, EventType
  <2>3. faults' \in 0..MaxFaults
        /\ UNCHANGED <<issued, puts, notified, calls, announced>>
    BY <1>2, <1>4, NotificationAssumption DEF NotifyAgain, Fault, TypeOK
  <2> QED BY <1>1, <1>2, <2>1, <2>2, <2>3, QueueKeeps DEF IInv, StoredInv
<1> QED BY <1>3, <1>4

-----------------------------------------------------------------------------
(* The handler: an invocation moves on, its records stay.                   *)
MovedTo(e, state, pos, try) ==
    /\ event' \in [Events -> EventType]
    /\ event'[e].records = event[e].records /\ event'[e].state = state
    /\ event'[e].pos = pos /\ event'[e].try = try
    /\ \A d \in Events \ {e} : event'[d] = event[d]

LEMMA MoveKeeps ==
  ASSUME IInv, NEW e \in Events, NEW state, NEW pos \in Nat, NEW try,
         MovedTo(e, state, pos, try),
         state # "free", event[e].state # "free",
         state = "queued" => try <= MaxRetries,
         state \in {"running", "awaiting", "done"} =>
           /\ pos >= 1
           /\ \A i \in DOMAIN event[e].records :
                i < pos /\ event[e].records[i] \in Originals =>
                  announced[event[e].records[i]] > 0,
         state = "done" => pos \notin DOMAIN event[e].records,
         faults' \in 0..MaxFaults,
         calls' \subseteq calls,
         UNCHANGED <<issued, puts, notified, announced>>
  PROVE  IInv'
<1>1. TypeOK'
  BY DEF MovedTo, IInv, TypeOK, EventType
<1>2. EventInv' /\ PassedInv'
  BY DEF MovedTo, IInv, EventInv, PassedInv
<1>3. StoredInv' /\ CallInv'
  BY DEF MovedTo, IInv, StoredInv, CallInv
<1> QED BY <1>1, <1>2, <1>3 DEF IInv

LEMMA InvokeKeeps ==
  ASSUME IInv, NEW e \in Events, Invoke(e) PROVE IInv'
<1>1. TypeOK /\ event[e] \in EventType /\ event \in [Events -> EventType]
  BY TypeParts DEF IInv
<1>2. event[e].try + 1 \in 0..MaxRetries + 1 /\ event[e].state = "queued"
  BY <1>1, NotificationAssumption DEF Invoke, IInv, EventInv, EventType
<1>3. MovedTo(e, "running", 1, event[e].try + 1)
  BY <1>1, <1>2 DEF Invoke, MovedTo, EventType
<1>4. \A i \in DOMAIN event[e].records : ~(i < 1)
  BY <1>1 DEF EventType
<1>5. /\ 1 \in Nat /\ 1 >= 1 /\ faults' \in 0..MaxFaults
      /\ calls' \subseteq calls
      /\ UNCHANGED <<issued, puts, notified, announced>>
  BY <1>1 DEF Invoke, TypeOK
<1> QED BY <1>2, <1>3, <1>4, <1>5, MoveKeeps

(* The loop goes on behind a record that is no original, or announced.      *)
LEMMA PassKeeps ==
  ASSUME IInv, NEW e \in Events,
         event[e].state \in {"running", "awaiting"},
         event[e].pos \in DOMAIN event[e].records,
         Record(e) \in Originals => announced[Record(e)] > 0,
         event' = [event EXCEPT ![e].pos = @ + 1, ![e].state = "running"],
         calls' \subseteq calls,
         UNCHANGED <<issued, puts, notified, announced, faults>>
  PROVE  IInv'
<1>1. TypeOK /\ event[e] \in EventType /\ event \in [Events -> EventType]
  BY TypeParts DEF IInv
<1>2. MovedTo(e, "running", event[e].pos + 1, event[e].try)
  <2>1. event[e].pos + 1 \in Nat
    BY <1>1 DEF EventType
  <2>2. /\ event'[e] = [event[e] EXCEPT !.pos = event[e].pos + 1,
                                        !.state = "running"]
        /\ \A d \in Events \ {e} : event'[d] = event[d]
        /\ event' = [event EXCEPT ![e] = event'[e]]
    BY <1>1
  <2>3. /\ event'[e].records = event[e].records
        /\ event'[e].pos = event[e].pos + 1
        /\ event'[e].try = event[e].try /\ event'[e].state = "running"
        /\ event'[e] \in EventType
    BY <1>1, <2>1, <2>2 DEF EventType
  <2> QED BY <1>1, <2>2, <2>3 DEF MovedTo
<1>3. \A i \in DOMAIN event[e].records :
        i < event[e].pos + 1 /\ event[e].records[i] \in Originals =>
          announced[event[e].records[i]] > 0
  <2>1. \A i \in DOMAIN event[e].records :
          i < event[e].pos + 1 => i < event[e].pos \/ i = event[e].pos
    BY <1>1 DEF EventType
  <2> QED BY <2>1 DEF IInv, PassedInv, Record
<1>4. event[e].pos + 1 \in Nat /\ event[e].pos + 1 >= 1
  BY <1>1 DEF EventType
<1> QED BY <1>1, <1>2, <1>3, <1>4, MoveKeeps DEF TypeOK

LEMMA SkipKeeps ==
  ASSUME IInv, NEW e \in Events, SkipRecord(e) PROVE IInv'
<1>1. TypeOK /\ event[e] \in EventType /\ event \in [Events -> EventType]
  BY TypeParts DEF IInv
<1>2. MovedTo(e, "running", event[e].pos + 1, event[e].try)
  BY <1>1 DEF SkipRecord, InLoop, MovedTo, EventType
<1>3. \A i \in DOMAIN event[e].records :
        i < event[e].pos + 1 /\ event[e].records[i] \in Originals =>
          announced[event[e].records[i]] > 0
  <2>1. \A i \in DOMAIN event[e].records :
          i < event[e].pos + 1 => i < event[e].pos \/ i = event[e].pos
    BY <1>1 DEF EventType
  <2> QED BY <2>1 DEF SkipRecord, InLoop, Parses, Record, IInv, PassedInv
<1>4. event[e].pos + 1 \in Nat /\ event[e].pos + 1 >= 1
  BY <1>1 DEF EventType
<1> QED BY <1>1, <1>2, <1>3, <1>4, MoveKeeps
        DEF SkipRecord, InLoop, TypeOK

LEMMA ReturnKeeps ==
  ASSUME IInv, NEW e \in Events, Return(e) PROVE IInv'
<1>1. TypeOK /\ event[e] \in EventType /\ event \in [Events -> EventType]
  BY TypeParts DEF IInv
<1>2. MovedTo(e, "done", event[e].pos, event[e].try)
  BY <1>1 DEF Return, MovedTo, EventType
<1>3. /\ event[e].state = "running" /\ event[e].pos \in Nat
      /\ event[e].pos \notin DOMAIN event[e].records
  BY <1>1 DEF Return, InLoop, EventType
<1>4. /\ event[e].pos >= 1
      /\ \A i \in DOMAIN event[e].records :
           i < event[e].pos /\ event[e].records[i] \in Originals =>
             announced[event[e].records[i]] > 0
  BY <1>3 DEF IInv, EventInv, PassedInv
<1> QED BY <1>1, <1>2, <1>3, <1>4, MoveKeeps DEF Return, TypeOK

(* The invocation fails, by a timeout or a bad answer.                      *)
LEMMA FailKeeps ==
  ASSUME IInv, NEW e \in Events,
         event[e].state \in {"running", "awaiting"},
         event' = [event EXCEPT ![e].state = AfterRejection(e)],
         faults' \in 0..MaxFaults, calls' \subseteq calls,
         UNCHANGED <<issued, puts, notified, announced>>
  PROVE  IInv'
<1>1. TypeOK /\ event[e] \in EventType /\ event \in [Events -> EventType]
  BY TypeParts DEF IInv
<1>2. /\ AfterRejection(e) \in {"queued", "dropped"}
      /\ AfterRejection(e) = "queued" => event[e].try <= MaxRetries
  BY DEF AfterRejection
<1>3. MovedTo(e, AfterRejection(e), event[e].pos, event[e].try)
  BY <1>1, <1>2 DEF MovedTo, EventType
<1>4. event[e].pos \in Nat
  BY <1>1 DEF EventType
<1> QED BY <1>1, <1>2, <1>3, <1>4, MoveKeeps

LEMMA RejectedKeeps ==
  ASSUME IInv, NEW e \in Events, Rejected(e) PROVE IInv'
<1>1. faults' \in 0..MaxFaults
  BY NotificationAssumption DEF Rejected, Fault, IInv, TypeOK
<1> QED BY <1>1, FailKeeps DEF Rejected

(* The request is made.                                                     *)
LEMMA PostKeeps ==
  ASSUME IInv, NEW e \in Events, PostRecord(e) PROVE IInv'
<1>1. TypeOK /\ event[e] \in EventType /\ event \in [Events -> EventType]
  BY TypeParts DEF IInv
<1> DEFINE new == [from |-> e, try |-> event[e].try, pos |-> event[e].pos,
                   key |-> Record(e), state |-> "received"]
<1>2. MovedTo(e, "awaiting", event[e].pos, event[e].try)
  BY <1>1 DEF PostRecord, MovedTo, EventType
<1>3. /\ event[e].state = "running" /\ event[e].pos \in DOMAIN event[e].records
      /\ Record(e) = event[e].records[event[e].pos] /\ Record(e) \in Originals
      /\ calls' = calls \cup {new}
      /\ UNCHANGED <<issued, puts, notified, announced, faults>>
  BY DEF PostRecord, InLoop, Record, Parses
<1>4. new \in CallType
  BY <1>1, <1>3 DEF CallType, EventType, Keys
<1>5. TypeOK'
  BY <1>1, <1>2, <1>3, <1>4 DEF MovedTo, TypeOK, EventType
<1>6. EventInv' /\ PassedInv'
  BY <1>2, <1>3 DEF MovedTo, IInv, EventInv, PassedInv
<1>7. StoredInv'
  BY <1>2, <1>3 DEF MovedTo, IInv, StoredInv
<1>8. CallInv'
  BY <1>2, <1>3 DEF MovedTo, IInv, CallInv
<1> QED BY <1>5, <1>6, <1>7, <1>8 DEF IInv

-----------------------------------------------------------------------------
(* The webhook.                                                             *)
LEMMA StrayKeeps ==
  ASSUME IInv, NEW k \in Keys, StrayCall(k) PROVE IInv'
<1> DEFINE new == [from |-> 0, try |-> 0, pos |-> 0, key |-> k,
                   state |-> "received"]
<1>1. /\ calls' = calls \cup {new} /\ k \notin Originals /\ 0 \notin Events
      /\ UNCHANGED <<issued, puts, notified, event, announced>>
  BY NotificationAssumption DEF StrayCall, Parses
<1>2. faults' \in 0..MaxFaults
  BY NotificationAssumption DEF StrayCall, Fault, IInv, TypeOK
<1>3. new \in CallType
  BY DEF CallType
<1>4. TypeOK'
  BY <1>1, <1>2, <1>3 DEF IInv, TypeOK
<1>5. EventInv' /\ PassedInv' /\ StoredInv'
  BY <1>1 DEF IInv, EventInv, PassedInv, StoredInv
<1>6. CallInv'
  BY <1>1 DEF IInv, CallInv
<1> QED BY <1>4, <1>5, <1>6 DEF IInv

(* A call changes its state, and what is announced only grows.              *)
LEMMA AnswerKeeps ==
  ASSUME IInv, NEW call \in calls, NEW state \in {"ok", "error"},
         Move(call, state),
         announced' \in [Originals -> Nat],
         \A v \in Originals : announced'[v] >= announced[v],
         state = "ok" /\ call.key \in Originals => announced'[call.key] > 0,
         faults' \in 0..MaxFaults,
         UNCHANGED <<issued, puts, notified, event>>
  PROVE  IInv'
<1> DEFINE new == [call EXCEPT !.state = state]
<1>1. TypeOK /\ calls \subseteq CallType /\ announced \in [Originals -> Nat]
      /\ event \in [Events -> EventType]
  BY TypeParts DEF IInv
<1>2. /\ new \in CallType /\ new.state = state /\ new.from = call.from
      /\ new.pos = call.pos /\ new.key = call.key
  BY <1>1 DEF CallType
<1>3. \A c \in calls' : c \in calls \/ c = new
  BY DEF Move
<1>4. TypeOK'
  BY <1>1, <1>2, <1>3 DEF TypeOK
<1>5. EventInv' /\ StoredInv'
  BY <1>2, <1>3 DEF IInv, EventInv, StoredInv
<1>6. \A v \in Originals : announced[v] > 0 => announced'[v] > 0
  BY <1>1
<1>7. PassedInv'
  BY <1>6 DEF IInv, PassedInv
<1>8. CallInv'
  BY <1>2, <1>3, <1>6 DEF IInv, CallInv
<1> QED BY <1>4, <1>5, <1>7, <1>8 DEF IInv

LEMMA WebhookKeeps ==
  ASSUME IInv, NEW call \in calls, Webhook(call) PROVE IInv'
<1>1. TypeOK /\ announced \in [Originals -> Nat] /\ calls \subseteq CallType
      /\ faults \in 0..MaxFaults /\ event \in [Events -> EventType]
  BY TypeParts DEF IInv, TypeOK
<1>2. CASE WebhookIgnores(call)
  BY <1>1, <1>2, AnswerKeeps DEF WebhookIgnores, Parses
<1>3. CASE WebhookPublishes(call)
  <2>1. call.key \in Originals /\ UNCHANGED <<issued, puts, notified, event>>
    BY <1>3 DEF WebhookPublishes, Parses
  <2>2. faults' \in 0..MaxFaults
    BY <1>1, <1>3, NotificationAssumption DEF WebhookPublishes, Fault, Fault0
  <2>3. Accepted(call) => /\ announced' \in [Originals -> Nat]
                          /\ announced'[call.key] > 0
                          /\ \A v \in Originals : announced'[v] >= announced[v]
    BY <1>1, <2>1 DEF Accepted
  <2>4. \A v \in Originals : announced[v] >= announced[v]
    BY <1>1
  <2> QED BY <1>1, <1>3, <2>1, <2>2, <2>3, <2>4, AnswerKeeps
          DEF WebhookPublishes
<1>4. CASE Response(call)
  <2>1. /\ calls' \subseteq calls
        /\ UNCHANGED <<issued, puts, notified, announced, faults>>
    BY <1>4 DEF Response
  <2>2. CASE ~Awaits(call)
    BY <1>1, <1>4, <2>1, <2>2
    DEF Response, IInv, TypeOK, EventInv, StoredInv, CallInv, PassedInv
  <2>3. CASE Awaits(call) /\ call.state = "ok"
    <3>1. /\ call.from \in Events /\ event[call.from].state = "awaiting"
          /\ event[call.from].pos = call.pos
      BY <2>3 DEF Awaits
    <3>2. /\ call.pos \in DOMAIN event[call.from].records
          /\ Record(call.from) = call.key
          /\ call.key \in Originals => announced[call.key] > 0
      BY <2>3, <3>1 DEF IInv, CallInv, Record
    <3> QED BY <1>4, <2>1, <2>3, <3>1, <3>2, PassKeeps DEF Response
  <2>4. CASE Awaits(call) /\ call.state = "error"
    BY <1>1, <1>4, <2>1, <2>4, FailKeeps DEF Response, Awaits
  <2> QED BY <1>4, <2>2, <2>3, <2>4 DEF Response
<1> QED BY <1>2, <1>3, <1>4 DEF Webhook

-----------------------------------------------------------------------------
(* The invariant holds.                                                     *)
LEMMA Invariance == Spec => []IInv
<1>1. IInv /\ [Next]_vars => IInv'
  BY BucketKeeps, NotifyKeeps, InvokeKeeps, SkipKeeps, PostKeeps, ReturnKeeps,
     RejectedKeeps, StrayKeeps, WebhookKeeps, StutterKeeps
  DEF Next, Bucket, Handler
<1> QED BY InitHolds, <1>1, PTL DEF Spec

(* Types; in particular no notification is tried more than MaxRetries + 1   *)
(* times.                                                                   *)
THEOREM TypeCorrect == Spec => []TypeOK
<1>1. IInv => TypeOK
  BY DEF IInv
<1> QED BY Invariance, <1>1, PTL

(* handler: it returns only when all its originals are announced.           *)
THEOREM ReturnsAfterAnnouncing == Spec => []DoneMeansAnnounced
<1>1. IInv => DoneMeansAnnounced
  <2> SUFFICES ASSUME IInv, NEW e \in Events, event[e].state = "done",
                      NEW v \in OriginalsOf(e)
               PROVE  announced[v] > 0
    BY DEF DoneMeansAnnounced
  <2>1. PICK i \in DOMAIN event[e].records : event[e].records[i] = v
    BY DEF OriginalsOf
  <2>2. /\ event[e].records \in Seq(Keys) /\ event[e].pos \in Nat
        /\ event[e].pos >= 1 /\ event[e].pos \notin DOMAIN event[e].records
    BY TypeParts DEF IInv, EventInv, EventType
  <2>3. i < event[e].pos
    BY <2>2
  <2> QED BY <2>1, <2>3 DEF IInv, PassedInv, OriginalsOf
<1> QED BY Invariance, <1>1, PTL

-----------------------------------------------------------------------------
(* How often an upload is announced: every announcement is paid for by a    *)
(* notification or a fault.                                                 *)

(* No batch names a key twice, and a call was made by an attempt, or for a  *)
(* record, that its notification has left behind or is waiting at.          *)
NoRepeats(records) ==
    \A i, j \in DOMAIN records : records[i] = records[j] => i = j
Behind(c) ==
    \/ c.try < event[c.from].try
    \/ c.try = event[c.from].try /\ c.pos < event[c.from].pos
    \/ /\ c.try = event[c.from].try /\ c.pos = event[c.from].pos
       /\ event[c.from].state # "running"
OrderInv ==
    /\ \A e \in Events : NoRepeats(event[e].records)
    /\ \A c \in calls : c.from \in Events => Behind(c)

(* What may still become an announcement of v without another fault: a      *)
(* notification whose loop is yet to reach v (again, if the answer under    *)
(* way will reject the invocation), and a call that is not answered.        *)
ErrorComing(e) == \E c \in calls : /\ c.state = "error" /\ c.from = e
                                   /\ c.try = event[e].try
                                   /\ c.pos = event[e].pos
Reaches(e, i) ==
    \/ event[e].state = "queued"
    \/ event[e].state = "running" /\ i >= event[e].pos
    \/ event[e].state = "awaiting" /\ (i > event[e].pos \/ ErrorComing(e))
Ahead(v) == {e \in Events : \E i \in DOMAIN event[e].records :
                              event[e].records[i] = v /\ Reaches(e, i)}
InFlight(v) == {c \in calls : c.state = "received" /\ c.key = v}
Account(v) ==
    /\ IsFiniteSet(Ahead(v)) /\ IsFiniteSet(InFlight(v))
    /\ announced[v] + Cardinality(Ahead(v)) + Cardinality(InFlight(v))
         <= notified[v] + faults
AccountInv == OrderInv /\ \A v \in Originals : Account(v)

LEMMA AccountInit == Init => AccountInv
<1> SUFFICES ASSUME Init PROVE AccountInv
  OBVIOUS
<1>1. OrderInv
  BY DEF Init, OrderInv, NoRepeats, FreeEvent
<1>2. ASSUME NEW v \in Originals PROVE Account(v)
  <2>1. Ahead(v) = {} /\ InFlight(v) = {}
    BY DEF Init, Ahead, InFlight, FreeEvent
  <2>2. announced[v] = 0 /\ notified[v] = 0 /\ faults = 0
    BY DEF Init, Keys
  <2> QED BY <2>1, <2>2, FS_EmptySet DEF Account
<1> QED BY <1>1, <1>2 DEF AccountInv

-----------------------------------------------------------------------------
(* Calls stay behind their notifications.                                   *)
GoesOn(e) ==
    /\ event'[e].records = event[e].records
    /\ \/ event'[e] = event[e]
       \/ event'[e].try > event[e].try
       \/ event'[e].try = event[e].try /\ event'[e].pos > event[e].pos
       \/ /\ event'[e].try = event[e].try /\ event'[e].pos = event[e].pos
          /\ event'[e].state # "running"

LEMMA OrderKept ==
  ASSUME IInv, IInv', OrderInv,
         \A e \in Events :
           GoesOn(e) \/ (event[e].state = "free" /\ NoRepeats(event'[e].records)),
         \A c \in calls' : c.from \in Events =>
           \/ Behind(c)'
           \/ \E d \in calls :
                d.from = c.from /\ d.try = c.try /\ d.pos = c.pos
  PROVE  OrderInv'
<1>1. \A e \in Events : NoRepeats(event'[e].records)
  BY DEF OrderInv, GoesOn
<1>2. ASSUME NEW c \in calls', c.from \in Events PROVE Behind(c)'
  <2>1. CASE Behind(c)'
    BY <2>1
  <2>2. CASE \E d \in calls :
               d.from = c.from /\ d.try = c.try /\ d.pos = c.pos
    <3> DEFINE e == c.from
    <3>1. PICK d \in calls : d.from = e /\ d.try = c.try /\ d.pos = c.pos
      BY <2>2
    <3>2. Behind(d) /\ event[e].state # "free"
      BY <1>2, <3>1 DEF IInv, CallInv, OrderInv
    <3>3. /\ event[e].try \in Nat /\ event[e].pos \in Nat
          /\ event'[e].try \in Nat /\ event'[e].pos \in Nat
          /\ c.try \in Nat /\ c.pos \in Nat
      <4>1. event[e] \in EventType /\ event'[e] \in EventType
        BY <1>2 DEF IInv, TypeOK, EventType
      <4>2. \A r \in EventType : r.try \in Nat /\ r.pos \in Nat
        BY NotificationAssumption DEF EventType
      <4>3. c.try \in Nat /\ c.pos \in Nat
        BY <3>1 DEF IInv, TypeOK, CallType
      <4> QED BY <4>1, <4>2, <4>3
    <3>4. GoesOn(e)
      BY <1>2, <3>2
    <3> QED BY <3>1, <3>2, <3>3, <3>4 DEF Behind, GoesOn
  <2> QED BY <1>2, <2>1, <2>2
<1> QED BY <1>1, <1>2 DEF OrderInv

LEMMA BatchesDoNotRepeat ==
  \A records \in Batches : records \in Seq(Keys) /\ NoRepeats(records)
<1> SUFFICES ASSUME NEW records \in Batches
             PROVE  records \in Seq(Keys) /\ NoRepeats(records)
  OBVIOUS
<1>1. CASE records \in {<<k>> : k \in Pending}
  <2>1. PICK k \in Pending : records = <<k>>
    BY <1>1
  <2> QED BY <2>1 DEF Pending, NoRepeats
<1>2. CASE records \notin {<<k>> : k \in Pending}
  <2>1. PICK k \in Pending, l \in Pending : k # l /\ records = <<k, l>>
    BY <1>2 DEF Batches
  <2> QED BY <2>1 DEF Pending, NoRepeats
<1> QED BY <1>1, <1>2

LEMMA OrderStep ==
  ASSUME IInv, IInv', OrderInv, [Next]_vars PROVE OrderInv'
<1>1. /\ event \in [Events -> EventType] /\ calls \subseteq CallType
  BY TypeParts DEF IInv
<1>2. ASSUME UNCHANGED event PROVE \A e \in Events : GoesOn(e)
  BY <1>2 DEF GoesOn
<1>3. ASSUME calls' \subseteq calls
      PROVE  \A c \in calls' : \E d \in calls :
               d.from = c.from /\ d.try = c.try /\ d.pos = c.pos
  BY <1>3
<1>4. CASE UNCHANGED <<event, calls>>
  BY <1>2, <1>3, <1>4, OrderKept
<1>5. ASSUME NEW e \in Events, Notify(e) \/ NotifyAgain(e) PROVE OrderInv'
  <2>1. /\ UNCHANGED calls /\ event[e].state = "free"
        /\ \E records : NoRepeats(records) /\ Queue(e, records)
    BY <1>5, BatchesDoNotRepeat
    DEF Notify, NotifyAgain, OrderInv, IsNext, FreeEvents
  <2>2. /\ NoRepeats(event'[e].records)
        /\ \A d \in Events \ {e} : GoesOn(d)
    BY <1>1, <2>1 DEF Queue, GoesOn
  <2> QED BY <1>3, <2>1, <2>2, OrderKept
<1>6. ASSUME NEW e \in Events,
             Invoke(e) \/ SkipRecord(e) \/ Return(e) \/ Rejected(e)
      PROVE  OrderInv'
  <2>1. /\ UNCHANGED calls
        /\ event[e].try \in Nat /\ event[e].pos \in Nat
    BY <1>1, <1>6, NotificationAssumption
    DEF EventType, Invoke, SkipRecord, Return, Rejected
  <2>2. \A d \in Events \ {e} : GoesOn(d)
    BY <1>1, <1>6 DEF Invoke, SkipRecord, Return, Rejected, GoesOn
  <2>3. GoesOn(e)
    <3>1. CASE Invoke(e)
      BY <1>1, <2>1, <3>1 DEF Invoke, GoesOn, EventType
    <3>2. CASE SkipRecord(e)
      BY <1>1, <2>1, <3>2 DEF SkipRecord, GoesOn, EventType
    <3>3. CASE Return(e)
      BY <1>1, <2>1, <3>3 DEF Return, GoesOn, EventType
    <3>4. CASE Rejected(e)
      BY <1>1, <2>1, <3>4 DEF Rejected, AfterRejection, GoesOn, EventType
    <3> QED BY <1>6, <3>1, <3>2, <3>3, <3>4
  <2> QED BY <1>3, <2>1, <2>2, <2>3, OrderKept
<1>7. ASSUME NEW e \in Events, PostRecord(e) PROVE OrderInv'
  <2> DEFINE new == [from |-> e, try |-> event[e].try, pos |-> event[e].pos,
                     key |-> Record(e), state |-> "received"]
  <2>1. /\ calls' = calls \cup {new}
        /\ event' = [event EXCEPT ![e].state = "awaiting"]
    BY <1>7 DEF PostRecord
  <2>2. \A d \in Events : GoesOn(d)
    BY <1>1, <2>1 DEF GoesOn, EventType
  <2>3. ASSUME NEW c, c = new PROVE Behind(c)'
    BY <1>1, <2>1, <2>3 DEF Behind, EventType
  <2>4. \A c \in calls' : c \in calls \/ Behind(c)'
    BY <2>1, <2>3
  <2> HIDE DEF new
  <2> QED BY <2>2, <2>4, OrderKept
<1>8. ASSUME NEW k \in Keys, StrayCall(k) PROVE OrderInv'
  <2>1. UNCHANGED event /\ \A c \in calls' : c \in calls \/ c.from \notin Events
    BY <1>8, NotificationAssumption DEF StrayCall
  <2> QED BY <1>2, <2>1, OrderKept
<1>9. ASSUME NEW call \in calls, Webhook(call) PROVE OrderInv'
  <2>1. CASE WebhookIgnores(call) \/ WebhookPublishes(call)
    <3>1. UNCHANGED event /\ \E state : Move(call, state)
      BY <2>1 DEF WebhookIgnores, WebhookPublishes
    <3>2. \A c \in calls' : \E d \in calls :
            d.from = c.from /\ d.try = c.try /\ d.pos = c.pos
      BY <1>1, <3>1 DEF Move, CallType
    <3> QED BY <1>2, <3>1, <3>2, OrderKept
  <2>2. CASE Response(call)
    <3>1. calls' \subseteq calls
      BY <2>2 DEF Response
    <3>2. \A e \in Events : GoesOn(e)
      <4>1. CASE ~Awaits(call)
        BY <2>2, <4>1 DEF Response, GoesOn
      <4>2. CASE Awaits(call)
        <5> DEFINE e == call.from
        <5>1. e \in Events /\ event[e].pos \in Nat
          BY <1>1, <4>2 DEF Awaits, EventType
        <5>2. \A d \in Events \ {e} : GoesOn(d)
          BY <1>1, <2>2, <4>2, <5>1 DEF Response, GoesOn
        <5>3. CASE call.state = "ok"
          <6>1. event' = [event EXCEPT ![e].pos = @ + 1, ![e].state = "running"]
            BY <2>2, <4>2, <5>3 DEF Response
          <6>2. GoesOn(e)
            BY <1>1, <5>1, <6>1 DEF GoesOn, EventType
          <6> QED BY <5>2, <6>2
        <5>4. CASE call.state # "ok"
          <6>1. event' = [event EXCEPT ![e].state = AfterRejection(e)]
            BY <2>2, <4>2, <5>4 DEF Response
          <6>2. GoesOn(e)
            BY <1>1, <5>1, <6>1 DEF AfterRejection, GoesOn, EventType
          <6> QED BY <5>2, <6>2
        <5> QED BY <5>3, <5>4
      <4> QED BY <4>1, <4>2
    <3> QED BY <1>3, <3>1, <3>2, OrderKept
  <2> QED BY <1>9, <2>1, <2>2 DEF Webhook
<1> QED BY <1>4, <1>5, <1>6, <1>7, <1>8, <1>9
        DEF Next, Bucket, Handler, UploadRequest, PutObject, vars

-----------------------------------------------------------------------------
(* What is ahead of an original, step by step.                              *)
LEMMA SetsGrow ==
  ASSUME NEW A, IsFiniteSet(A), NEW B, NEW x
  PROVE  /\ B \subseteq A =>
              IsFiniteSet(B) /\ Cardinality(B) <= Cardinality(A)
         /\ B \subseteq A \cup {x} =>
              IsFiniteSet(B) /\ Cardinality(B) <= Cardinality(A) + 1
         /\ x \in A /\ B \subseteq A \ {x} =>
              IsFiniteSet(B) /\ Cardinality(B) + 1 <= Cardinality(A)
<1>1. Cardinality(A) \in Nat
  BY FS_CardinalityType
<1>2. ASSUME B \subseteq A
      PROVE  IsFiniteSet(B) /\ Cardinality(B) <= Cardinality(A)
  BY <1>2, FS_Subset
<1>3. ASSUME B \subseteq A \cup {x}
      PROVE  IsFiniteSet(B) /\ Cardinality(B) <= Cardinality(A) + 1
  <2>1. /\ IsFiniteSet(A \cup {x})
        /\ Cardinality(A \cup {x}) \in {Cardinality(A), Cardinality(A) + 1}
    BY FS_AddElement
  <2>2. /\ IsFiniteSet(B) /\ Cardinality(B) \in Nat
        /\ Cardinality(B) <= Cardinality(A \cup {x})
    BY <1>3, <2>1, FS_Subset, FS_CardinalityType
  <2> QED BY <1>1, <2>1, <2>2
<1>4. ASSUME x \in A, B \subseteq A \ {x}
      PROVE  IsFiniteSet(B) /\ Cardinality(B) + 1 <= Cardinality(A)
  <2>1. IsFiniteSet(A \ {x}) /\ Cardinality(A \ {x}) = Cardinality(A) - 1
    BY <1>4, FS_RemoveElement
  <2>2. /\ IsFiniteSet(B) /\ Cardinality(B) \in Nat
        /\ Cardinality(B) <= Cardinality(A \ {x})
    BY <1>4, <2>1, FS_Subset, FS_CardinalityType
  <2> QED BY <1>1, <2>1, <2>2
<1> QED BY <1>2, <1>3, <1>4

(* No step lets an announcement come closer for nothing: less is ahead; or  *)
(* one notification more, and it is paid for; or a request takes the place  *)
(* of a loop, or an announcement that of a request.                         *)
LEMMA Balance ==
  ASSUME NEW v \in Originals, IInv, IInv', Account(v), NEW x, NEW c,
         \/ /\ Ahead(v)' \subseteq Ahead(v) /\ InFlight(v)' \subseteq InFlight(v)
            /\ announced'[v] = announced[v]
            /\ notified'[v] + faults' >= notified[v] + faults
         \/ /\ Ahead(v)' \subseteq Ahead(v) \cup {x}
            /\ InFlight(v)' \subseteq InFlight(v)
            /\ announced'[v] = announced[v]
            /\ notified'[v] + faults' >= notified[v] + faults + 1
         \/ /\ x \in Ahead(v) /\ Ahead(v)' \subseteq Ahead(v) \ {x}
            /\ InFlight(v)' \subseteq InFlight(v) \cup {c}
            /\ announced'[v] = announced[v]
            /\ UNCHANGED <<notified, faults>>
         \/ /\ c \in InFlight(v) /\ InFlight(v)' \subseteq InFlight(v) \ {c}
            /\ Ahead(v)' \subseteq Ahead(v)
            /\ announced'[v] = announced[v] + 1
            /\ UNCHANGED <<notified, faults>>
         \/ /\ c \in InFlight(v) /\ InFlight(v)' \subseteq InFlight(v) \ {c}
            /\ Ahead(v)' \subseteq Ahead(v) \cup {x}
            /\ announced'[v] \in {announced[v], announced[v] + 1}
            /\ UNCHANGED notified /\ faults' = faults + 1
  PROVE  Account(v)'
<1> DEFINE a == Cardinality(Ahead(v))    b == Cardinality(InFlight(v))
           a2 == Cardinality(Ahead(v)')  b2 == Cardinality(InFlight(v)')
<1>1. /\ IsFiniteSet(Ahead(v)) /\ IsFiniteSet(InFlight(v))
      /\ announced[v] + a + b <= notified[v] + faults
  BY DEF Account
<1>2. IsFiniteSet(Ahead(v)') /\ IsFiniteSet(InFlight(v)')
  BY <1>1, SetsGrow
<1>3. /\ Ahead(v)' \subseteq Ahead(v) => a2 <= a
      /\ Ahead(v)' \subseteq Ahead(v) \cup {x} => a2 <= a + 1
      /\ x \in Ahead(v) /\ Ahead(v)' \subseteq Ahead(v) \ {x} => a2 + 1 <= a
  BY <1>1, SetsGrow
<1>4. /\ InFlight(v)' \subseteq InFlight(v) => b2 <= b
      /\ InFlight(v)' \subseteq InFlight(v) \cup {c} => b2 <= b + 1
      /\ c \in InFlight(v) /\ InFlight(v)' \subseteq InFlight(v) \ {c} =>
           b2 + 1 <= b
  BY <1>1, SetsGrow
<1>5. a \in Nat /\ b \in Nat /\ a2 \in Nat /\ b2 \in Nat
  BY <1>1, <1>2, FS_CardinalityType
<1>6. /\ announced[v] \in Nat /\ announced'[v] \in Nat
      /\ notified[v] \in Nat /\ notified'[v] \in Nat
      /\ faults \in Nat /\ faults' \in Nat
  BY NotificationAssumption DEF IInv, TypeOK, Keys
<1> HIDE DEF a, b, a2, b2
<1>7. announced'[v] + a2 + b2 <= notified'[v] + faults'
  BY <1>1, <1>3, <1>4, <1>5, <1>6
<1> QED BY <1>2, <1>7 DEF Account, a2, b2

LEMMA AheadShrinks ==
  ASSUME NEW v, NEW X,
         \A e \in Events \ X :
           /\ event'[e].records = event[e].records
           /\ \A i \in DOMAIN event[e].records : Reaches(e, i)' => Reaches(e, i)
  PROVE  Ahead(v)' \subseteq Ahead(v) \cup X
  BY DEF Ahead

(* A notification that stands still gets nothing new to repeat, unless a    *)
(* bad answer to it is new.                                                 *)
LEMMA ReachesStays ==
  ASSUME NEW e, event'[e] = event[e],
         \A c \in calls' : c.state = "error" /\ c.from = e => c \in calls
  PROVE  /\ event'[e].records = event[e].records
         /\ \A i \in DOMAIN event[e].records : Reaches(e, i)' => Reaches(e, i)
  BY DEF Reaches, ErrorComing

(* Requests, stored objects, and the steps of a loop that make no request.  *)
LEMMA QuietStep ==
  ASSUME NEW v \in Originals, IInv, IInv', OrderInv, Account(v),
         \/ UNCHANGED <<notified, event, calls, announced, faults>>
         \/ \E e \in Events : Invoke(e) \/ SkipRecord(e) \/ Return(e)
         \/ \E k \in Keys : StrayCall(k)
         \/ \E call \in calls : WebhookIgnores(call) \/ Response(call)
  PROVE  Account(v)'
<1>1. event \in [Events -> EventType] /\ calls \subseteq CallType
      /\ faults \in Nat /\ notified[v] \in Nat
  BY TypeParts DEF IInv, Keys
<1>2. /\ announced' = announced /\ notified' = notified
      /\ faults' = faults \/ faults' = faults + 1
  BY DEF Invoke, SkipRecord, Return, StrayCall, Fault, WebhookIgnores, Response
<1>3. \A c \in calls' : \/ c \in calls \/ c.state = "ok"
                        \/ c.state = "received" /\ c.key \notin Originals
  <2>1. CASE UNCHANGED calls
    BY <2>1
  <2>2. ASSUME NEW k \in Keys, StrayCall(k)
        PROVE  \A c \in calls' :
                 c \in calls \/ (c.state = "received" /\ c.key \notin Originals)
    BY <2>2 DEF StrayCall, Parses
  <2>3. ASSUME NEW call \in calls, WebhookIgnores(call)
        PROVE  \A c \in calls' : c \in calls \/ c.state = "ok"
    BY <1>1, <2>3 DEF WebhookIgnores, Move, CallType
  <2>4. ASSUME NEW call \in calls, Response(call)
        PROVE  calls' \subseteq calls
    BY <2>4 DEF Response
  <2> QED BY <2>1, <2>2, <2>3, <2>4 DEF Invoke, SkipRecord, Return
<1>4. /\ InFlight(v)' \subseteq InFlight(v)
      /\ \A c \in calls' : c.state = "error" => c \in calls
  BY <1>3 DEF InFlight
<1>5. ASSUME NEW e \in Events
      PROVE  /\ event'[e].records = event[e].records
             /\ \A i \in DOMAIN event[e].records :
                  Reaches(e, i)' => Reaches(e, i)
  <2>1. CASE event'[e] = event[e]
    BY <1>4, <2>1, ReachesStays
  <2>2. /\ event[e].pos \in Nat
        /\ \A i \in DOMAIN event[e].records : i \in Nat /\ i >= 1
    BY <1>1 DEF EventType
  <2>3. CASE Invoke(e)
    BY <1>1, <2>2, <2>3 DEF Invoke, Reaches, EventType
  <2>4. CASE SkipRecord(e)
    BY <1>1, <2>2, <2>4 DEF SkipRecord, InLoop, Reaches, EventType
  <2>5. CASE Return(e)
    BY <1>1, <2>5 DEF Return, Reaches, EventType
  <2>6. ASSUME NEW call \in calls, Response(call), call.from = e, Awaits(call)
        PROVE  /\ event'[e].records = event[e].records
               /\ \A i \in DOMAIN event[e].records :
                    Reaches(e, i)' => Reaches(e, i)
    <3>1. CASE call.state = "ok"
      <4>1. event' = [event EXCEPT ![e].pos = @ + 1, ![e].state = "running"]
        BY <2>6, <3>1 DEF Response
      <4>2. event[e].state = "awaiting"
        BY <2>6 DEF Awaits
      <4> QED BY <1>1, <2>2, <4>1, <4>2 DEF Reaches, EventType
    <3>2. CASE call.state = "error"
      <4>1. event' = [event EXCEPT ![e].state = AfterRejection(e)]
        BY <2>6, <3>2 DEF Response
      <4>2. event[e].state = "awaiting" /\ ErrorComing(e)
        BY <2>6, <3>2 DEF Awaits, ErrorComing
      <4> QED BY <1>1, <4>1, <4>2 DEF Reaches, EventType
    <3> QED BY <2>6, <3>1, <3>2 DEF Response
  <2>7. \/ event'[e] = event[e] \/ Invoke(e) \/ SkipRecord(e) \/ Return(e)
        \/ \E call \in calls : Response(call) /\ call.from = e /\ Awaits(call)
    <3>1. ASSUME NEW d \in Events, Invoke(d) \/ SkipRecord(d) \/ Return(d),
                 d # e
          PROVE  event'[e] = event[e]
      BY <1>1, <3>1 DEF Invoke, SkipRecord, Return
    <3>2. ASSUME NEW call \in calls, Response(call),
                 ~(call.from = e /\ Awaits(call))
          PROVE  event'[e] = event[e]
      BY <1>1, <3>2 DEF Response, Awaits
    <3> QED BY <3>1, <3>2 DEF StrayCall, WebhookIgnores
  <2> QED BY <2>1, <2>3, <2>4, <2>5, <2>6, <2>7
<1>6. Ahead(v)' \subseteq Ahead(v) \cup {}
  BY <1>5, AheadShrinks
<1>7. notified'[v] + faults' >= notified[v] + faults
  BY <1>1, <1>2
<1>8. Ahead(v)' \subseteq Ahead(v) /\ announced'[v] = announced[v]
  BY <1>2, <1>6
<1> QED BY <1>4, <1>7, <1>8, Balance

(* A notification, a repetition of one, a failure of an invocation.         *)
LEMMA PaidStep ==
  ASSUME NEW v \in Originals, IInv, IInv', OrderInv, Account(v),
         NEW e \in Events, Notify(e) \/ NotifyAgain(e) \/ Rejected(e)
  PROVE  Account(v)'
<1>1. /\ event \in [Events -> EventType] /\ faults \in Nat
      /\ notified \in [Keys -> Nat] /\ v \in Keys
  BY TypeParts DEF IInv, Keys
<1>2. /\ UNCHANGED <<announced, calls>>
      /\ \A d \in Events \ {e} : event'[d] = event[d]
  BY <1>1 DEF Notify, NotifyAgain, Rejected, Queue
<1>3. InFlight(v)' \subseteq InFlight(v)
  BY <1>2 DEF InFlight
<1>4. Ahead(v)' \subseteq Ahead(v) \cup {e}
  BY <1>2, ReachesStays, AheadShrinks
<1>5. CASE NotifyAgain(e) \/ Rejected(e)
  <2>1. notified' = notified /\ faults' = faults + 1
    BY <1>5 DEF NotifyAgain, Rejected, Fault
  <2>2. notified'[v] + faults' >= notified[v] + faults + 1
    BY <1>1, <2>1
  <2> QED BY <1>2, <1>3, <1>4, <2>2, Balance
<1>6. CASE Notify(e)
  <2>1. PICK records \in Batches :
          /\ Queue(e, records)
          /\ notified' = [k \in Keys |->
               IF \E i \in DOMAIN records : records[i] = k
               THEN notified[k] + 1 ELSE notified[k]]
    BY <1>6 DEF Notify
  <2>2. faults' = faults
    BY <1>6 DEF Notify
  <2>3. CASE \E i \in DOMAIN records : records[i] = v
    <3>1. notified'[v] = notified[v] + 1
      BY <1>1, <2>1, <2>3
    <3>2. notified'[v] + faults' >= notified[v] + faults + 1
      BY <1>1, <2>2, <3>1
    <3> QED BY <1>2, <1>3, <1>4, <3>2, Balance
  <2>4. CASE ~\E i \in DOMAIN records : records[i] = v
    <3>1. notified'[v] = notified[v]
      BY <1>1, <2>1, <2>4
    <3>2. event'[e].records = records
      BY <1>1, <2>1 DEF Queue
    <3>3. e \notin Ahead(v)'
      BY <2>4, <3>2 DEF Ahead
    <3>4. Ahead(v)' \subseteq Ahead(v)
      BY <1>4, <3>3
    <3>5. notified'[v] + faults' >= notified[v] + faults
      BY <1>1, <2>2, <3>1
    <3> QED BY <1>2, <1>3, <3>4, <3>5, Balance
  <2> QED BY <2>3, <2>4
<1> QED BY <1>5, <1>6

(* A request takes the place of the loop that makes it: the loop names v    *)
(* once, and no answer to the request can be there before the request.      *)
LEMMA PostStep ==
  ASSUME NEW v \in Originals, IInv, IInv', OrderInv, Account(v),
         NEW e \in Events, PostRecord(e)
  PROVE  Account(v)'
<1>1. event \in [Events -> EventType] /\ calls \subseteq CallType
      /\ faults \in Nat /\ notified[v] \in Nat
  BY TypeParts DEF IInv, Keys
<1> DEFINE new == [from |-> e, try |-> event[e].try, pos |-> event[e].pos,
                   key |-> Record(e), state |-> "received"]
<1>2. /\ event[e].state = "running" /\ event[e].pos \in DOMAIN event[e].records
      /\ event' = [event EXCEPT ![e].state = "awaiting"]
      /\ calls' = calls \cup {new}
      /\ UNCHANGED <<notified, announced, faults>>
  BY DEF PostRecord, InLoop
<1>3. /\ event'[e].state = "awaiting" /\ event'[e].pos = event[e].pos
      /\ event'[e].try = event[e].try /\ event'[e].records = event[e].records
      /\ \A d \in Events \ {e} : event'[d] = event[d]
  BY <1>1, <1>2 DEF EventType
<1>4. new.state = "received" /\ new.key = Record(e)
  OBVIOUS
<1>5. \A c \in calls' : c.state = "error" => c \in calls
  BY <1>2, <1>4
<1>6. ~ErrorComing(e)'
  <2> SUFFICES ASSUME ErrorComing(e)' PROVE FALSE
    OBVIOUS
  <2>1. PICK c \in calls : c.from = e /\ c.try = event[e].try
                           /\ c.pos = event[e].pos
    BY <1>3, <1>5 DEF ErrorComing
  <2>2. event[e].try \in Nat /\ event[e].pos \in Nat /\ Behind(c)
    BY <1>1, <2>1, NotificationAssumption DEF EventType, OrderInv
  <2> QED BY <1>2, <2>1, <2>2 DEF Behind
<1>7. \A i \in DOMAIN event[e].records : Reaches(e, i)' =>
        i \in Nat /\ i > event[e].pos
  BY <1>1, <1>3, <1>6 DEF Reaches, EventType
<1>8. Ahead(v)' \subseteq Ahead(v) \cup {e}
  BY <1>3, <1>5, ReachesStays, AheadShrinks
<1>9. CASE Record(e) = v
  <2>1. e \in Ahead(v)
    BY <1>1, <1>2, <1>9 DEF Ahead, Reaches, Record, EventType
  <2>2. e \notin Ahead(v)'
    <3>1. \A i \in DOMAIN event[e].records :
            event[e].records[i] = v => i = event[e].pos
      BY <1>2, <1>9 DEF OrderInv, NoRepeats, Record
    <3>2. event[e].pos \in Nat
      BY <1>1 DEF EventType
    <3> QED BY <1>3, <1>7, <3>1, <3>2 DEF Ahead
  <2>3. Ahead(v)' \subseteq Ahead(v) \ {e}
    BY <1>8, <2>2
  <2>4. InFlight(v)' \subseteq InFlight(v) \cup {new}
    BY <1>2 DEF InFlight
  <2> HIDE DEF new
  <2> QED BY <1>2, <2>1, <2>3, <2>4, Balance
<1>10. CASE Record(e) # v
  <2>1. e \in Ahead(v)' => e \in Ahead(v)
    <3> SUFFICES ASSUME e \in Ahead(v)' PROVE e \in Ahead(v)
      OBVIOUS
    <3>1. PICK i \in DOMAIN event[e].records :
            event[e].records[i] = v /\ i \in Nat /\ i > event[e].pos
      BY <1>3, <1>7 DEF Ahead
    <3>2. event[e].pos \in Nat /\ i >= event[e].pos
      BY <1>1, <3>1 DEF EventType
    <3> QED BY <1>2, <3>1, <3>2 DEF Ahead, Reaches
  <2>2. Ahead(v)' \subseteq Ahead(v)
    BY <1>8, <2>1
  <2>3. InFlight(v)' \subseteq InFlight(v)
    BY <1>2, <1>4, <1>10 DEF InFlight
  <2>4. notified'[v] + faults' >= notified[v] + faults
    BY <1>1, <1>2
  <2> QED BY <1>2, <2>2, <2>3, <2>4, Balance
<1> QED BY <1>9, <1>10

(* A publication answers its request; when the answer is an error, the loop *)
(* may come back to v, and the fault pays for that.                         *)
LEMMA PublishStep ==
  ASSUME NEW v \in Originals, IInv, IInv', OrderInv, Account(v),
         NEW call \in calls, WebhookPublishes(call)
  PROVE  Account(v)'
<1>1. /\ announced \in [Originals -> Nat] /\ calls \subseteq CallType
      /\ faults \in Nat /\ notified[v] \in Nat
  BY TypeParts DEF IInv, Keys
<1>2. /\ call.state = "received" /\ call.key \in Originals
      /\ UNCHANGED <<notified, event>>
  BY DEF WebhookPublishes, Parses
<1>3. PICK state \in {"ok", "error"} :
        /\ Move(call, state)
        /\ state = "ok" => Accepted(call) /\ faults' = faults
        /\ state = "error" => /\ Accepted(call) \/ UNCHANGED announced
                              /\ faults' = faults + 1
  BY DEF WebhookPublishes, Fault, Fault0
<1> DEFINE new == [call EXCEPT !.state = state]
<1>4. /\ new.state = state /\ new.from = call.from
      /\ calls' = (calls \ {call}) \cup {new}
  BY <1>1, <1>3 DEF CallType, Move
<1>5. InFlight(v)' \subseteq InFlight(v) \ {call}
  BY <1>3, <1>4 DEF InFlight
<1>6. Ahead(v)' \subseteq Ahead(v) \cup {call.from}
  <2>1. \A e \in Events \ {call.from} :
          \A c \in calls' : c.state = "error" /\ c.from = e => c \in calls
    BY <1>4
  <2> QED BY <1>2, <2>1, ReachesStays, AheadShrinks
<1>7. ASSUME state = "ok" PROVE Ahead(v)' \subseteq Ahead(v)
  <2>1. \A c \in calls' : c.state = "error" => c \in calls
    BY <1>4, <1>7
  <2>2. Ahead(v)' \subseteq Ahead(v) \cup {}
    BY <1>2, <2>1, ReachesStays, AheadShrinks
  <2> QED BY <2>2
<1>8. /\ Accepted(call) => announced'[v] = IF call.key = v THEN announced[v] + 1
                                           ELSE announced[v]
      /\ UNCHANGED announced => announced'[v] = announced[v]
  BY <1>1, <1>2 DEF Accepted
<1> HIDE DEF new
<1>9. CASE call.key = v
  <2>1. call \in InFlight(v)
    BY <1>2, <1>9 DEF InFlight
  <2> QED BY <1>2, <1>3, <1>5, <1>6, <1>7, <1>8, <1>9, <2>1, Balance
<1>10. CASE call.key # v
  <2>1. announced'[v] = announced[v] /\ InFlight(v)' \subseteq InFlight(v)
    BY <1>3, <1>5, <1>8, <1>10
  <2>2. state = "ok" => notified'[v] + faults' >= notified[v] + faults
    BY <1>1, <1>2, <1>3
  <2>3. state = "error" => notified'[v] + faults' >= notified[v] + faults + 1
    BY <1>1, <1>2, <1>3
  <2> QED BY <1>3, <1>6, <1>7, <2>1, <2>2, <2>3, Balance
<1> QED BY <1>9, <1>10

(* An upload is announced at most once for each notification of it and each *)
(* fault: retries by the lambda repeat an announcement only after an error, *)
(* a timeout or a duplicate notification.                                   *)
THEOREM DuplicatesHaveReasons == Spec => []DuplicatesAreExplained
<1>1. ASSUME IInv, IInv', AccountInv, [Next]_vars PROVE AccountInv'
  <2>1. OrderInv'
    BY <1>1, OrderStep DEF AccountInv
  <2>2. ASSUME NEW v \in Originals PROVE Account(v)'
    <3>1. OrderInv /\ Account(v)
      BY <1>1, <2>2 DEF AccountInv
    <3>2. CASE UNCHANGED <<notified, event, calls, announced, faults>>
      BY <1>1, <3>1, <3>2, QuietStep
    <3>3. ASSUME NEW e \in Events, Handler(e) \/ Rejected(e)
          PROVE  Account(v)'
      BY <1>1, <3>1, <3>3, QuietStep, PaidStep, PostStep DEF Handler
    <3>4. ASSUME NEW e \in Events, Notify(e) \/ NotifyAgain(e)
          PROVE  Account(v)'
      BY <1>1, <3>1, <3>4, PaidStep
    <3>5. ASSUME NEW k \in Keys, StrayCall(k) PROVE Account(v)'
      BY <1>1, <3>1, <3>5, QuietStep
    <3>6. ASSUME NEW call \in calls, Webhook(call) PROVE Account(v)'
      BY <1>1, <3>1, <3>6, QuietStep, PublishStep DEF Webhook
    <3> QED BY <1>1, <3>2, <3>3, <3>4, <3>5, <3>6
            DEF Next, Bucket, UploadRequest, PutObject, vars
  <2> QED BY <2>1, <2>2 DEF AccountInv
<1>2. IInv /\ AccountInv => DuplicatesAreExplained
  <2> SUFFICES ASSUME IInv, AccountInv, NEW v \in Originals
               PROVE  announced[v] <= notified[v] + faults
    BY DEF DuplicatesAreExplained
  <2>1. /\ announced[v] \in Nat /\ notified[v] \in Nat /\ faults \in Nat
    BY TypeParts DEF IInv, Keys
  <2>2. /\ Cardinality(Ahead(v)) \in Nat /\ Cardinality(InFlight(v)) \in Nat
        /\ announced[v] + Cardinality(Ahead(v)) + Cardinality(InFlight(v))
             <= notified[v] + faults
    BY FS_CardinalityType DEF AccountInv, Account
  <2> QED BY <2>1, <2>2
<1> QED BY AccountInit, Invariance, <1>1, <1>2, PTL DEF Spec

-----------------------------------------------------------------------------
(* When a notification is given up: each of its attempts failed, and each   *)
(* failure was paid for by a fault of its own.                              *)

(* The attempts of e that failed; one under way will fail as well if the    *)
(* answer it awaits is an error.                                            *)
Failed(e) == IF event[e].state \in {"running", "awaiting", "done"}
             THEN event[e].try - 1 ELSE event[e].try
WillFail(e) == event[e].state = "awaiting" /\ ErrorComing(e)
Cost(e) == /\ Failed(e) <= faults
           /\ WillFail(e) => Failed(e) < faults
           /\ event[e].state = "dropped" => event[e].try > MaxRetries
CostInv == \A e \in Events : Cost(e)

(* An event that stays where it is: only a fault brings it an error.        *)
LEMMA CostStays ==
  ASSUME IInv, NEW e \in Events, Cost(e), event'[e] = event[e],
         faults' \in Nat, faults' >= faults,
         WillFail(e)' => WillFail(e) \/ faults' > faults
  PROVE  Cost(e)'
<1>1. event[e].try \in Nat /\ faults \in Nat
  BY TypeParts, NotificationAssumption DEF IInv, EventType
<1>2. Failed(e)' = Failed(e) /\ Failed(e) \in Int
  BY <1>1 DEF Failed
<1> QED BY <1>1, <1>2 DEF Cost

(* The attempt under way is over, and paid for.                             *)
LEMMA CostOfFailure ==
  ASSUME IInv, NEW e \in Events, Cost(e),
         event[e].state \in {"running", "awaiting"},
         event' = [event EXCEPT ![e].state = AfterRejection(e)],
         faults' \in Nat, Failed(e) < faults'
  PROVE  Cost(e)'
<1>1. event[e] \in EventType /\ event \in [Events -> EventType]
      /\ event[e].try \in Nat /\ MaxRetries \in Nat
  BY TypeParts, NotificationAssumption DEF IInv, EventType
<1>2. event'[e].state = AfterRejection(e) /\ event'[e].try = event[e].try
  BY <1>1 DEF EventType
<1>3. /\ AfterRejection(e) \in {"queued", "dropped"}
      /\ AfterRejection(e) = "dropped" => event[e].try > MaxRetries
  BY <1>1 DEF AfterRejection
<1>4. Failed(e) = event[e].try - 1 /\ Failed(e)' = event[e].try
  BY <1>2, <1>3 DEF Failed
<1> QED BY <1>1, <1>2, <1>3, <1>4 DEF Cost, WillFail

LEMMA CostStep ==
  ASSUME IInv, OrderInv, CostInv, [Next]_vars, NEW e \in Events
  PROVE  Cost(e)'
<1>1. /\ event \in [Events -> EventType] /\ event[e] \in EventType
      /\ calls \subseteq CallType /\ faults \in Nat
      /\ event[e].try \in Nat /\ event[e].pos \in Nat /\ Cost(e)
  BY TypeParts, NotificationAssumption DEF IInv, EventType, CostInv
<1>2. ASSUME calls' \subseteq calls, event'[e] = event[e]
      PROVE  WillFail(e)' => WillFail(e)
  BY <1>2 DEF WillFail, ErrorComing
<1>3. CASE UNCHANGED <<event, calls, faults>>
  BY <1>1, <1>2, <1>3, CostStays
<1>4. ASSUME NEW d \in Events, Notify(d) \/ NotifyAgain(d) PROVE Cost(e)'
  <2>1. /\ UNCHANGED calls /\ faults' \in Nat /\ faults' >= faults
        /\ \E records : Queue(d, records)
    BY <1>1, <1>4 DEF Notify, NotifyAgain, Fault
  <2>2. CASE d # e
    <3>1. event'[e] = event[e]
      BY <1>1, <2>1, <2>2 DEF Queue
    <3> QED BY <1>1, <1>2, <2>1, <3>1, CostStays
  <2>3. CASE d = e
    <3>1. event'[e].state = "queued" /\ event'[e].try = 0
      BY <1>1, <2>1, <2>3 DEF Queue
    <3> QED BY <2>1, <3>1 DEF Cost, Failed, WillFail
  <2> QED BY <2>2, <2>3
<1>5. ASSUME NEW d \in Events, Handler(d) \/ Rejected(d), d # e PROVE Cost(e)'
  <2>1. /\ event'[e] = event[e] /\ faults' \in Nat /\ faults' >= faults
    BY <1>1, <1>5
    DEF Handler, Invoke, SkipRecord, PostRecord, Return, Rejected, Fault
  <2>2. \A c \in calls' : c \in calls \/ c.state = "received"
    BY <1>5
    DEF Handler, Invoke, SkipRecord, PostRecord, Return, Rejected
  <2>3. WillFail(e)' => WillFail(e)
    BY <2>1, <2>2 DEF WillFail, ErrorComing
  <2> QED BY <1>1, <2>1, <2>3, CostStays
<1>6. CASE Invoke(e)
  <2>1. /\ event[e].state = "queued" /\ event'[e].state = "running"
        /\ event'[e].try = event[e].try + 1 /\ UNCHANGED faults
    BY <1>1, <1>6 DEF Invoke, EventType
  <2> QED BY <1>1, <2>1 DEF Cost, Failed, WillFail
<1>7. CASE SkipRecord(e) \/ Return(e)
  <2>1. /\ event[e].state = "running" /\ event'[e].state \in {"running", "done"}
        /\ event'[e].try = event[e].try /\ UNCHANGED faults
    BY <1>1, <1>7 DEF SkipRecord, Return, InLoop, EventType
  <2> QED BY <1>1, <2>1 DEF Cost, Failed, WillFail
<1>8. CASE PostRecord(e)
  <2>1. /\ event[e].state = "running" /\ event'[e].state = "awaiting"
        /\ event'[e].try = event[e].try /\ event'[e].pos = event[e].pos
        /\ UNCHANGED faults
        /\ \A c \in calls' : c \in calls \/ c.state = "received"
    BY <1>1, <1>8 DEF PostRecord, InLoop, EventType
  <2>2. \A c \in calls : c.from = e => ~(c.try = event[e].try
                                         /\ c.pos = event[e].pos)
    BY <1>1, <2>1 DEF OrderInv, Behind
  <2>3. ~WillFail(e)'
    BY <2>1, <2>2 DEF WillFail, ErrorComing
  <2> QED BY <1>1, <2>1, <2>3 DEF Cost, Failed
<1>9. CASE Rejected(e)
  <2>1. Failed(e) \in Int /\ Failed(e) <= faults /\ faults' = faults + 1
    BY <1>1, <1>9 DEF Rejected, Fault, Failed, Cost
  <2>2. Failed(e) < faults' /\ faults' \in Nat
    BY <1>1, <2>1
  <2>3. /\ event[e].state \in {"running", "awaiting"}
        /\ event' = [event EXCEPT ![e].state = AfterRejection(e)]
    BY <1>9 DEF Rejected
  <2> QED BY <1>1, <2>2, <2>3, CostOfFailure
<1>10. ASSUME NEW k \in Keys, StrayCall(k) PROVE Cost(e)'
  <2>1. /\ event'[e] = event[e] /\ faults' = faults + 1
    BY <1>10 DEF StrayCall, Fault
  <2> QED BY <1>1, <2>1, CostStays
<1>11. ASSUME NEW call \in calls, Webhook(call) PROVE Cost(e)'
  <2>1. CASE WebhookIgnores(call) \/ WebhookPublishes(call)
    <3>1. /\ event'[e] = event[e] /\ faults' \in Nat /\ faults' >= faults
          /\ \/ faults' > faults
             \/ Move(call, "ok")
      BY <1>1, <2>1 DEF WebhookIgnores, WebhookPublishes, Fault, Fault0
    <3>2. ASSUME Move(call, "ok") PROVE WillFail(e)' => WillFail(e)
      <4>1. \A c \in calls' : c \in calls \/ c.state = "ok"
        BY <1>1, <3>2 DEF Move, CallType
      <4> QED BY <3>1, <4>1 DEF WillFail, ErrorComing
    <3> QED BY <1>1, <3>1, <3>2, CostStays
  <2>2. CASE Response(call)
    <3>1. calls' \subseteq calls /\ UNCHANGED faults
      BY <2>2 DEF Response
    <3>2. CASE ~Awaits(call) \/ call.from # e
      <4>1. event'[e] = event[e]
        BY <1>1, <2>2, <3>2 DEF Response, Awaits
      <4> QED BY <1>1, <1>2, <3>1, <4>1, CostStays
    <3>3. CASE Awaits(call) /\ call.from = e /\ call.state = "ok"
      <4>1. /\ event[e].state = "awaiting" /\ event'[e].state = "running"
            /\ event'[e].try = event[e].try
        BY <1>1, <2>2, <3>3 DEF Response, Awaits, EventType
      <4> QED BY <1>1, <3>1, <4>1 DEF Cost, Failed, WillFail
    <3>4. CASE Awaits(call) /\ call.from = e /\ call.state = "error"
      <4>1. /\ event[e].state = "awaiting" /\ WillFail(e)
            /\ event' = [event EXCEPT ![e].state = AfterRejection(e)]
        BY <2>2, <3>4 DEF Response, Awaits, WillFail, ErrorComing
      <4>2. Failed(e) < faults'
        BY <1>1, <3>1, <4>1 DEF Cost
      <4> QED BY <1>1, <3>1, <4>1, <4>2, CostOfFailure
    <3> QED BY <2>2, <3>2, <3>3, <3>4 DEF Response
  <2> QED BY <1>11, <2>1, <2>2 DEF Webhook
<1> QED BY <1>3, <1>4, <1>5, <1>6, <1>7, <1>8, <1>9, <1>10, <1>11
        DEF Next, Bucket, Handler, UploadRequest, PutObject, vars

(* An upload is given up only when every attempt of its notification failed, *)
(* each for a fault of its own: up to MaxRetries timeouts, lost answers and  *)
(* refused publications, in whatever order they come, lose no upload.        *)
THEOREM GivingUpTakesFaults ==
  Spec => [](\A v \in Originals : Dropped(v) => GivenUp(v))
<1>1. Init => OrderInv /\ CostInv
  <2> SUFFICES ASSUME Init PROVE CostInv
    BY AccountInit DEF AccountInv
  <2>1. \A e \in Events : event[e] = FreeEvent
    BY DEF Init
  <2> QED BY <2>1 DEF Init, FreeEvent, CostInv, Cost, Failed, WillFail
<1>2. IInv /\ IInv' /\ OrderInv /\ CostInv /\ [Next]_vars
        => OrderInv' /\ CostInv'
  BY OrderStep, CostStep DEF CostInv
<1>3. IInv /\ CostInv => \A v \in Originals : Dropped(v) => GivenUp(v)
  <2> SUFFICES ASSUME IInv, CostInv, NEW e \in Events,
                      event[e].state = "dropped"
               PROVE  faults > MaxRetries
    BY DEF Dropped, GivenUp
  <2>1. Cost(e) /\ event[e].try \in Nat /\ faults \in Nat /\ MaxRetries \in Nat
    BY TypeParts, NotificationAssumption DEF IInv, EventType, CostInv
  <2> QED BY <2>1 DEF Cost, Failed
<1> QED BY Invariance, <1>1, <1>2, <1>3, PTL DEF Spec

-----------------------------------------------------------------------------
(* Refinement: storing and publishing are the contract's steps.             *)
Stored == {v \in Originals : puts[v] > 0}
Told == {v \in Originals : announced[v] > 0}

LEMMA PutRefines ==
  ASSUME IInv, NEW k \in Keys, PutObject(k)
  PROVE  Contract!Store \/ UNCHANGED Contract!cvars
<1>1. puts \in [Keys -> Nat] /\ UNCHANGED announced
  BY TypeParts DEF PutObject, IInv
<1>2. CASE k \in Originals /\ puts[k] = 0
  <2>1. k \in Originals \ Stored /\ Stored' = Stored \cup {k}
    BY <1>1, <1>2 DEF PutObject, Stored, Keys
  <2> QED BY <1>1, <2>1 DEF Contract!Store, Stored
<1>3. CASE ~(k \in Originals /\ puts[k] = 0)
  <2>1. Stored' = Stored
    BY <1>1, <1>3 DEF PutObject, Stored, Keys
  <2> QED BY <1>1, <2>1 DEF Contract!cvars, Stored
<1> QED BY <1>2, <1>3

LEMMA PublishRefines ==
  ASSUME IInv, NEW call \in calls, WebhookPublishes(call)
  PROVE  Contract!Announce \/ UNCHANGED Contract!cvars
<1>1. announced \in [Originals -> Nat] /\ UNCHANGED puts
  BY TypeParts DEF WebhookPublishes, IInv
<1>2. call.key \in Stored
  BY DEF WebhookPublishes, Parses, IInv, StoredInv, Stored
<1>3. CASE Accepted(call)
  <2>1. Told' = Told \cup {call.key}
    BY <1>1, <1>2, <1>3 DEF Accepted, Told, Stored
  <2> QED BY <1>1, <1>2, <2>1 DEF Contract!Announce, Told, Stored
<1>4. CASE UNCHANGED announced
  BY <1>1, <1>4 DEF Contract!cvars
<1> QED BY <1>3, <1>4 DEF WebhookPublishes

(* Only what is stored is announced, however calls fail and repeat.         *)
THEOREM NotificationImplementsContract == Spec => ImplementsAnnouncement
<1>1. Init => Contract!Init
  BY DEF Init, Contract!Init, Keys
<1>2. IInv /\ [Next]_vars => [Contract!Store \/ Contract!Announce]_(Contract!cvars)
  <2> SUFFICES ASSUME IInv, [Next]_vars
               PROVE  [Contract!Store \/ Contract!Announce]_(Contract!cvars)
    OBVIOUS
  <2>1. ASSUME UNCHANGED <<puts, announced>> PROVE UNCHANGED Contract!cvars
    BY <2>1 DEF Contract!cvars
  <2>2. CASE UNCHANGED vars
    BY <2>1, <2>2 DEF vars
  <2>3. CASE Bucket
    BY <2>1, <2>3, PutRefines DEF Bucket, UploadRequest, Notify, NotifyAgain
  <2>4. ASSUME NEW e \in Events, Handler(e) \/ Rejected(e)
        PROVE  UNCHANGED Contract!cvars
    BY <2>1, <2>4
    DEF Handler, Invoke, SkipRecord, PostRecord, Return, Rejected
  <2>5. ASSUME NEW k \in Keys, StrayCall(k) PROVE UNCHANGED Contract!cvars
    BY <2>1, <2>5 DEF StrayCall
  <2>6. ASSUME NEW call \in calls, Webhook(call)
        PROVE  [Contract!Store \/ Contract!Announce]_(Contract!cvars)
    BY <2>1, <2>6, PublishRefines DEF Webhook, WebhookIgnores, Response
  <2> QED BY <2>2, <2>3, <2>4, <2>5, <2>6 DEF Next
<1> QED BY <1>1, <1>2, Invariance, PTL DEF Spec, ImplementsAnnouncement, Contract!Spec
===============================================================================
