------------------------- MODULE UploadNotification -------------------------
(***************************************************************************)
(* From an upload to its announcement: POST /upload/request issues a key,  *)
(* the client stores the object, the bucket notifies the lambda, whose     *)
(* handler calls POST /upload/webhook record by record, and the webhook    *)
(* publishes video.uploaded.  S3 and the lambda's retries are external.    *)
(***************************************************************************)
EXTENDS Naturals, Sequences, FiniteSets

CONSTANTS Originals,   \* keys s3Keys.originalUpload builds, one per video
          Strays,      \* other keys under the prefix originals/
          Events,      \* bound: notifications in the life of the bucket
          MaxPuts,     \* bound: times an object is stored
          MaxRetries,  \* retries of an asynchronous invocation
          MaxFaults    \* bound: duplicates, timeouts, refused publications

(* Keys under other prefixes, such as videos/, cause no notification        *)
(* (filterPrefix), and are left out.                                        *)
Keys == Originals \cup Strays

ASSUME NotificationAssumption ==
    /\ Events \subseteq Nat \ {0}
    /\ MaxPuts \in Nat /\ MaxRetries \in Nat /\ MaxFaults \in Nat
    /\ Originals \cap Strays = {}

VARIABLES
  issued,     \* originals whose presigned URL was issued
  puts,       \* how often each key was stored
  notified,   \* how often each key was put into a notification by S3
  event,      \* each notification: its records and its invocation
  calls,      \* webhook requests in flight
  announced,  \* how often each video.uploaded was accepted by the broker
  faults

vars == <<issued, puts, notified, event, calls, announced, faults>>

FreeEvent == [records |-> <<>>, state |-> "free", try |-> 0, pos |-> 0]
Fault == faults < MaxFaults /\ faults' = faults + 1
Fault0 == UNCHANGED faults

Init == /\ issued = {}
        /\ puts = [k \in Keys |-> 0] /\ notified = [k \in Keys |-> 0]
        /\ event = [e \in Events |-> FreeEvent]
        /\ calls = {}
        /\ announced = [v \in Originals |-> 0]
        /\ faults = 0

-----------------------------------------------------------------------------
(* The upload service hands out keys, and objects are stored.               *)

AnnouncesEarly(v) ==                      \* mutant: announced when requested
    /\ v \notin issued
    /\ issued' = issued \cup {v}
    /\ announced' = [announced EXCEPT ![v] = @ + 1]
    /\ UNCHANGED <<puts, notified, event, calls, faults>>
UploadRequest(v) ==
    /\ v \notin issued
    /\ issued' = issued \cup {v}
    /\ UNCHANGED <<puts, notified, event, calls, announced, faults>>

(* The client puts the object (the URL can be used again until it expires), *)
(* and other objects are stored.                                            *)
PutObject(k) ==
    /\ k \in Originals => k \in issued
    /\ puts[k] < MaxPuts
    /\ puts' = [puts EXCEPT ![k] = @ + 1]
    /\ UNCHANGED <<issued, notified, event, calls, announced, faults>>

Pending == {k \in Keys : notified[k] < puts[k]}
Batches == {<<k>> : k \in Pending} \cup
           {<<pair[1], pair[2]>> : pair \in
               {p \in Pending \X Pending : p[1] # p[2]}}

(* Notifications are only numbered: the least free one is taken.            *)
FreeEvents == {e \in Events : event[e].state = "free"}
IsNext(e) == e \in FreeEvents /\ \A d \in FreeEvents : e <= d
Queue(e, records) ==
    event' = [event EXCEPT ![e] = [records |-> records, state |-> "queued",
                                   try |-> 0, pos |-> 0]]
Notify(e) ==
    /\ IsNext(e)
    /\ \E records \in Batches :
         /\ Queue(e, records)
         /\ notified' = [k \in Keys |->
              IF \E i \in DOMAIN records : records[i] = k THEN notified[k] + 1
              ELSE notified[k]]
    /\ UNCHANGED <<issued, puts, calls, announced, faults>>

(* The bound leaves a notification for every object that may be stored yet. *)
Unnotified == {k \in Keys : notified[k] < MaxPuts}
NotifyAgain(e) ==
    /\ IsNext(e) /\ Cardinality(FreeEvents) > Cardinality(Unnotified) /\ Fault
    /\ \E d \in Events : event[d].records # <<>> /\ Queue(e, event[d].records)
    /\ UNCHANGED <<issued, puts, notified, calls, announced>>

-----------------------------------------------------------------------------
(* handler of the lambda                                                    *)

Record(e) == event[e].records[event[e].pos]
InLoop(e) == event[e].state = "running"
             /\ event[e].pos \in DOMAIN event[e].records
(* parseOriginalUploadKey: null for every key but an original.              *)
Parses(k) == k \in Originals

Invoke(e) ==
    /\ event[e].state = "queued"
    /\ event' = [event EXCEPT ![e].state = "running", ![e].pos = 1,
                              ![e].try = @ + 1]
    /\ UNCHANGED <<issued, puts, notified, calls, announced, faults>>

SkipRecord(e) ==
    /\ InLoop(e) /\ ~Parses(Record(e))
    /\ event' = [event EXCEPT ![e].pos = @ + 1]
    /\ UNCHANGED <<issued, puts, notified, calls, announced, faults>>

PostRecord(e) ==
    /\ InLoop(e) /\ Parses(Record(e))
    /\ event' = [event EXCEPT ![e].state = "awaiting"]
    /\ calls' = calls \cup {[from |-> e, try |-> event[e].try,
                             pos |-> event[e].pos, key |-> Record(e),
                             state |-> "received"]}
    /\ UNCHANGED <<issued, puts, notified, announced, faults>>

Return(e) ==
    /\ event[e].state = "running" /\ ~InLoop(e)
    /\ event' = [event EXCEPT ![e].state = "done"]
    /\ UNCHANGED <<issued, puts, notified, calls, announced, faults>>

(* The invocation is over: the whole notification again, or never.          *)
AfterRejection(e) ==
    IF event[e].try <= MaxRetries THEN "queued" ELSE "dropped"

(* The invocation times out, or fetch rejects: the request goes on.         *)
Rejected(e) ==
    /\ event[e].state \in {"running", "awaiting"} /\ Fault
    /\ event' = [event EXCEPT ![e].state = AfterRejection(e)]
    /\ UNCHANGED <<issued, puts, notified, calls, announced>>

-----------------------------------------------------------------------------
(* POST /upload/webhook                                                     *)

Move(call, state) ==
    calls' = (calls \ {call}) \cup {[call EXCEPT !.state = state]}

(* Somebody else calls it, with a key that is no original.                  *)
StrayCall(k) ==
    /\ ~Parses(k) /\ Fault
    /\ calls' = calls \cup {[from |-> 0, try |-> 0, pos |-> 0, key |-> k,
                             state |-> "received"]}
    /\ UNCHANGED <<issued, puts, notified, event, announced>>

WebhookIgnores(call) ==
    /\ call.state = "received" /\ ~Parses(call.key)
    /\ Move(call, "ok")                                   \* status 204
    /\ UNCHANGED <<issued, puts, notified, event, announced, faults>>

(* broker.publish: accepted and confirmed, accepted with the confirm lost,  *)
(* or refused; onError answers 500.                                         *)
Accepted(call) == announced' = [announced EXCEPT ![call.key] = @ + 1]
AnswersFirst(call) ==                         \* mutant: publish is not awaited
    /\ call.state = "received" /\ Parses(call.key)
    /\ \/ Accepted(call) /\ Move(call, "ok") /\ Fault0
       \/ Accepted(call) /\ Move(call, "ok") /\ Fault
       \/ UNCHANGED announced /\ Move(call, "ok") /\ Fault
    /\ UNCHANGED <<issued, puts, notified, event>>
WebhookPublishes(call) ==
    /\ call.state = "received" /\ Parses(call.key)
    /\ \/ Accepted(call) /\ Move(call, "ok") /\ Fault0
       \/ Accepted(call) /\ Move(call, "error") /\ Fault
       \/ UNCHANGED announced /\ Move(call, "error") /\ Fault
    /\ UNCHANGED <<issued, puts, notified, event>>

(* The response arrives; the handler takes it if it still awaits it.        *)
Awaits(call) == /\ call.from \in Events
                /\ event[call.from].state = "awaiting"
                /\ event[call.from].try = call.try
                /\ event[call.from].pos = call.pos
AnyResponse(call) ==                          \* mutant: response.ok unchecked
    /\ call.state \in {"ok", "error"}
    /\ calls' = calls \ {call}
    /\ IF Awaits(call)
       THEN event' = [event EXCEPT ![call.from].pos = @ + 1,
                                   ![call.from].state = "running"]
       ELSE UNCHANGED event
    /\ UNCHANGED <<issued, puts, notified, announced, faults>>
SameRecord(call) ==                           \* mutant: the loop stands still
    /\ call.state \in {"ok", "error"}
    /\ calls' = calls \ {call}
    /\ IF Awaits(call)
       THEN event' = [event EXCEPT ![call.from].state = "running"]
       ELSE UNCHANGED event
    /\ UNCHANGED <<issued, puts, notified, announced, faults>>
Response(call) ==
    /\ call.state \in {"ok", "error"}
    /\ calls' = calls \ {call}
    /\ IF ~Awaits(call) THEN UNCHANGED event
       ELSE LET e == call.from IN
         event' = IF call.state = "ok"
                  THEN [event EXCEPT ![e].pos = @ + 1, ![e].state = "running"]
                  ELSE [event EXCEPT ![e].state = AfterRejection(e)]
    /\ UNCHANGED <<issued, puts, notified, announced, faults>>

-----------------------------------------------------------------------------
Bucket == \/ \E v \in Originals : UploadRequest(v)
          \/ \E k \in Keys : PutObject(k)
          \/ \E e \in Events : Notify(e) \/ NotifyAgain(e)
Handler(e) == Invoke(e) \/ SkipRecord(e) \/ PostRecord(e) \/ Return(e)
Webhook(call) == \/ WebhookIgnores(call) \/ WebhookPublishes(call)
                 \/ Response(call)

Next == \/ Bucket
        \/ \E e \in Events : Handler(e) \/ Rejected(e)
        \/ \E k \in Keys : StrayCall(k)
        \/ \E call \in calls : Webhook(call)

Spec == Init /\ [][Next]_vars

(* Fair: S3 notifies, queued invocations run, requests are answered.        *)
FairSpec == /\ Spec
            /\ WF_vars(\E e \in Events : Notify(e))
            /\ \A e \in Events : WF_vars(Handler(e))
            /\ WF_vars(\E call \in calls : Webhook(call))

-----------------------------------------------------------------------------
CallType == [from : Events \cup {0}, try : Nat, pos : Nat, key : Keys,
             state : {"received", "ok", "error"}]

(* Every variable stays in its type; no invocation is tried too often.      *)
TypeOK ==
    /\ issued \subseteq Originals
    /\ puts \in [Keys -> 0..MaxPuts] /\ notified \in [Keys -> Nat]
    /\ event \in [Events -> [records : Seq(Keys), pos : Nat,
                             try : 0..MaxRetries + 1,
                             state : {"free", "queued", "running", "awaiting",
                                      "done", "dropped"}]]
    /\ calls \subseteq CallType
    /\ announced \in [Originals -> Nat] /\ faults \in 0..MaxFaults

OriginalsOf(e) == {event[e].records[i] : i \in DOMAIN event[e].records}
                  \cap Originals

(* When the handler returns, every original of its notification has been    *)
(* accepted by the broker, through timeouts, late answers and retries.      *)
DoneMeansAnnounced ==
    \A e \in Events : event[e].state = "done" =>
      \A v \in OriginalsOf(e) : announced[v] > 0

(* An upload is announced more than once only for a reason: it was stored   *)
(* again, or something failed in between.                                   *)
DuplicatesAreExplained ==
    \A v \in Originals : announced[v] <= notified[v] + faults

(* Refinement: only stored originals are announced.                         *)
Contract == INSTANCE AnnouncementContract WITH
    stored <- {v \in Originals : puts[v] > 0},
    announced <- {v \in Originals : announced[v] > 0}
ImplementsAnnouncement == Contract!Spec

(* Every stored original is announced in the end, whatever batch it came in *)
(* and whatever failed, unless a notification of it used up its retries: it *)
(* is dropped, and nothing else looks for its uploads, but only after each  *)
(* of its attempts failed for a reason of its own.  With no more faults     *)
(* than there are retries, no upload is given up.                           *)
Dropped(v) == \E e \in Events : event[e].state = "dropped"
                                /\ v \in OriginalsOf(e)
GivenUp(v) == Dropped(v) /\ faults > MaxRetries
UploadIsAnnounced ==
    \A v \in Originals : puts[v] > 0 ~> (announced[v] > 0 \/ GivenUp(v))
===============================================================================
