------------------------- MODULE StepLifecycleProofs --------------------------
(***************************************************************************)
(* Proofs about StepLifecycle, for any number of runs, heights and faults. *)
(***************************************************************************)
EXTENDS StepLifecycle, SequenceTheorems, TLAPS

Early == {"idle", "starting", "processing"}

(* A run's place tells what its processor did.                              *)
RunInv ==
    \A r \in Runs :
      /\ pc[r] \in Early => result[r] = "none" /\ error[r] = "none"
      /\ pc[r] \in {"completing", "returned"} => result[r] = "value"
      /\ pc[r] \in {"failing", "threw"} =>
           result[r] = "error" /\ error[r] # "none"

Justified(e) ==
    /\ e.status = "completed" => result[e.run] = "value"
    /\ e.status = "failed" => result[e.run] = "error" /\ error[e.run] = "text"

(* What travels is justified, and what was handled is what is logged.       *)
EventInv == /\ \A e \in queue \cup handled \cup buried : Justified(e)
            /\ Rows = handled
            /\ LoggedOnce

LostInv ==
    \A e \in lost :
      faults > 0 \/ (e.status = "failed" /\ error[e.run] = "blank")

(* Published events stay: as a copy, as a row, or as a dead letter.         *)
Known(r, status) ==
    Event(r, status) \in queue \cup handled \cup buried \cup lost
KnownInv ==
    \A r \in Runs :
      /\ pc[r] \in {"processing", "completing", "failing", "returned", "threw"}
           => Known(r, "in_progress")
      /\ pc[r] = "returned" => Known(r, "completed")
      /\ pc[r] = "threw" => Known(r, "failed")

IInv == TypeOK /\ RunInv /\ EventInv /\ LostInv /\ KnownInv

LEMMA EventTypes ==
  ASSUME NEW r \in Runs, NEW status \in Statuses
  PROVE  /\ Event(r, status) \in Events
         /\ Event(r, status).run = r /\ Event(r, status).status = status
  BY DEF Event, Events

LEMMA InitHolds == Init => IInv
<1> SUFFICES ASSUME Init PROVE IInv
  OBVIOUS
<1>1. log = <<>> /\ Rows = {} /\ log \in Seq(Events)
  BY DEF Init, Rows
<1>2. TypeOK
  BY <1>1, LifecycleAssumption DEF Init, TypeOK, Delivery!Init
<1>3. EventInv
  BY <1>1 DEF Init, EventInv, LoggedOnce, Delivery!Init
<1>4. RunInv /\ LostInv /\ KnownInv
  BY DEF Init, RunInv, LostInv, KnownInv, Early
<1> QED BY <1>2, <1>3, <1>4 DEF IInv

-----------------------------------------------------------------------------
(* The schemas accept every payload the workers build, but the failed ones  *)
(* whose error is blank.                                                    *)
LEMMA ParsesUnlessBlank ==
  ASSUME TypeOK, NEW e \in Events
  PROVE  EventParses(e) <=> (e.status = "failed" => error[e.run] = "text")
<1>1. e.status \in Statuses
  BY DEF Events
<1>2. CASE job.step = "metadata"
  BY <1>1, <1>2 DEF EventParses, Payload, MetadataPayload, BaseParses, ErrorOf,
     StartedParses, CompletedParses, FailedParses, Statuses, TypeOK, Jobs
<1>3. CASE job.step = "transcode"
  <2>1. job.resolution \in Heights
    BY <1>3 DEF TypeOK, Jobs
  <2> QED BY <1>1, <1>3, <2>1
      DEF EventParses, Payload, TranscodePayload, BaseParses, ErrorOf,
          StartedParses, CompletedParses, FailedParses, Statuses
<1> QED BY <1>2, <1>3 DEF TypeOK, Jobs

(* safeDispatch: the event is accepted or lost, and lost only by a fault or *)
(* because it does not parse.                                               *)
LEMMA DispatchEffect ==
  ASSUME TypeOK, NEW e \in Events, SafeDispatch(e)
  PROVE  /\ queue' \in {queue, queue \cup {e}}
         /\ lost' \in {lost, lost \cup {e}}
         /\ handled' = handled /\ buried' = buried
         /\ e \in queue' \cup lost'
         /\ queue' # queue => EventParses(e)
         /\ lost' # lost => faults' > 0 \/ ~EventParses(e)
         /\ faults' \in 0..MaxFaults /\ faults' >= faults
  BY LifecycleAssumption
  DEF SafeDispatch, Fault, delivery, Delivery!Accept, TypeOK

(* So it keeps what the invariant says of events.                           *)
LEMMA DispatchKeeps ==
  ASSUME IInv, NEW e \in Events, SafeDispatch(e),
         e.status = "completed" => result[e.run] = "value",
         e.status = "failed" => result[e.run] = "error" /\ error[e.run] # "none",
         UNCHANGED <<result, error, log>>
  PROVE  EventInv' /\ LostInv'
<1>1. TypeOK
  BY DEF IInv
<1>2. EventParses(e) <=> (e.status = "failed" => error[e.run] = "text")
  BY <1>1, ParsesUnlessBlank
<1>3. error[e.run] \in {"none", "text", "blank"}
  BY <1>1 DEF TypeOK, Events
<1>4. EventInv'
  <2>1. EventParses(e) => Justified(e)
    BY <1>2 DEF Justified
  <2>2. \A f \in (queue \cup handled \cup buried)' : Justified(f)
    BY <1>1, <2>1, DispatchEffect DEF IInv, EventInv
  <2>3. Rows' = handled' /\ LoggedOnce'
    BY <1>1, DispatchEffect DEF IInv, EventInv, Rows, LoggedOnce
  <2> QED BY <2>2, <2>3 DEF EventInv, Justified
<1>5. LostInv'
  <2>1. ~EventParses(e) => e.status = "failed" /\ error[e.run] = "blank"
    BY <1>2, <1>3 DEF Justified
  <2>2. faults \in Nat /\ faults' \in Nat /\ faults' >= faults
    BY <1>1, DispatchEffect, LifecycleAssumption DEF TypeOK
  <2> QED BY <1>1, <2>1, <2>2, DispatchEffect DEF IInv, LostInv
<1> QED BY <1>4, <1>5

LEMMA DispatchTypes ==
  ASSUME TypeOK, NEW e \in Events, SafeDispatch(e)
  PROVE  /\ queue' \subseteq Events /\ handled' \subseteq Events
         /\ buried' \subseteq Events /\ lost' \subseteq Events
         /\ faults' \in 0..MaxFaults
  BY DispatchEffect DEF TypeOK

(* What is known stays known.                                               *)
LEMMA KnownStays ==
  ASSUME queue \cup handled \cup buried \cup lost
           \subseteq (queue \cup handled \cup buried \cup lost)',
         NEW r \in Runs, NEW status \in Statuses, Known(r, status)
  PROVE  Known(r, status)'
  BY DEF Known, Event

-----------------------------------------------------------------------------
(* withProcessingLifecycle: the three publications.                         *)
LEMMA PublishKeeps ==
  ASSUME IInv, NEW r \in Runs, NEW status \in Statuses, NEW from, NEW to,
         pc[r] = from, pc' = [pc EXCEPT ![r] = to],
         \/ from = "starting" /\ to = "processing" /\ status = "in_progress"
         \/ from = "completing" /\ to = "returned" /\ status = "completed"
         \/ from = "failing" /\ to = "threw" /\ status = "failed",
         SafeDispatch(Event(r, status)),
         UNCHANGED <<job, result, error, log>>
  PROVE  IInv'
<1> DEFINE e == Event(r, status)
<1>1. e \in Events /\ e.run = r /\ e.status = status
  BY EventTypes
<1>2. TypeOK
  BY DEF IInv
<1>3. TypeOK'
  BY <1>1, <1>2, DispatchTypes DEF TypeOK
<1>4. RunInv'
  BY <1>2 DEF IInv, RunInv, Early, TypeOK
<1>5. EventInv' /\ LostInv'
  BY <1>1, DispatchKeeps DEF IInv, RunInv
<1>6. /\ e \in (queue \cup lost)'
      /\ queue \cup handled \cup buried \cup lost
           \subseteq (queue \cup handled \cup buried \cup lost)'
  BY <1>1, <1>2, DispatchEffect
<1>7. Known(r, status)'
  BY <1>6 DEF Known, Event
<1>8. KnownInv'
  BY <1>2, <1>6, <1>7, KnownStays DEF IInv, KnownInv, TypeOK, Statuses
<1> QED BY <1>3, <1>4, <1>5, <1>8 DEF IInv

(* Its other steps, and the crash, change no event.                         *)
LEMMA RunKeeps ==
  ASSUME IInv, NEW r \in Runs,
         TakeJob(r) \/ ProcessorReturns(r) \/ ProcessorThrows(r) \/ Crash(r)
  PROVE  IInv'
<1>1. TypeOK' /\ TypeOK /\ faults' \in 0..MaxFaults /\ faults' >= faults
  BY LifecycleAssumption
  DEF TakeJob, ProcessorReturns, ProcessorThrows, Crash, Goto, Fault, delivery,
      IInv, TypeOK
<1>2. RunInv'
  BY <1>1 DEF TakeJob, ProcessorReturns, ProcessorThrows, Crash, Goto, IInv,
     TypeOK, RunInv, Early
<1>3. ASSUME NEW e \in Events, Justified(e)
      PROVE  Justified(e)'
  <2>1. e.run \in Runs
    BY DEF Events
  <2> QED BY <1>1, <1>3, <2>1
      DEF TakeJob, ProcessorReturns, ProcessorThrows, Crash, IInv, TypeOK,
          RunInv, Early, Justified
<1>4. EventInv'
  BY <1>1, <1>3 DEF TakeJob, ProcessorReturns, ProcessorThrows, Crash,
     delivery, IInv, TypeOK, EventInv, Rows, LoggedOnce
<1>5. LostInv'
  <2>1. ASSUME NEW e \in lost
        PROVE  faults > 0 \/ (e.status = "failed" /\ error'[e.run] = "blank")
    <3>1. e.run \in Runs
      BY <1>1 DEF TypeOK, Events
    <3> QED BY <1>1, <3>1 DEF TakeJob, ProcessorReturns, ProcessorThrows,
               Crash, IInv, TypeOK, RunInv, LostInv, Early
  <2>2. faults \in Nat /\ faults' \in Nat
    BY <1>1, LifecycleAssumption DEF TypeOK
  <2> QED BY <1>1, <2>1, <2>2 DEF TakeJob, ProcessorReturns, ProcessorThrows,
             Crash, LostInv
<1>6. KnownInv'
  <2>1. UNCHANGED <<queue, handled, buried, lost>>
    BY DEF TakeJob, ProcessorReturns, ProcessorThrows, Crash, delivery
  <2>2. ASSUME NEW q \in Runs, NEW status
        PROVE  Known(q, status)' = Known(q, status)
    BY <2>1 DEF Known, Event
  <2>3. ASSUME NEW q \in Runs
        PROVE  \/ pc'[q] = pc[q] \/ pc'[q] \in {"starting", "dead"}
               \/ pc[q] = "processing" /\ pc'[q] \in {"completing", "failing"}
    BY <1>1 DEF TakeJob, ProcessorReturns, ProcessorThrows, Crash, Goto, TypeOK
  <2> QED BY <2>2, <2>3 DEF IInv, KnownInv
<1> QED BY <1>1, <1>2, <1>4, <1>5, <1>6 DEF IInv

-----------------------------------------------------------------------------
(* The subscription.                                                        *)
LEMMA AppendKeeps ==
  ASSUME IInv, NEW e \in Events, HandleProcessingStepEvent(e)
  PROVE  IInv'
<1>1. TypeOK /\ log \in Seq(Events)
  BY DEF IInv, TypeOK
<1>2. log' \in Seq(Events) /\ Rows' = Rows \cup {e} /\ LoggedOnce'
  <2>1. CASE e \in Rows
    BY <1>1, <2>1 DEF HandleProcessingStepEvent, AppendProcessingStepLog,
                      IInv, EventInv, LoggedOnce, Rows
  <2>2. CASE e \notin Rows
    <3>1. log' = Append(log, e)
      BY <2>2 DEF HandleProcessingStepEvent, AppendProcessingStepLog
    <3>2. /\ log' \in Seq(Events) /\ Len(log') = Len(log) + 1
          /\ log'[Len(log) + 1] = e
          /\ \A i \in 1..Len(log) : log'[i] = log[i]
      BY <1>1, <3>1
    <3>3. Rows' = Rows \cup {e}
      BY <1>1, <3>2 DEF Rows
    <3>4. LoggedOnce'
      BY <1>1, <2>2, <3>2 DEF IInv, EventInv, LoggedOnce, Rows
    <3> QED BY <3>2, <3>3, <3>4
  <2> QED BY <2>1, <2>2
<1>3. /\ e \in queue /\ handled' = handled \cup {e}
      /\ UNCHANGED <<job, pc, result, error, lost, faults, queue, buried>>
  BY DEF HandleProcessingStepEvent, Delivery!Handle
<1>4. TypeOK'
  BY <1>1, <1>2, <1>3 DEF TypeOK
<1>5. RunInv' /\ LostInv'
  BY <1>3 DEF IInv, RunInv, LostInv
<1>6. EventInv'
  BY <1>2, <1>3 DEF IInv, EventInv, Justified
<1>7. KnownInv'
  BY <1>3 DEF IInv, KnownInv, Known
<1> QED BY <1>4, <1>5, <1>6, <1>7 DEF IInv

LEMMA RedeliverKeeps ==
  ASSUME IInv, NEW e \in Events, Redeliver(e)
  PROVE  IInv'
<1>1. /\ UNCHANGED <<job, pc, result, error, lost, log, faults, handled>>
      /\ (queue \cup handled \cup buried)' = queue \cup handled \cup buried
      /\ queue' \subseteq Events /\ buried' \subseteq Events
  BY DEF Redeliver, Delivery!Bury, Delivery!Settle, Delivery!Revive,
         Delivery!ReviveDead, IInv, TypeOK
<1>2. TypeOK'
  BY <1>1 DEF IInv, TypeOK
<1>3. RunInv' /\ LostInv'
  BY <1>1 DEF IInv, RunInv, LostInv
<1>4. EventInv'
  BY <1>1 DEF IInv, EventInv, Justified, Rows, LoggedOnce
<1>5. KnownInv'
  BY <1>1 DEF IInv, KnownInv, Known
<1> QED BY <1>2, <1>3, <1>4, <1>5 DEF IInv

LEMMA StutterKeeps == IInv /\ UNCHANGED vars => IInv'
  BY DEF vars, delivery, IInv, TypeOK, RunInv, EventInv, LostInv, KnownInv,
         Known, Justified, Rows, LoggedOnce

-----------------------------------------------------------------------------
(* The invariant holds.                                                     *)
LEMMA Invariance == Spec => []IInv
<1>1. ASSUME IInv, NEW r \in Runs, TakeJob(r) \/ Lifecycle(r) \/ Crash(r)
      PROVE  IInv'
  <2>1. CASE DispatchStarted(r) \/ DispatchCompleted(r) \/ DispatchFailed(r)
    BY <1>1, <2>1, PublishKeeps
    DEF DispatchStarted, DispatchCompleted, DispatchFailed, Goto, Statuses
  <2> QED BY <1>1, <2>1, RunKeeps DEF Lifecycle
<1>2. IInv /\ [Next]_vars => IInv'
  BY <1>1, AppendKeeps, RedeliverKeeps, StutterKeeps DEF Next
<1> QED BY InitHolds, <1>2, PTL DEF Spec

(* Types: in particular the log holds events of this job only.              *)
THEOREM TypeCorrect == Spec => []TypeOK
<1>1. IInv => TypeOK
  BY DEF IInv
<1> QED BY Invariance, <1>1, PTL

(* processing_logs: a row is true of its run, and there is one per event.   *)
THEOREM TheLogIsTrue == Spec => []LogIsTruthful
<1>1. IInv => LogIsTruthful
  <2> SUFFICES ASSUME IInv, NEW i \in 1..Len(log)
               PROVE  LET p == LogView[i].payload
                          r == LogView[i].event.run
                      IN /\ p.status = "completed" => result[r] = "value"
                         /\ p.status = "failed" =>
                              result[r] = "error" /\ p.error = "text"
    BY DEF LogIsTruthful, LogView, IInv, EventInv
  <2> DEFINE e == log[Len(log) + 1 - i]
  <2>1. log \in Seq(Events) /\ Len(log) \in Nat
    BY DEF IInv, TypeOK
  <2>2. Len(log) + 1 - i \in 1..Len(log)
    BY <2>1
  <2>3. e \in Rows
    BY <2>2 DEF Rows
  <2>4. Justified(e)
    BY <2>3 DEF IInv, EventInv
  <2>5. LogView[i].event = e /\ LogView[i].payload = Payload(e)
    BY DEF LogView, Row
  <2>6. Payload(e).status = e.status /\ Payload(e).error = ErrorOf(e)
    BY DEF Payload, MetadataPayload, TranscodePayload
  <2> QED BY <2>4, <2>5, <2>6 DEF Justified, ErrorOf
<1> QED BY Invariance, <1>1, PTL

(* withProcessingLifecycle returns or throws what its processor did.        *)
THEOREM BrokerDecidesNoJob == Spec => []OutcomeIsProcessors
<1>1. IInv => OutcomeIsProcessors
  BY DEF IInv, RunInv, OutcomeIsProcessors
<1> QED BY Invariance, <1>1, PTL

(* safeDispatch: what the log misses was lost to a fault or a blank error.  *)
THEOREM LossesAreExplained == Spec => []MissingIsExplained
<1>1. IInv => MissingIsExplained
  BY DEF IInv, KnownInv, Known, EventInv, LostInv, MissingIsExplained,
         Accounted, LastEvent
<1> QED BY Invariance, <1>1, PTL
-----------------------------------------------------------------------------
(* The composition with DeliveryContract: a run publishes each event once,  *)
(* so that Delivery!Accept, which only takes new messages, never holds a    *)
(* run back, and its steps are all the queues ever see.                     *)
Published == queue \cup handled \cup buried \cup lost
Before == [in_progress |-> "starting", completed |-> "completing",
           failed |-> "failing"]
After == [in_progress |-> "processing", completed |-> "returned",
          failed |-> "threw"]

(* What a run is about to publish was never published.                      *)
NewEvents ==
    \A r \in Runs, status \in Statuses :
      pc[r] = Before[status] => Event(r, status) \notin Published

(* The same of the events a run has yet to come to.                         *)
FreshInv ==
    \A r \in Runs :
      /\ pc[r] \in {"idle", "starting"} =>
           \A status \in Statuses : Event(r, status) \notin Published
      /\ pc[r] \in {"processing", "completing", "failing"} =>
           \A status \in {"completed", "failed"} :
             Event(r, status) \notin Published

Publishes(r, status) ==
    /\ pc[r] = Before[status] /\ pc' = [pc EXCEPT ![r] = After[status]]
    /\ Published' = Published \cup {Event(r, status)}

LEMMA RunPublishes ==
  ASSUME IInv, NEW r \in Runs, Lifecycle(r)
  PROVE  \/ \E status \in Statuses : Publishes(r, status)
         \/ Published' = Published
<1>1. ASSUME NEW status \in Statuses, SafeDispatch(Event(r, status))
      PROVE  Published' = Published \cup {Event(r, status)}
  BY <1>1, EventTypes, DispatchEffect DEF IInv, Published
<1>2. CASE DispatchStarted(r)
  BY <1>1, <1>2 DEF DispatchStarted, Goto, Publishes, Before, After, Statuses
<1>3. CASE DispatchCompleted(r)
  BY <1>1, <1>3 DEF DispatchCompleted, Goto, Publishes, Before, After, Statuses
<1>4. CASE DispatchFailed(r)
  BY <1>1, <1>4 DEF DispatchFailed, Goto, Publishes, Before, After, Statuses
<1>5. CASE ProcessorReturns(r) \/ ProcessorThrows(r)
  BY <1>5 DEF ProcessorReturns, ProcessorThrows, delivery, Published
<1> QED BY <1>2, <1>3, <1>4, <1>5 DEF Lifecycle

LEMMA FreshStep ==
  ASSUME IInv, FreshInv, [Next]_vars PROVE FreshInv'
<1>1. DOMAIN pc = Runs
  BY DEF IInv, TypeOK
<1>2. CASE \E r \in Runs, status \in Statuses : Publishes(r, status)
  <2>1. PICK r \in Runs, status \in Statuses : Publishes(r, status)
    BY <1>2
  <2>2. /\ pc'[r] = After[status] /\ \A q \in Runs \ {r} : pc'[q] = pc[q]
        /\ pc[r] = Before[status]
    BY <1>1, <2>1 DEF Publishes, IInv, TypeOK
  <2>3. ASSUME NEW q \in Runs, NEW s \in Statuses,
               Event(q, s) \in Published', Event(q, s) \notin Published
        PROVE  q = r /\ s = status
    BY <2>1, <2>3, EventTypes DEF Publishes
  <2>4. pc'[r] \in {"idle", "starting", "processing", "completing", "failing"}
          => status = "in_progress" /\ pc[r] = "starting"
                                    /\ pc'[r] = "processing"
    BY <2>2 DEF Before, After, Statuses
  <2> QED BY <2>2, <2>3, <2>4 DEF FreshInv, Statuses
<1>3. CASE Published' = Published
  <2>1. ASSUME NEW r \in Runs
        PROVE  \/ pc'[r] = pc[r]
               \/ pc[r] = "idle" /\ pc'[r] = "starting"
               \/ pc[r] = "starting" /\ pc'[r] = "processing"
               \/ pc[r] = "processing" /\ pc'[r] \in {"completing", "failing"}
               \/ pc'[r] \in {"dead", "returned", "threw"}
    BY DEF IInv, TypeOK, Next, TakeJob, Lifecycle, Crash, DispatchStarted,
       ProcessorReturns, ProcessorThrows, DispatchCompleted, DispatchFailed,
       HandleProcessingStepEvent, Redeliver, Goto, vars
  <2> QED BY <1>3, <2>1 DEF FreshInv, Statuses, Event
<1>4. ASSUME NEW r \in Runs, TakeJob(r) \/ Crash(r)
      PROVE  Published' = Published
  BY <1>4 DEF TakeJob, Crash, delivery, Published
<1>5. ASSUME NEW e \in Events, HandleProcessingStepEvent(e) \/ Redeliver(e)
      PROVE  Published' = Published
  BY <1>5 DEF HandleProcessingStepEvent, Redeliver, Delivery!Handle,
     Delivery!Bury, Delivery!Settle, Delivery!Revive, Delivery!ReviveDead,
     Published
<1>6. CASE UNCHANGED vars
  BY <1>3, <1>6 DEF vars, delivery, Published
<1> QED BY <1>2, <1>3, <1>4, <1>5, <1>6, RunPublishes DEF Next

(* No event is published twice, so that the row insert that does nothing on  *)
(* a known event id only ever drops a duplicate.                            *)
THEOREM EventsAreNew == Spec => []NewEvents
<1>1. Init => FreshInv
  BY DEF Init, FreshInv, Published, Delivery!Init
<1>2. FreshInv => NewEvents
  BY DEF FreshInv, NewEvents, Before, Statuses
<1> QED BY Invariance, FreshStep, <1>1, <1>2, PTL DEF Spec

(* The queues of the step events see DeliveryContract's steps alone, which  *)
(* is what BrokerSubscription implements.                                   *)
THEOREM QueuesKeepTheContract == Spec => Delivery!Spec
<1>1. Init => Delivery!Init
  BY DEF Init
<1>2. IInv /\ [Next]_vars => [Delivery!Next]_(Delivery!vars)
  <2> SUFFICES ASSUME IInv, [Next]_vars
               PROVE  [Delivery!Next]_(Delivery!vars)
    OBVIOUS
  <2>1. ASSUME UNCHANGED delivery PROVE UNCHANGED Delivery!vars
    BY <2>1 DEF delivery, Delivery!vars
  <2>2. ASSUME NEW r \in Runs, NEW status \in Statuses,
               SafeDispatch(Event(r, status))
        PROVE  [Delivery!Next]_(Delivery!vars)
    BY <2>1, <2>2, EventTypes DEF SafeDispatch, Delivery!Next
  <2>3. ASSUME NEW r \in Runs, Lifecycle(r)
        PROVE  [Delivery!Next]_(Delivery!vars)
    BY <2>1, <2>2, <2>3
    DEF Lifecycle, DispatchStarted, DispatchCompleted, DispatchFailed,
        ProcessorReturns, ProcessorThrows, Statuses
  <2>4. ASSUME NEW r \in Runs, TakeJob(r) \/ Crash(r)
        PROVE  [Delivery!Next]_(Delivery!vars)
    BY <2>1, <2>4 DEF TakeJob, Crash
  <2>5. ASSUME NEW e \in Events, HandleProcessingStepEvent(e) \/ Redeliver(e)
        PROVE  Delivery!Next
    BY <2>5 DEF HandleProcessingStepEvent, Redeliver, Delivery!Next
  <2>6. CASE UNCHANGED vars
    BY <2>1, <2>6 DEF vars
  <2> QED BY <2>3, <2>4, <2>5, <2>6 DEF Next
<1> QED BY Invariance, <1>1, <1>2, PTL DEF Spec, Delivery!Spec
===============================================================================
