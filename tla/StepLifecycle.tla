---------------------------- MODULE StepLifecycle -----------------------------
(***************************************************************************)
(* withProcessingLifecycle around the processor of one child job, its      *)
(* three step events, their subscriptions and the audit log they leave.    *)
(* The job may be retried, and run again while an earlier run is alive.    *)
(* Delivery is what BrokerSubscription is shown to implement: at least     *)
(* once, in any order, or dead-lettered.                                   *)
(***************************************************************************)
EXTENDS Naturals, Sequences

CONSTANTS Runs,       \* 1..n: the bound on attempts and reruns of the job
          Heights,    \* RENDITION_HEIGHTS
          MaxFaults,  \* bound: refused publications, crashes, stalls
          None

ASSUME LifecycleAssumption ==
    /\ Runs \subseteq Nat /\ MaxFaults \in Nat /\ None \notin Heights

VARIABLES
  job,       \* which child job: its step and its resolution
  pc,        \* each run of it
  result,    \* what the processor of the run did
  error,     \* the message of what it threw
  queue,     \* events of which a live copy exists
  handled,   \* events the audit handler succeeded with
  buried,    \* events in a dead-letter queue
  lost,      \* events whose publication rejected
  log,       \* processing_logs in the order of created_at
  faults

delivery == <<queue, handled, buried>>
vars == <<job, pc, result, error, delivery, lost, log, faults>>

Statuses == {"in_progress", "completed", "failed"}
Jobs == {[step |-> "metadata", resolution |-> None]}
          \cup [step : {"transcode"}, resolution : Heights]
(* Every publication makes an event of its own (messageId), and a run       *)
(* publishes each status at most once.                                      *)
Events == [run : Runs, status : Statuses]
Event(r, status) == [run |-> r, status |-> status]

Delivery == INSTANCE DeliveryContract WITH
              Messages <- Events, outstanding <- queue

Fault == faults < MaxFaults /\ faults' = faults + 1
Rows == {log[i] : i \in 1..Len(log)}

Init == /\ job \in Jobs
        /\ pc = [r \in Runs |-> "idle"]
        /\ result = [r \in Runs |-> "none"]
        /\ error = [r \in Runs |-> "none"]
        /\ Delivery!Init
        /\ lost = {} /\ log = <<>> /\ faults = 0

-----------------------------------------------------------------------------
(* The payload builders of the metadata and transcode workers               *)

ErrorOf(e) == IF e.status = "failed" THEN error[e.run] ELSE "none"
MetadataWithoutData(e) ==                   \* mutant: result.metadata missing
    [step |-> "metadata", resolution |-> None, status |-> e.status,
     error |-> ErrorOf(e), data |-> FALSE]
MetadataPayload(e) ==
    [step |-> "metadata", resolution |-> None, status |-> e.status,
     error |-> ErrorOf(e), data |-> e.status = "completed"]
TranscodePayload(e) ==
    [step |-> "transcode", resolution |-> job.resolution, status |-> e.status,
     error |-> ErrorOf(e), data |-> FALSE]
Payload(e) == IF job.step = "metadata" THEN MetadataPayload(e)
              ELSE TranscodePayload(e)

(* The schemas of the step events.  They are strict: a field that does not  *)
(* belong is as wrong as one that is missing.                               *)
BaseParses(p) ==
    p.resolution \in IF p.step = "transcode" THEN Heights ELSE {None}
StartedParses(p) == p.status = "in_progress" /\ p.error = "none" /\ ~p.data
CompletedParses(p) ==
    p.status = "completed" /\ p.error = "none" /\ p.data = (p.step = "metadata")
FailedParses(p) == p.status = "failed" /\ p.error = "text" /\ ~p.data
EventParses(e) ==
    LET p == Payload(e)
    IN /\ BaseParses(p)
       /\ StartedParses(p) \/ CompletedParses(p) \/ FailedParses(p)

(* safeDispatch(publish): a publication that is refused, or whose event     *)
(* does not parse, is logged to the console and forgotten.                  *)
SafeDispatch(e) ==
    \/ /\ EventParses(e)
       /\ Delivery!Accept(e)
       /\ UNCHANGED <<lost, faults>>
    \/ /\ EventParses(e)                     \* the confirm may be lost alone
       /\ Fault /\ lost' = lost \cup {e}
       /\ Delivery!Accept(e) \/ UNCHANGED delivery
    \/ /\ ~EventParses(e)
       /\ lost' = lost \cup {e}
       /\ UNCHANGED <<delivery, faults>>

-----------------------------------------------------------------------------
(* withProcessingLifecycle                                                  *)

Goto(r, place) == pc' = [pc EXCEPT ![r] = place]

(* The worker takes the job: first, again after a failure or a crash, or,   *)
(* once it stalled, while the earlier run goes on or has just returned.     *)
TakeJob(r) ==
    /\ pc[r] = "idle"
    /\ \A q \in Runs : q < r => pc[q] # "idle"
    /\ IF \A q \in Runs : q < r => pc[q] \in {"threw", "dead"}
       THEN UNCHANGED faults ELSE Fault
    /\ Goto(r, "starting")
    /\ UNCHANGED <<job, result, error, delivery, lost, log>>

DispatchStarted(r) ==
    /\ pc[r] = "starting"
    /\ SafeDispatch(Event(r, "in_progress"))
    /\ Goto(r, "processing")
    /\ UNCHANGED <<job, result, error, log>>

ProcessorReturns(r) ==
    /\ pc[r] = "processing"
    /\ result' = [result EXCEPT ![r] = "value"]
    /\ Goto(r, "completing")
    /\ UNCHANGED <<job, error, delivery, lost, log, faults>>

ProcessorThrows(r) ==
    /\ pc[r] = "processing"
    /\ result' = [result EXCEPT ![r] = "error"]
    /\ \E message \in {"text", "blank"} :
         error' = [error EXCEPT ![r] = message]
    /\ Goto(r, "failing")
    /\ UNCHANGED <<job, delivery, lost, log, faults>>

DispatchMayThrow(r) ==                     \* mutant: dispatch, not safeDispatch
    /\ pc[r] = "completing"
    /\ SafeDispatch(Event(r, "completed"))
    /\ IF lost' = lost
       THEN Goto(r, "returned") /\ UNCHANGED error
       ELSE Goto(r, "failing") /\ error' = [error EXCEPT ![r] = "text"]
    /\ UNCHANGED <<job, result, log>>
DispatchCompleted(r) ==
    /\ pc[r] = "completing"
    /\ SafeDispatch(Event(r, "completed"))
    /\ Goto(r, "returned")
    /\ UNCHANGED <<job, result, error, log>>

DispatchFailed(r) ==
    /\ pc[r] = "failing"
    /\ SafeDispatch(Event(r, "failed"))
    /\ Goto(r, "threw")
    /\ UNCHANGED <<job, result, error, log>>

Crash(r) ==
    /\ pc[r] \notin {"idle", "returned", "threw", "dead"}
    /\ Fault
    /\ Goto(r, "dead")
    /\ UNCHANGED <<job, result, error, delivery, lost, log>>

-----------------------------------------------------------------------------
(* The audit subscriptions: an INSERT that does nothing when the event id   *)
(* is there already.                                                        *)

AppendAlways(e) == log' = Append(log, e)    \* mutant: no conflict target
AppendOnce(e) ==                            \* mutant: one row for the step
    log' = IF log # <<>> THEN log ELSE <<e>>
AppendProcessingStepLog(e) ==
    log' = IF e \in Rows THEN log ELSE Append(log, e)

HandleProcessingStepEvent(e) ==
    /\ Delivery!Handle(e)
    /\ AppendProcessingStepLog(e)
    /\ UNCHANGED <<job, pc, result, error, lost, faults>>

(* The message is dead-lettered, acknowledged, or a duplicate of it turns   *)
(* up.                                                                      *)
Redeliver(e) ==
    /\ \/ Delivery!Bury(e) \/ Delivery!Settle(e)
       \/ Delivery!Revive(e) \/ Delivery!ReviveDead(e)
    /\ UNCHANGED <<job, pc, result, error, lost, log, faults>>

-----------------------------------------------------------------------------
Lifecycle(r) == \/ DispatchStarted(r)
                \/ ProcessorReturns(r) \/ ProcessorThrows(r)
                \/ DispatchCompleted(r) \/ DispatchFailed(r)

Next == \/ \E r \in Runs : TakeJob(r) \/ Lifecycle(r) \/ Crash(r)
        \/ \E e \in Events : HandleProcessingStepEvent(e) \/ Redeliver(e)

Spec == Init /\ [][Next]_vars

(* Publications settle and processors end; the subscription settles what it *)
(* accepted (BrokerSubscription!AcceptedIsSettled).                         *)
SettleEvent(e) == e \notin handled \cup buried
                  /\ (HandleProcessingStepEvent(e) \/ Redeliver(e))
FairSpec == /\ Spec
            /\ WF_vars(\E r \in Runs : Lifecycle(r))
            /\ WF_vars(\E e \in Events : SettleEvent(e))

-----------------------------------------------------------------------------
(* getStatusWithLogs: newest row first; data that does not parse is nulled. *)

Row(e) == [event |-> e, payload |-> Payload(e)]
LogView == [i \in 1..Len(log) |-> Row(log[Len(log) + 1 - i])]

(* Every variable stays in its type.                                        *)
TypeOK ==
    /\ job \in Jobs
    /\ pc \in [Runs -> {"idle", "starting", "processing", "completing",
                        "failing", "returned", "threw", "dead"}]
    /\ result \in [Runs -> {"none", "value", "error"}]
    /\ error \in [Runs -> {"none", "text", "blank"}]
    /\ queue \subseteq Events /\ handled \subseteq Events
    /\ buried \subseteq Events /\ lost \subseteq Events
    /\ log \in Seq(Events)
    /\ faults \in 0..MaxFaults

(* The log tells the truth, whatever was lost, redelivered or reordered: a  *)
(* row says completed or failed only of a run whose processor did that, and *)
(* says what its processor threw, and no event is told twice.               *)
LoggedOnce == \A i, j \in 1..Len(log) : log[i] = log[j] => i = j
LogIsTruthful ==
    /\ LoggedOnce
    /\ \A i \in DOMAIN LogView :
         LET r == LogView[i].event.run
             payload == LogView[i].payload
         IN /\ payload.status = "completed" => result[r] = "value"
            /\ payload.status = "failed" =>
                 result[r] = "error" /\ payload.error = "text"

(* The broker never decides a job: a run ends as its processor ended, even  *)
(* if no event of it could be published.                                    *)
OutcomeIsProcessors ==
    \A r \in Runs : /\ pc[r] = "returned" => result[r] = "value"
                    /\ pc[r] = "threw" => result[r] = "error"

(* The log misses an event of a run that ended only if it is still on its   *)
(* way, dead-lettered, or its publication failed; and without a fault that  *)
(* happens to a failed event with a blank error alone.                      *)
Accounted(e) == e \in queue \cup Rows \cup buried
LastEvent(r) == Event(r, IF pc[r] = "threw" THEN "failed" ELSE "completed")
MissingIsExplained ==
    /\ \A r \in Runs : pc[r] \in {"returned", "threw"} =>
         \A e \in {Event(r, "in_progress"), LastEvent(r)} :
           Accounted(e) \/ e \in lost
    /\ \A e \in lost :
         faults > 0 \/ (e.status = "failed" /\ error[e.run] = "blank")

(* The log catches up: a run that ended has its last event logged in the    *)
(* end, unless it was lost or dead-lettered.                                *)
RunIsAudited ==
    \A r \in Runs :
      (pc[r] \in {"returned", "threw"}) ~>
        \E e \in Events : e.run = r /\ e.status # "in_progress"
                          /\ e \in Rows \cup buried \cup lost
===============================================================================
