--------------------------- MODULE VideoPipeline ---------------------------
(***************************************************************************)
(* The processing pipeline of one or more videos, from the video.uploaded  *)
(* message to the published verdict: the upload handler and the claim of   *)
(* the processing row, the BullMQ flow it creates, the child jobs, and the *)
(* orchestrator job that aggregates, persists and publishes.               *)
(*                                                                         *)
(* Each statement that awaits the broker, Postgres or Redis is an action   *)
(* of its own: instances interleave between them and may die between them. *)
(* A call may also reject, before or after it took effect: `ok' is FALSE   *)
(* when the caller sees it reject after the effect.                        *)
(***************************************************************************)
EXTENDS AggregateResults

CONSTANTS Deliveries,   \* copies of video.uploaded the uploader ever sends
          Instances,    \* processes running the processing-service
          MaxRetries,   \* maxRetries of the subscription
          JobAttempts,  \* PROCESSING_JOB_ATTEMPTS
          MaxStalls,    \* BullMQ's maxStalledCount
          MaxFaults,    \* bound: crashes and requeued deliveries in a run
          None

ASSUME RetryAssumption == MaxRetries \in Nat /\ MaxStalls \in Nat
                          /\ MaxFaults \in Nat /\ JobAttempts \in Nat \ {0}
ASSUME NoneAssumption == None \notin Videos /\ None \notin Deliveries
                         /\ None \notin Instances

VARIABLES
  row,        \* table processing: status and result of each video's row
  copies,     \* RabbitMQ: each copy of video.uploaded
  hpc, hmsg,  \* upload handler of each instance: where it is, its copy
  orch,       \* BullMQ: the orchestrator job of each video
  kids,       \* BullMQ: the child jobs of each video
  lock,       \* BullMQ: the instance whose token locks the orchestrator job
  wpc, wjob,  \* orchestrator worker of each instance: where it is, its job
  wseen,      \* the failed children getIgnoredChildrenFailures returned
  wresult,    \* the result aggregated, then the one finishProcessing returned
  announced,  \* processing.completed / processing.failed events accepted
  faults

handlerVars == <<hpc, hmsg>>
workerVars == <<wpc, wjob, wseen, wresult>>
flowVars == <<orch, kids, lock>>
vars == <<row, copies, handlerVars, flowVars, workerVars, announced, faults>>

-----------------------------------------------------------------------------
(* processingJobIds: the deterministic ids of a video's child jobs          *)
MetadataJob == [kind |-> "metadata-job"]
EncodeJob(h) == [kind |-> "encode-job", resolution |-> h]
Children == {MetadataJob} \cup {EncodeJob(h) : h \in Heights}

(* What the processor of a child job returns when it succeeds.              *)
ChildValue(v, c) == IF c = MetadataJob THEN MetadataValue(v)
                    ELSE TranscodeValue(v, c.resolution)

Terminal == {"completed", "failed"}
RowStatuses == {"absent", "pending", "in_progress"} \cup Terminal
Row(status, result) == [status |-> status, result |-> result]

FailedResults ==
    [status : {"failed"}, videoId : Videos,
     failures : SUBSET [childKey : Children, error : {"text"}]]
CompletedResults ==
    [status : {"completed"}, videoId : Videos,
     metadata : ChildValues, renditions : [Heights -> ChildValues]]
Results == FailedResults \cup CompletedResults

(* BullMQ jobs.  "waiting" includes delayed by a backoff; "blocked" is       *)
(* waiting-children.  The counters of a job that ended are never read again: *)
(* they are reset.                                                           *)
JobStates == {"absent", "blocked", "waiting", "active", "completed",
              "failed", "removed"}
FreshJob(state) == [state |-> state, made |-> 0, stalls |-> 0]

AfterFailureUncapped(job) ==    \* mutant: attempts are not limited
    [job EXCEPT !.state = "waiting", !.made = @ + 1]
AfterFailure(job) ==
    IF job.made + 1 < JobAttempts
    THEN [job EXCEPT !.state = "waiting", !.made = @ + 1]
    ELSE FreshJob("failed")

AfterStall(job) ==
    IF job.stalls < MaxStalls
    THEN [job EXCEPT !.state = "waiting", !.stalls = @ + 1]
    ELSE FreshJob("failed")

InState(ks, states) == {c \in Children : ks[c].state \in states}

(* A child that fails for good (continueParentOnFailure) or the last one to *)
(* complete moves the parent out of waiting-children.                       *)
ParentAfterOne(job, ks) ==      \* mutant: one completed child is enough
    IF job.state = "blocked" /\ InState(ks, {"failed", "completed"}) # {}
    THEN [job EXCEPT !.state = "waiting"] ELSE job
ParentAfterAll(job, ks) ==      \* mutant: no continueParentOnFailure
    IF job.state = "blocked" /\ InState(ks, {"completed"}) = Children
    THEN [job EXCEPT !.state = "waiting"] ELSE job
ParentAfter(job, ks) ==
    IF /\ job.state = "blocked"
       /\ \/ InState(ks, {"failed"}) # {}
          \/ InState(ks, {"completed"}) = Children
    THEN [job EXCEPT !.state = "waiting"]
    ELSE job

-----------------------------------------------------------------------------
Init ==
    /\ row = [v \in Videos |-> Row("absent", None)]
    /\ copies = [d \in Deliveries |->
                   [video |-> None, place |-> "unsent", retries |-> 0]]
    /\ hpc = [i \in Instances |-> "idle"]
    /\ hmsg = [i \in Instances |-> None]
    /\ orch = [v \in Videos |-> FreshJob("absent")]
    /\ kids = [v \in Videos |-> [c \in Children |-> FreshJob("absent")]]
    /\ lock = [v \in Videos |-> None]
    /\ wpc = [i \in Instances |-> "idle"]
    /\ wjob = [i \in Instances |-> None]
    /\ wseen = [i \in Instances |-> {}]
    /\ wresult = [i \in Instances |-> None]
    /\ announced = {}
    /\ faults = 0

-----------------------------------------------------------------------------
(* The message: published by the upload service's webhook, once or more per *)
(* video; RabbitMQ delivers, delays and dead-letters copies.                *)

UploadPublished(d, v) ==
    /\ copies[d].place = "unsent"
    /\ copies' = [copies EXCEPT ![d].place = "queue", ![d].video = v]
    /\ UNCHANGED <<row, handlerVars, flowVars, workerVars, announced, faults>>

Deliver(i, d) ==
    /\ hpc[i] = "idle"
    /\ copies[d].place = "queue"
    /\ copies' = [copies EXCEPT ![d].place = "unacked"]
    /\ hpc' = [hpc EXCEPT ![i] = "insert"]
    /\ hmsg' = [hmsg EXCEPT ![i] = d]
    /\ UNCHANGED <<row, flowVars, workerVars, announced, faults>>

RetryDelayExpires(d) ==
    /\ copies[d].place = "retry"
    /\ copies' = [copies EXCEPT ![d].place = "queue"]
    /\ UNCHANGED <<row, handlerVars, flowVars, workerVars, announced, faults>>

-----------------------------------------------------------------------------
(* handleVideoUploaded: the three statements of claimPending, then the flow. *)

HandledVideo(i) == copies[hmsg[i]].video
HandlerGoes(i, pc, ok) ==
    /\ hpc' = [hpc EXCEPT ![i] = IF ok THEN pc ELSE "failing"]
    /\ UNCHANGED hmsg

ClaimInsert(i, ok) ==
    LET v == HandledVideo(i) IN
    /\ hpc[i] = "insert"
    /\ row' = IF row[v].status = "absent"
              THEN [row EXCEPT ![v] = Row("pending", None)] ELSE row
    /\ HandlerGoes(i, "update", ok)
    /\ UNCHANGED <<copies, flowVars, workerVars, announced, faults>>

(* mutant: the flow is created without the UPDATE                           *)
ClaimWithoutUpdate(i, ok) ==
    /\ hpc[i] = "update"
    /\ HandlerGoes(i, "addFlow", ok)
    /\ UNCHANGED <<row, copies, flowVars, workerVars, announced, faults>>

ClaimUpdate(i, ok) ==
    LET v == HandledVideo(i) IN
    /\ hpc[i] = "update"
    /\ IF row[v].status = "pending"
       THEN /\ row' = [row EXCEPT ![v].status = "in_progress"]
            /\ HandlerGoes(i, "addFlow", ok)
       ELSE /\ row' = row
            /\ HandlerGoes(i, "select", ok)
    /\ UNCHANGED <<copies, flowVars, workerVars, announced, faults>>

(* mutant: only the caller whose UPDATE claimed the row is active           *)
ClaimOnlyByUpdate(i) ==
    /\ hpc[i] = "select"
    /\ HandlerGoes(i, "ack", TRUE)
    /\ UNCHANGED <<row, copies, flowVars, workerVars, announced, faults>>

ClaimSelect(i) ==
    /\ hpc[i] = "select"
    /\ HandlerGoes(i, IF row[HandledVideo(i)].status = "in_progress"
                      THEN "addFlow" ELSE "ack", TRUE)
    /\ UNCHANGED <<row, copies, flowVars, workerVars, announced, faults>>

(* flowProducer.add is one Redis transaction.  A job whose id exists is left *)
(* as it is; a child that removeUnprocessedChildren deleted is created anew. *)
AddFlow(i, ok) ==
    LET v == HandledVideo(i) IN
    /\ hpc[i] = "addFlow"
    /\ orch' = IF orch[v].state = "absent"
               THEN [orch EXCEPT ![v] = FreshJob("blocked")] ELSE orch
    /\ kids' = [kids EXCEPT ![v] = [c \in Children |->
                  IF @[c].state \in {"absent", "removed"}
                  THEN FreshJob("waiting") ELSE @[c]]]
    /\ HandlerGoes(i, "ack", ok)
    /\ UNCHANGED <<row, copies, lock, workerVars, announced, faults>>

HandlerRejected(i) ==
    /\ hpc[i] \in {"insert", "update", "select", "addFlow"}
    /\ HandlerGoes(i, "failing", TRUE)
    /\ UNCHANGED <<row, copies, flowVars, workerVars, announced, faults>>

CopyLeaves(i, copy) ==
    /\ copies' = [copies EXCEPT ![hmsg[i]] = copy]
    /\ hpc' = [hpc EXCEPT ![i] = "idle"]
    /\ hmsg' = [hmsg EXCEPT ![i] = None]

AckUpload(i) ==
    /\ hpc[i] = "ack"
    /\ CopyLeaves(i, [copies[hmsg[i]] EXCEPT !.place = "done"])
    /\ UNCHANGED <<row, flowVars, workerVars, announced, faults>>

(* mutant: a rejected delivery is acknowledged and forgotten                *)
DropRejected(i) ==
    /\ hpc[i] = "failing"
    /\ CopyLeaves(i, [copies[hmsg[i]] EXCEPT !.place = "done"])
    /\ UNCHANGED <<row, flowVars, workerVars, announced, faults>>

(* retryOrDeadLetter: republish with x-retry-count + 1, then ack            *)
RetryOrDeadLetter(i) ==
    LET copy == copies[hmsg[i]] IN
    /\ hpc[i] = "failing"
    /\ CopyLeaves(i,
         [copy EXCEPT !.place = IF copy.retries < MaxRetries THEN "retry"
                                                             ELSE "dead",
                      !.retries = @ + 1])
    /\ UNCHANGED <<row, flowVars, workerVars, announced, faults>>

(* The republication is not confirmed: nack(msg, false, true)               *)
NackRequeue(i) ==
    /\ hpc[i] = "failing"
    /\ faults < MaxFaults
    /\ faults' = faults + 1
    /\ CopyLeaves(i, [copies[hmsg[i]] EXCEPT !.place = "queue"])
    /\ UNCHANGED <<row, flowVars, workerVars, announced>>

-----------------------------------------------------------------------------
(* The child jobs, run by the metadata and transcode services.              *)

ChildMoves(v, c, from, job) ==
    /\ kids[v][c].state = from
    /\ kids' = [kids EXCEPT ![v][c] = job]
    /\ orch' = [orch EXCEPT ![v] = ParentAfter(@, kids'[v])]
    /\ UNCHANGED <<row, copies, handlerVars, lock, workerVars, announced,
                   faults>>

ChildStarts(v, c) ==
    ChildMoves(v, c, "waiting", [kids[v][c] EXCEPT !.state = "active"])
ChildCompletes(v, c) ==
    ChildMoves(v, c, "active", FreshJob("completed"))
ChildFails(v, c) == ChildMoves(v, c, "active", AfterFailure(kids[v][c]))
ChildStalls(v, c) == ChildMoves(v, c, "active", AfterStall(kids[v][c]))

-----------------------------------------------------------------------------
(* The orchestrator worker.                                                 *)

Working(i, v) == wpc[i] # "idle" /\ wjob[i] = v
WorkerIs(i, pc, v, seen, result) ==
    /\ wpc' = [wpc EXCEPT ![i] = pc]
    /\ wjob' = [wjob EXCEPT ![i] = v]
    /\ wseen' = [wseen EXCEPT ![i] = seen]
    /\ wresult' = [wresult EXCEPT ![i] = result]
WorkerIdles(i) == WorkerIs(i, "idle", None, {}, None)
WorkerThrows(i) == WorkerIs(i, "failing", wjob[i], {}, None)
WorkerGoes(i, pc, result, ok) ==
    IF ok THEN WorkerIs(i, pc, wjob[i], {}, result) ELSE WorkerThrows(i)

TakeJob(i, v) ==
    /\ wpc[i] = "idle"
    /\ orch[v].state = "waiting"
    /\ orch' = [orch EXCEPT ![v].state = "active"]
    /\ lock' = [lock EXCEPT ![v] = i]
    /\ WorkerIs(i, "readFailures", v, {}, None)
    /\ UNCHANGED <<row, copies, handlerVars, kids, announced, faults>>

ReadFailures(i) ==
    LET seen == InState(kids[wjob[i]], {"failed"}) IN
    /\ wpc[i] = "readFailures"
    /\ WorkerIs(i, IF seen # {} THEN "prune" ELSE "readValues", wjob[i], seen,
                None)
    /\ UNCHANGED <<row, copies, handlerVars, flowVars, announced, faults>>

NoChildren == [c \in {} |-> InvalidValue]
FailureTexts(seen) == [c \in seen |-> "text"]

(* removeUnprocessedChildren deletes the children no worker has locked; then *)
(* the failures are aggregated.                                              *)
Prune(i, ok) ==
    LET v == wjob[i] IN
    /\ wpc[i] = "prune"
    /\ kids' = [kids EXCEPT ![v] = [c \in Children |->
                  IF @[c].state = "waiting" THEN FreshJob("removed") ELSE @[c]]]
    /\ WorkerGoes(i, "finish", AggregateProcessingResults(v, NoChildren,
                                  FailureTexts(wseen[i])), ok)
    /\ UNCHANGED <<row, copies, handlerVars, orch, lock, announced, faults>>

ReadValues(i) ==
    LET v == wjob[i]
        returned == InState(kids[v], {"completed"}) IN
    /\ wpc[i] = "readValues"
    /\ WorkerGoes(i, "finish", AggregateProcessingResults(v,
                    [c \in returned |-> ChildValue(v, c)], NoChildren), TRUE)
    /\ UNCHANGED <<row, copies, handlerVars, flowVars, announced, faults>>

(* mutants of finishProcessing: no WHERE status = 'in_progress'; the caller's *)
(* own result returned when another one is stored; shouldPublish only for    *)
(* the caller that updated the row                                           *)
FinishOverwrites(i, ok) ==
    /\ wpc[i] = "finish"
    /\ row' = [row EXCEPT ![wjob[i]] = Row(wresult[i].status, wresult[i])]
    /\ WorkerGoes(i, "publish", wresult[i], ok)
    /\ UNCHANGED <<copies, handlerVars, flowVars, announced, faults>>
FinishKeepsOwnResult(i, ok) ==
    /\ wpc[i] = "finish"
    /\ row' = IF row[wjob[i]].status = "in_progress"
              THEN [row EXCEPT ![wjob[i]] = Row(wresult[i].status, wresult[i])]
              ELSE row
    /\ WorkerGoes(i, "publish", wresult[i], ok)
    /\ UNCHANGED <<copies, handlerVars, flowVars, announced, faults>>
FinishPublishesOnce(i, ok) ==
    LET unfinished == row[wjob[i]].status = "in_progress" IN
    /\ wpc[i] = "finish"
    /\ row' = IF unfinished
              THEN [row EXCEPT ![wjob[i]] = Row(wresult[i].status, wresult[i])]
              ELSE row
    /\ WorkerGoes(i, IF unfinished THEN "publish" ELSE "complete",
                  IF unfinished THEN wresult[i] ELSE None, ok)
    /\ UNCHANGED <<copies, handlerVars, flowVars, announced, faults>>

(* finishProcessing: UPDATE ... WHERE status = 'in_progress' RETURNING, and  *)
(* when it updated nothing, the SELECT of what an earlier attempt persisted. *)
FinishUpdate(i, ok) ==
    LET v == wjob[i]
        unfinished == row[v].status = "in_progress" IN
    /\ wpc[i] = "finish"
    /\ row' = IF unfinished
              THEN [row EXCEPT ![v] = Row(wresult[i].status, wresult[i])]
              ELSE row
    /\ IF unfinished THEN WorkerGoes(i, "publish", wresult[i], ok)
                     ELSE WorkerGoes(i, "reread", None, ok)
    /\ UNCHANGED <<copies, handlerVars, flowVars, announced, faults>>

Reread(i) ==
    LET stored == row[wjob[i]].result IN
    /\ wpc[i] = "reread"
    /\ WorkerGoes(i, "publish", stored,
                  stored # None /\ IsPipelineResult(stored))
    /\ UNCHANGED <<row, copies, handlerVars, flowVars, announced, faults>>

PublishResult(i, ok) ==
    /\ wpc[i] = "publish"
    /\ announced' = announced \cup {wresult[i]}
    /\ WorkerGoes(i, "complete", None, ok)
    /\ UNCHANGED <<row, copies, handlerVars, flowVars, faults>>

WorkerRejected(i) ==
    /\ wpc[i] \in {"readFailures", "prune", "readValues", "finish", "reread",
                   "publish", "complete"}
    /\ WorkerThrows(i)
    /\ UNCHANGED <<row, copies, handlerVars, flowVars, announced, faults>>

Unprocessed(v) == InState(kids[v], {"waiting", "active"})

(* The worker returned: BullMQ completes the job, or refuses because the     *)
(* lock is lost or a child is still to be processed.                         *)
CompleteJob(i) ==
    LET v == wjob[i] IN
    /\ wpc[i] = "complete"
    /\ lock[v] = i /\ Unprocessed(v) = {}
    /\ orch' = [orch EXCEPT ![v] = FreshJob("completed")]
    /\ lock' = [lock EXCEPT ![v] = None]
    /\ WorkerIdles(i)
    /\ UNCHANGED <<row, copies, handlerVars, kids, announced, faults>>

CompletionRefused(i) ==
    LET v == wjob[i] IN
    /\ wpc[i] = "complete"
    /\ lock[v] # i \/ Unprocessed(v) # {}
    /\ WorkerThrows(i)
    /\ UNCHANGED <<row, copies, handlerVars, flowVars, announced, faults>>

(* The attempt failed: retried with backoff until JobAttempts, by the worker *)
(* that still holds the lock.  The 'failed' listener only logs.              *)
FailAttempt(i) ==
    LET v == wjob[i] IN
    /\ wpc[i] = "failing"
    /\ IF lock[v] = i
       THEN /\ orch' = [orch EXCEPT ![v] = AfterFailure(@)]
            /\ lock' = [lock EXCEPT ![v] = None]
       ELSE UNCHANGED <<orch, lock>>
    /\ WorkerIdles(i)
    /\ UNCHANGED <<row, copies, handlerVars, kids, announced, faults>>

(* The lock of an active job expires, because its worker died or was too     *)
(* slow to renew it; a slow worker goes on with the job.                     *)
Stall(v) ==
    /\ orch[v].state = "active"
    /\ orch' = [orch EXCEPT ![v] = AfterStall(@)]
    /\ lock' = [lock EXCEPT ![v] = None]
    /\ UNCHANGED <<row, copies, handlerVars, kids, workerVars, announced,
                   faults>>

-----------------------------------------------------------------------------
(* The process dies (process.exit(1) when the broker connection closes) and  *)
(* restarts: its unacknowledged copy is requeued, its job is left locked.    *)
Crash(i) ==
    /\ hpc[i] # "idle" \/ wpc[i] # "idle"
    /\ faults < MaxFaults
    /\ faults' = faults + 1
    /\ IF hpc[i] # "idle"
       THEN CopyLeaves(i, [copies[hmsg[i]] EXCEPT !.place = "queue"])
       ELSE UNCHANGED <<copies, handlerVars>>
    /\ WorkerIdles(i)
    /\ UNCHANGED <<row, flowVars, announced>>

-----------------------------------------------------------------------------
HandlerStep(i) ==
    \/ \E ok \in BOOLEAN : ClaimInsert(i, ok) \/ ClaimUpdate(i, ok)
                           \/ AddFlow(i, ok)
    \/ ClaimSelect(i)
    \/ HandlerRejected(i)
    \/ AckUpload(i)
    \/ RetryOrDeadLetter(i)
    \/ NackRequeue(i)

ChildRuns(v, c) == ChildCompletes(v, c) \/ ChildFails(v, c) \/ ChildStalls(v, c)

WorkerStep(i) ==
    \/ \E ok \in BOOLEAN : Prune(i, ok) \/ FinishUpdate(i, ok)
                           \/ PublishResult(i, ok)
    \/ ReadFailures(i)
    \/ ReadValues(i)
    \/ Reread(i)
    \/ WorkerRejected(i)
    \/ CompleteJob(i)
    \/ CompletionRefused(i)
    \/ FailAttempt(i)

Next ==
    \/ \E d \in Deliveries, v \in Videos : UploadPublished(d, v)
    \/ \E d \in Deliveries, i \in Instances : Deliver(i, d)
    \/ \E d \in Deliveries : RetryDelayExpires(d)
    \/ \E i \in Instances : HandlerStep(i)
    \/ \E v \in Videos, c \in Children : ChildStarts(v, c) \/ ChildRuns(v, c)
    \/ \E i \in Instances, v \in Videos : TakeJob(i, v)
    \/ \E i \in Instances : WorkerStep(i)
    \/ \E v \in Videos : Stall(v)
    \/ \E i \in Instances : Crash(i)

Spec == Init /\ [][Next]_vars

(* Consumers, workers and timers run while their process is up; BullMQ       *)
(* recovers a job whose worker is gone.  Nothing makes an upload, a crash or *)
(* the stall of a live worker happen.                                        *)
RecoverOrphan(v) == /\ ~ \E i \in Instances : lock[v] = i /\ Working(i, v)
                    /\ Stall(v)

Fairness ==
    /\ \A i \in Instances : WF_vars(HandlerStep(i)) /\ WF_vars(WorkerStep(i))
    /\ \A d \in Deliveries : /\ WF_vars(\E i \in Instances : Deliver(i, d))
                             /\ WF_vars(RetryDelayExpires(d))
    /\ \A v \in Videos : /\ WF_vars(\E i \in Instances : TakeJob(i, v))
                         /\ WF_vars(RecoverOrphan(v))
    /\ \A v \in Videos, c \in Children : /\ WF_vars(ChildStarts(v, c))
                                         /\ WF_vars(ChildRuns(v, c))

FairSpec == Spec /\ Fairness

-----------------------------------------------------------------------------
(* Every variable stays in its type, every result that is stored or carried *)
(* is one the contract accepts.                                             *)
Job == [state : JobStates, made : 0..JobAttempts, stalls : 0..MaxStalls]
Copy == [video : Videos \cup {None},
         place : {"unsent", "queue", "unacked", "retry", "dead", "done"},
         retries : 0..(MaxRetries + 1)]
HandlerPcs == {"idle", "insert", "update", "select", "addFlow", "ack",
               "failing"}
WorkerPcs == {"idle", "readFailures", "prune", "readValues", "finish",
              "reread", "publish", "complete", "failing"}
TypeOK ==
    /\ row \in [Videos -> [status : RowStatuses, result : Results \cup {None}]]
    /\ copies \in [Deliveries -> Copy]
    /\ hpc \in [Instances -> HandlerPcs]
    /\ hmsg \in [Instances -> Deliveries \cup {None}]
    /\ orch \in [Videos -> Job]
    /\ kids \in [Videos -> [Children -> Job]]
    /\ lock \in [Videos -> Instances \cup {None}]
    /\ wpc \in [Instances -> WorkerPcs]
    /\ wjob \in [Instances -> Videos \cup {None}]
    /\ wseen \in [Instances -> SUBSET Children]
    /\ wresult \in [Instances -> Results \cup {None}]
    /\ announced \subseteq Results
    /\ faults \in 0..MaxFaults

(* Whatever attempts, stalled workers and retries publish, a consumer of     *)
(* processing.completed / processing.failed only ever hears the verdict that *)
(* is in Postgres: a loser of the race on finishProcessing republishes the   *)
(* persisted result, never its own.                                         *)
AnnouncedIsPersisted ==
    \A r \in announced : row[r.videoId] = Row(r.status, r)

(* A video.uploaded copy is acknowledged only once the flow of its video     *)
(* exists, whichever copy created it: no upload is dropped by claimPending   *)
(* answering "not active".                                                   *)
AckedUploadHasFlow ==
    \A d \in Deliveries :
      copies[d].place = "done" => orch[copies[d].video].state # "absent"

(* A row that was inserted or claimed and whose flow was never created still *)
(* has a copy of its message on the way, or dead-lettered for an operator.   *)
ClaimIsNeverOrphaned ==
    \A v \in Videos :
      row[v].status # "absent" /\ orch[v].state = "absent" =>
        \E d \in Deliveries :
           /\ copies[d].video = v
           /\ copies[d].place \in {"queue", "unacked", "retry", "dead"}

(* finishProcessing takes its second branch only for a row an earlier        *)
(* attempt finished, so "Processing record not found" and "terminal without  *)
(* a valid pipeline result" are never thrown by the pipeline itself.         *)
RereadFindsVerdict ==
    \A i \in Instances :
      wpc[i] = "reread" => /\ row[wjob[i]].status \in Terminal
                           /\ IsPipelineResult(row[wjob[i]].result)

(* What Postgres says happened, happened: a completed video has every child  *)
(* completed and its renditions under their heights; a failed one blames     *)
(* only children that failed for good, although other children, retries and  *)
(* re-created jobs may still be running.                                     *)
VerdictMatchesWork ==
    \A v \in Videos :
      LET result == row[v].result IN
      /\ row[v].status = "completed" =>
           /\ InState(kids[v], {"completed"}) = Children
           /\ \A h \in Heights : result.renditions[h] = TranscodeValue(v, h)
      /\ row[v].status = "failed" =>
           \A f \in result.failures :
              f.childKey \in InState(kids[v], {"failed"})

(* BullMQ marks an orchestrator job completed only after its verdict is      *)
(* stored and published, even when a stalled worker and its successor        *)
(* both ran it.                                                              *)
CompletedJobIsAnnounced ==
    \A v \in Videos :
      orch[v].state = "completed" => row[v].result \in announced

(* No upload is left hanging: it is dead-lettered, or its video gets a       *)
(* verdict that is stored and published, or its orchestrator job runs out of *)
(* attempts -- whatever crashes, stalls, rejected calls and duplicates the   *)
(* bounds allow.                                                             *)
UploadReachesOutcome ==
    \A d \in Deliveries, v \in Videos :
      (copies[d].place # "unsent" /\ copies[d].video = v) ~>
        \/ copies[d].place = "dead"
        \/ row[v].result \in announced
        \/ orch[v].state = "failed"

(* The pipeline implements what VideoRecord promises.                        *)
Outcome(job) == IF job.state \in Terminal THEN job.state ELSE "open"
Record == INSTANCE VideoRecord WITH
            work <- [v \in Videos |-> [c \in Children |-> Outcome(kids[v][c])]]
ImplementsVideoRecord == Record!Spec

(* README: "aggregated completion persisted in Postgres".  Violated: when    *)
(* the attempts of the orchestrator job are exhausted the row stays          *)
(* in_progress.                                                              *)
EndedFlowIsPersisted ==
    \A v \in Videos :
      orch[v].state \in {"completed", "failed"} => row[v].status \in Terminal

(* "Skipping upload event for terminal processing": a video that has its     *)
(* verdict gets no new job.  Violated: the handler adds the flow on a status *)
(* it read earlier, and the children that were pruned are created again.     *)
NoWorkAfterVerdict ==
    [][\A v \in Videos : row[v].status \in Terminal =>
         \A c \in Children : kids[v][c].state \in {"absent", "removed"} =>
            kids'[v][c] = kids[v][c]]_vars
=============================================================================
