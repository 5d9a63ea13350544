------------------------ MODULE VideoPipelineProofs ------------------------
(***************************************************************************)
(* VideoPipeline for any videos, heights, deliveries, instances and        *)
(* bounds: types, the agreement of what is published, stored and done, and *)
(* that it implements VideoRecord, by one inductive invariant.  Of         *)
(* AggregateCasesProofs it uses the theorems about the operators; the      *)
(* variables of that module do not occur here.                             *)
(***************************************************************************)
EXTENDS VideoPipeline, AggregateCasesProofs

Claimed(v) == row[v].status \in {"in_progress"} \cup Terminal
HasFlow(v) == orch[v].state # "absent"
Started(v) == orch[v].state \in {"waiting", "active", "completed", "failed"}
AllDone(v) == \A c \in Children : kids[v][c].state = "completed"
SomeFailed(v) == \E c \in Children : kids[v][c].state = "failed"

(* A flow belongs to a claimed row, its children exist with it, and its      *)
(* orchestrator starts when every child is done or one failed for good.     *)
FlowInv ==
    \A v \in Videos :
      /\ orch[v].state # "removed"
      /\ ~HasFlow(v) => \A c \in Children : kids[v][c].state = "absent"
      /\ HasFlow(v) => Claimed(v)
      /\ Started(v) => AllDone(v) \/ SomeFailed(v)
      /\ lock[v] # None => orch[v].state = "active"

(* A handler at work holds a copy of a video no other handler holds, and     *)
(* each statement finds what the ones before it left.                       *)
HandlerInv ==
    /\ \A i \in Instances :
         IF hpc[i] = "idle" THEN hmsg[i] = None
         ELSE /\ hmsg[i] \in Deliveries
              /\ copies[hmsg[i]].place = "unacked"
    /\ \A i, j \in Instances : hmsg[i] # None /\ i # j => hmsg[i] # hmsg[j]
    /\ \A i \in Instances :
         /\ hpc[i] = "update" => row[HandledVideo(i)].status # "absent"
         /\ hpc[i] \in {"select", "addFlow"} => Claimed(HandledVideo(i))
         /\ hpc[i] = "ack" => HasFlow(HandledVideo(i))

(* A copy that was sent is of a video; one still tried has retries left.    *)
CopyInv ==
    \A d \in Deliveries :
      /\ copies[d].place # "unsent" => copies[d].video \in Videos
      /\ copies[d].place \in {"unsent", "queue", "unacked", "retry"} =>
           copies[d].retries <= MaxRetries

(* A verdict on v that its children, as they are now, justify.              *)
Verdict(v, result) ==
    /\ result \in Results
    /\ result.videoId = v
    /\ IsPipelineResult(result)
    /\ result.status = "completed" =>
         /\ AllDone(v)
         /\ \A h \in Heights : result.renditions[h] = TranscodeValue(v, h)
    /\ result.status = "failed" =>
         \A f \in result.failures :
            f.childKey \in InState(kids[v], {"failed"})

(* A terminal row holds a verdict on a video that has a flow.               *)
RowInv ==
    \A v \in Videos :
      IF row[v].status \in Terminal
      THEN /\ Verdict(v, row[v].result)
           /\ row[v].status = row[v].result.status
           /\ HasFlow(v)
      ELSE row[v].result = None

(* A worker runs a started job; what it has read or computed is still true,  *)
(* and what it is about to publish or has published is stored.              *)
WorkerOK(i) ==
    LET v == wjob[i] IN
    wpc[i] # "idle" =>
      /\ v \in Videos /\ Started(v)
      /\ wpc[i] = "prune" =>
           wseen[i] # {} /\ wseen[i] \subseteq InState(kids[v], {"failed"})
      /\ wpc[i] = "readValues" => AllDone(v)
      /\ wpc[i] = "finish" => Verdict(v, wresult[i])
      /\ wpc[i] = "reread" => row[v].status \in Terminal
      /\ wpc[i] = "publish" =>
           row[v].status \in Terminal /\ row[v].result = wresult[i]
      /\ wpc[i] = "complete" =>
           row[v].status \in Terminal /\ row[v].result \in announced
WorkerInv == \A i \in Instances : WorkerOK(i)

(* What was announced is stored; a completed job has been announced.        *)
AnnouncedInv ==
    /\ AnnouncedIsPersisted
    /\ \A v \in Videos :
         orch[v].state = "completed" =>
           row[v].status \in Terminal /\ row[v].result \in announced

IInv == /\ TypeOK /\ FlowInv /\ HandlerInv /\ CopyInv /\ RowInv /\ WorkerInv
        /\ AnnouncedInv /\ AckedUploadHasFlow /\ ClaimIsNeverOrphaned

-----------------------------------------------------------------------------
(* The invariant holds before anything is uploaded.                         *)
LEMMA InitIInv == Init => IInv
<1> SUFFICES ASSUME Init PROVE IInv
  OBVIOUS
<1> USE RetryAssumption DEF Init
<1>1. FreshJob("absent") \in Job
  BY DEF FreshJob, Job, JobStates
<1>2. TypeOK
  BY <1>1 DEF TypeOK, Copy, Row, RowStatuses, HandlerPcs, WorkerPcs
<1>3. FlowInv /\ HandlerInv /\ CopyInv
  BY DEF FlowInv, HandlerInv, CopyInv, HasFlow, Started, FreshJob
<1>4. RowInv /\ WorkerInv /\ AnnouncedInv
  BY DEF RowInv, WorkerInv, WorkerOK, AnnouncedInv, AnnouncedIsPersisted,
         Terminal, Row, FreshJob
<1>5. AckedUploadHasFlow /\ ClaimIsNeverOrphaned
  BY DEF AckedUploadHasFlow, ClaimIsNeverOrphaned, Row
<1>6. QED
  BY <1>2, <1>3, <1>4, <1>5 DEF IInv

(* How a job changes: its type is kept, a failed attempt or a stall leaves    *)
(* it waiting or failed.                                                    *)
LEMMA JobMoves ==
    /\ \A state \in JobStates :
         FreshJob(state) \in Job /\ FreshJob(state).state = state
    /\ \A job \in Job, state \in JobStates :
         /\ [job EXCEPT !.state = state] \in Job
         /\ [job EXCEPT !.state = state].state = state
    /\ \A job \in Job : /\ AfterFailure(job) \in Job
                        /\ AfterFailure(job).state \in {"waiting", "failed"}
                        /\ AfterStall(job) \in Job
                        /\ AfterStall(job).state \in {"waiting", "failed"}
<1>1. \A state \in JobStates :
         FreshJob(state) \in Job /\ FreshJob(state).state = state
  BY RetryAssumption DEF FreshJob, Job
<1>2. ASSUME NEW job \in Job, NEW state \in JobStates
      PROVE  /\ [job EXCEPT !.state = state] \in Job
             /\ [job EXCEPT !.state = state].state = state
  BY DEF Job
<1>3. ASSUME NEW job \in Job
      PROVE  /\ AfterFailure(job) \in Job
             /\ AfterFailure(job).state \in {"waiting", "failed"}
  <2>1. CASE job.made + 1 < JobAttempts
    <3>1. AfterFailure(job) = [job EXCEPT !.state = "waiting", !.made = job.made + 1]
      BY <2>1 DEF AfterFailure
    <3>2. job.made + 1 \in 0..JobAttempts
      BY <2>1, RetryAssumption DEF Job
    <3>3. QED
      BY <3>1, <3>2 DEF Job, JobStates
  <2>2. CASE ~(job.made + 1 < JobAttempts)
    BY <2>2, <1>1 DEF AfterFailure, JobStates
  <2>3. QED
    BY <2>1, <2>2
<1>4. ASSUME NEW job \in Job
      PROVE  /\ AfterStall(job) \in Job
             /\ AfterStall(job).state \in {"waiting", "failed"}
  <2>1. CASE job.stalls < MaxStalls
    <3>1. AfterStall(job) = [job EXCEPT !.state = "waiting", !.stalls = job.stalls + 1]
      BY <2>1 DEF AfterStall
    <3>2. job.stalls + 1 \in 0..MaxStalls
      BY <2>1, RetryAssumption DEF Job
    <3>3. QED
      BY <3>1, <3>2 DEF Job, JobStates
  <2>2. CASE ~(job.stalls < MaxStalls)
    BY <2>2, <1>1 DEF AfterStall, JobStates
  <2>3. QED
    BY <2>1, <2>2
<1>5. QED
  BY <1>1, <1>2, <1>3, <1>4

(* A child's step leaves the orchestrator job alone or releases it.         *)
LEMMA ParentMoves ==
    ASSUME NEW job \in Job, NEW ks
    PROVE  /\ ParentAfter(job, ks) \in Job
           /\ \/ ParentAfter(job, ks) = job
              \/ /\ job.state = "blocked"
                 /\ ParentAfter(job, ks).state = "waiting"
                 /\ \/ InState(ks, {"failed"}) # {}
                    \/ InState(ks, {"completed"}) = Children
           /\ job.state = "blocked" /\ ParentAfter(job, ks).state = "blocked"
                => InState(ks, {"failed"}) = {}
  BY DEF ParentAfter, Job, JobStates

(* The copy a handler works on.                                             *)
LEMMA Handled ==
    ASSUME IInv, NEW i \in Instances, hpc[i] # "idle"
    PROVE  /\ hmsg[i] \in Deliveries
           /\ copies[hmsg[i]] \in Copy
           /\ copies[hmsg[i]].place = "unacked"
           /\ copies[hmsg[i]].retries \in 0..MaxRetries
           /\ HandledVideo(i) \in Videos
<1>1. hmsg[i] \in Deliveries /\ copies[hmsg[i]].place = "unacked"
  BY DEF IInv, HandlerInv
<1>2. copies[hmsg[i]] \in Copy
  BY <1>1 DEF IInv, TypeOK
<1>3. copies[hmsg[i]].retries \in 0..MaxRetries
  BY <1>1, <1>2, RetryAssumption DEF IInv, CopyInv, Copy
<1>4. HandledVideo(i) \in Videos
  BY <1>1 DEF IInv, CopyInv, HandledVideo
<1>5. QED
  BY <1>1, <1>2, <1>3, <1>4

-----------------------------------------------------------------------------
(* What the worker aggregates.                                              *)

(* The flow has finitely many children, told apart by kind and height.      *)
LEMMA ChildrenFinite ==
    /\ IsFiniteSet(Children)
    /\ MetadataJob \in Children
    /\ \A h \in Heights : EncodeJob(h) \in Children
    /\ \A v : ChildValue(v, MetadataJob) = MetadataValue(v)
    /\ \A v, h : ChildValue(v, EncodeJob(h)) = TranscodeValue(v, h)
<1> DEFINE encodes == {EncodeJob(h) : h \in Heights}
           f == [h \in Heights |-> EncodeJob(h)]
<1>1. IsFiniteSet(encodes)
  <2>1. f \in Surjection(Heights, encodes)
    BY DEF Surjection
  <2>2. QED
    BY <2>1, FS_Surjection, HeightsAssumption
<1>2. Children = encodes \cup {MetadataJob}
  BY DEF Children
<1>3. IsFiniteSet(Children)
  BY <1>1, <1>2, FS_AddElement
<1>4. \A h : EncodeJob(h).kind # MetadataJob.kind /\ EncodeJob(h).resolution = h
  BY DEF EncodeJob, MetadataJob
<1>5. QED
  BY <1>2, <1>3, <1>4 DEF ChildValue

(* The values of all children are aggregated to a completed verdict.        *)
LEMMA DoneAggregate ==
    ASSUME NEW v \in Videos
    PROVE  AggregateProcessingResults(v, [c \in Children |-> ChildValue(v, c)],
                                      NoChildren)
             = CompletedResult(v, MetadataValue(v),
                               [h \in Heights |-> TranscodeValue(v, h)])
<1> DEFINE values == [c \in Children |-> ChildValue(v, c)]
<1>1. \A c \in Children :
        \/ c = MetadataJob /\ values[c] = MetadataValue(v)
        \/ \E h \in Heights :
             c = EncodeJob(h) /\ values[c] = TranscodeValue(v, h)
  BY ChildrenFinite DEF Children
<1>2. \A c \in Children : values[c] \in ChildValues
  BY <1>1 DEF ChildValues, MetadataValues, TranscodeValues, MetadataValue,
              TranscodeValue
<1>3. /\ values[MetadataJob] = MetadataValue(v)
      /\ \A h \in Heights : values[EncodeJob(h)] = TranscodeValue(v, h)
  BY ChildrenFinite
<1>4. DOMAIN values = Children
  OBVIOUS
<1> HIDE DEF values
<1>5. Covers(v, values)
  <2>1. {values[c] : c \in DOMAIN values}
          = {MetadataValue(v)} \cup {TranscodeValue(v, h) : h \in Heights}
    BY <1>1, <1>3, <1>4, ChildrenFinite
  <2>2. \A c, q \in Children : values[c] = values[q] => c = q
    <3>1. \A h : /\ TranscodeValue(v, h).resolution = h
                 /\ TranscodeValue(v, h).kind # MetadataValue(v).kind
      BY DEF MetadataValue, TranscodeValue
    <3>2. QED
      BY <1>1, <3>1
  <2>3. QED
    BY <1>4, <2>1, <2>2 DEF Covers
<1>6. IsFiniteSet(DOMAIN values) /\ DOMAIN NoChildren = {}
  BY <1>4, ChildrenFinite DEF NoChildren
<1>7. AggregateProcessingResults(v, values, NoChildren)
        = CompletedResult(v, MetadataValue(v),
                          [h \in Heights |-> TranscodeValue(v, h)])
  BY <1>2, <1>4, <1>5, <1>6, CompletedMeansCovered
<1>8. QED
  BY <1>7 DEF values

(* The aggregate of children that are all done is a verdict they justify.   *)
LEMMA DoneVerdict ==
    ASSUME NEW v \in Videos, AllDone(v)
    PROVE  Verdict(v, AggregateProcessingResults(v,
                        [c \in Children |-> ChildValue(v, c)], NoChildren))
<1> DEFINE m == MetadataValue(v)
           rs == [h \in Heights |-> TranscodeValue(v, h)]
           result == CompletedResult(v, m, rs)
<1>1. m \in MetadataValues /\ \A h \in Heights : rs[h] \in TranscodeValues
  BY DEF MetadataValues, TranscodeValues, MetadataValue, TranscodeValue
<1>2. m \in ChildValues /\ rs \in [Heights -> ChildValues]
  BY <1>1 DEF ChildValues
<1>3. \A h \in Heights : rs[h] = TranscodeValue(v, h)
  OBVIOUS
<1>4. DOMAIN rs = Heights
  OBVIOUS
<1> HIDE DEF m, rs
<1>5. result \in CompletedResults
  BY <1>2 DEF CompletedResults, CompletedResult
<1>6. IsPipelineResult(result)
  BY <1>1, <1>4 DEF IsPipelineResult, CompletedResult
<1>7. Verdict(v, result)
  BY <1>3, <1>5, <1>6 DEF Verdict, Results, CompletedResult
<1>8. QED
  BY <1>7, DoneAggregate DEF m, rs

(* So are the failures that were read: each is of a child that failed.      *)
LEMMA FailedVerdict ==
    ASSUME NEW v \in Videos, NEW seen, seen # {},
           seen \subseteq InState(kids[v], {"failed"})
    PROVE  Verdict(v, AggregateProcessingResults(v, NoChildren,
                                                 FailureTexts(seen)))
<1> DEFINE texts == FailureTexts(seen)
           result == FailedResult(v, ChildFailures(texts))
<1>1. DOMAIN texts = seen /\ \A c \in seen : texts[c] = "text"
  BY DEF FailureTexts
<1>2. seen \subseteq Children
  BY DEF InState
<1> HIDE DEF texts
<1>3. AggregateProcessingResults(v, NoChildren, texts) = result
  BY <1>1, ChildFailureDecides
<1>4. \A f \in ChildFailures(texts) :
         \E c \in seen : f = [childKey |-> c, error |-> "text"]
  BY <1>1 DEF ChildFailures, Failure, TrimmedError
<1>5. ChildFailures(texts) # {}
  BY <1>1 DEF ChildFailures
<1>6. \A f \in ChildFailures(texts) :
         /\ f \in [childKey : Children, error : {"text"}]
         /\ f.childKey \in InState(kids[v], {"failed"})
         /\ f.error # "blank"
  BY <1>2, <1>4
<1>7. result \in FailedResults
  BY <1>6 DEF FailedResults, FailedResult
<1>8. IsPipelineResult(result)
  BY <1>5, <1>6 DEF IsPipelineResult, FailedResult
<1>9. Verdict(v, result)
  BY <1>6, <1>7, <1>8 DEF Verdict, Results, FailedResult
<1>10. QED
  BY <1>3, <1>9 DEF texts

-----------------------------------------------------------------------------
(* Types.                                                                   *)

(* A worker's locals after one of its steps.                                *)
LEMMA WorkerTypes ==
    ASSUME TypeOK, NEW i \in Instances, NEW pc \in WorkerPcs,
           NEW v \in Videos \cup {None}, NEW seen \in SUBSET Children,
           NEW result \in Results \cup {None}, WorkerIs(i, pc, v, seen, result)
    PROVE  /\ wpc' \in [Instances -> WorkerPcs]
           /\ wjob' \in [Instances -> Videos \cup {None}]
           /\ wseen' \in [Instances -> SUBSET Children]
           /\ wresult' \in [Instances -> Results \cup {None}]
  BY DEF TypeOK, WorkerIs

(* The same for a step that a rejected call may send to "failing".          *)
LEMMA WorkerGoesTypes ==
    ASSUME TypeOK, NEW i \in Instances, NEW pc \in WorkerPcs,
           NEW result \in Results \cup {None}, NEW ok \in BOOLEAN,
           WorkerGoes(i, pc, result, ok)
    PROVE  /\ wpc' \in [Instances -> WorkerPcs]
           /\ wjob' \in [Instances -> Videos \cup {None}]
           /\ wseen' \in [Instances -> SUBSET Children]
           /\ wresult' \in [Instances -> Results \cup {None}]
<1>1. wjob[i] \in Videos \cup {None}
  BY DEF TypeOK
<1>2. "failing" \in WorkerPcs
  BY DEF WorkerPcs
<1>3. \/ WorkerIs(i, pc, wjob[i], {}, result)
      \/ WorkerIs(i, "failing", wjob[i], {}, None)
  BY Zenon DEF WorkerGoes, WorkerThrows
<1>4. QED
  BY <1>1, <1>2, <1>3, WorkerTypes

(* A handler's locals after a step that keeps its copy ...                  *)
LEMMA HandlerTypes ==
    ASSUME TypeOK, NEW i \in Instances, NEW pc \in HandlerPcs,
           NEW ok \in BOOLEAN, HandlerGoes(i, pc, ok)
    PROVE  /\ hpc' \in [Instances -> HandlerPcs]
           /\ hmsg' \in [Instances -> Deliveries \cup {None}]
<1>1. \E p \in HandlerPcs : hpc' = [hpc EXCEPT ![i] = p]
  BY DEF HandlerGoes, HandlerPcs
<1>2. QED
  BY <1>1 DEF TypeOK, HandlerGoes

(* ... and after one that lets go of it.                                    *)
LEMMA CopyLeavesTypes ==
    ASSUME IInv, NEW i \in Instances, hpc[i] # "idle",
           NEW copy \in Copy, CopyLeaves(i, copy)
    PROVE  /\ copies' \in [Deliveries -> Copy]
           /\ hpc' \in [Instances -> HandlerPcs]
           /\ hmsg' \in [Instances -> Deliveries \cup {None}]
  BY Handled DEF IInv, TypeOK, CopyLeaves, HandlerPcs

(* Types are kept by every step of the handler ...                          *)
LEMMA HandlerTypeStep ==
    ASSUME IInv, NEW i \in Instances, HandlerStep(i)
    PROVE  TypeOK'
<1> DEFINE v == HandledVideo(i)
           copy == copies[hmsg[i]]
<1> USE DEF IInv
<1>1. ASSUME NEW ok \in BOOLEAN, ClaimInsert(i, ok) PROVE TypeOK'
  <2>1. v \in Videos
    BY <1>1, Handled DEF ClaimInsert
  <2>2. row' \in [Videos -> [status : RowStatuses, result : Results \cup {None}]]
    BY <1>1, <2>1 DEF ClaimInsert, TypeOK, Row, RowStatuses
  <2>3. /\ hpc' \in [Instances -> HandlerPcs]
        /\ hmsg' \in [Instances -> Deliveries \cup {None}]
    BY <1>1, HandlerTypes DEF ClaimInsert, HandlerPcs
  <2>4. QED
    BY <1>1, <2>2, <2>3 DEF ClaimInsert, TypeOK, flowVars, workerVars
<1>2. ASSUME NEW ok \in BOOLEAN, ClaimUpdate(i, ok) PROVE TypeOK'
  <2>1. v \in Videos
    BY <1>2, Handled DEF ClaimUpdate
  <2>2. row' \in [Videos -> [status : RowStatuses, result : Results \cup {None}]]
    <3> DEFINE R == [status : RowStatuses, result : Results \cup {None}]
               new == [row[v] EXCEPT !.status = "in_progress"]
    <3>1. row \in [Videos -> R]
      BY DEF TypeOK
    <3>2. new \in R
      BY <2>1, <3>1 DEF RowStatuses
    <3>3. row' = row \/ row' = [row EXCEPT ![v] = new]
      BY <1>2 DEF ClaimUpdate
    <3> HIDE DEF R, new
    <3>4. row' \in [Videos -> R]
      BY <2>1, <3>1, <3>2, <3>3
    <3>5. QED
      BY <3>4 DEF R
  <2>3. /\ hpc' \in [Instances -> HandlerPcs]
        /\ hmsg' \in [Instances -> Deliveries \cup {None}]
    BY <1>2, HandlerTypes DEF ClaimUpdate, HandlerPcs
  <2>4. QED
    BY <1>2, <2>2, <2>3 DEF ClaimUpdate, TypeOK, flowVars, workerVars
<1>3. ASSUME NEW ok \in BOOLEAN, AddFlow(i, ok) PROVE TypeOK'
  <2>1. v \in Videos
    BY <1>3, Handled DEF AddFlow
  <2>2. orch' \in [Videos -> Job]
    BY <1>3, <2>1, JobMoves DEF AddFlow, TypeOK, JobStates
  <2>3. kids' \in [Videos -> [Children -> Job]]
    <3> DEFINE new == [c \in Children |->
                  IF kids[v][c].state \in {"absent", "removed"}
                  THEN FreshJob("waiting") ELSE kids[v][c]]
    <3>1. kids[v] \in [Children -> Job]
      BY <2>1 DEF TypeOK
    <3>2. new \in [Children -> Job]
      BY <3>1, JobMoves DEF JobStates
    <3>3. kids' = [kids EXCEPT ![v] = new]
      BY <1>3 DEF AddFlow
    <3> HIDE DEF new
    <3>4. QED
      BY <2>1, <3>2, <3>3 DEF TypeOK
  <2>4. /\ hpc' \in [Instances -> HandlerPcs]
        /\ hmsg' \in [Instances -> Deliveries \cup {None}]
    BY <1>3, HandlerTypes DEF AddFlow, HandlerPcs
  <2>5. QED
    BY <1>3, <2>2, <2>3, <2>4 DEF AddFlow, TypeOK, workerVars
<1>4. CASE ClaimSelect(i) \/ HandlerRejected(i)
  <2>1. \E pc \in HandlerPcs : HandlerGoes(i, pc, TRUE)
    BY <1>4 DEF ClaimSelect, HandlerRejected, HandlerPcs
  <2>2. /\ hpc' \in [Instances -> HandlerPcs]
        /\ hmsg' \in [Instances -> Deliveries \cup {None}]
    BY <2>1, HandlerTypes
  <2>3. QED
    BY <1>4, <2>2
    DEF ClaimSelect, HandlerRejected, TypeOK, flowVars, workerVars
<1>5. CASE AckUpload(i) \/ RetryOrDeadLetter(i) \/ NackRequeue(i)
  <2>1. hpc[i] # "idle" /\ copy \in Copy /\ copy.retries \in 0..MaxRetries
    BY <1>5, Handled DEF AckUpload, RetryOrDeadLetter, NackRequeue
  <2>2. copy.retries + 1 \in 0..(MaxRetries + 1)
    BY <2>1, RetryAssumption
  <2>3. \A p \in {"done", "queue"} : [copy EXCEPT !.place = p] \in Copy
    BY <2>1 DEF Copy
  <2>4. \A p \in {"retry", "dead"} :
           [copy EXCEPT !.place = p, !.retries = @ + 1] \in Copy
    BY <2>1, <2>2 DEF Copy
  <2>5. \E c \in Copy : CopyLeaves(i, c)
    BY <1>5, <2>3, <2>4 DEF AckUpload, RetryOrDeadLetter, NackRequeue
  <2>6. /\ copies' \in [Deliveries -> Copy]
        /\ hpc' \in [Instances -> HandlerPcs]
        /\ hmsg' \in [Instances -> Deliveries \cup {None}]
    BY <2>1, <2>5, CopyLeavesTypes
  <2>7. faults' \in 0..MaxFaults
    BY <1>5, RetryAssumption
    DEF AckUpload, RetryOrDeadLetter, NackRequeue, TypeOK
  <2>8. QED
    BY <1>5, <2>6, <2>7
    DEF AckUpload, RetryOrDeadLetter, NackRequeue, TypeOK, flowVars, workerVars
<1>6. QED
  BY <1>1, <1>2, <1>3, <1>4, <1>5 DEF HandlerStep

(* ... of the worker ...                                                    *)
LEMMA WorkerTypeStep ==
    ASSUME IInv, NEW i \in Instances, WorkerStep(i)
    PROVE  TypeOK'
<1> DEFINE v == wjob[i]
           Typed == /\ wpc' \in [Instances -> WorkerPcs]
                    /\ wjob' \in [Instances -> Videos \cup {None}]
                    /\ wseen' \in [Instances -> SUBSET Children]
                    /\ wresult' \in [Instances -> Results \cup {None}]
<1>0. TypeOK /\ wresult[i] \in Results \cup {None}
  BY DEF IInv, TypeOK
<1>1. ASSUME wpc[i] # "idle" PROVE v \in Videos
  BY <1>1 DEF IInv, WorkerInv, WorkerOK
<1>2. WorkerThrows(i) => Typed
  <2>1. "failing" \in WorkerPcs /\ wjob[i] \in Videos \cup {None}
    BY <1>0 DEF WorkerPcs, TypeOK
  <2>2. QED
    BY <1>0, <2>1, WorkerTypes DEF WorkerThrows
<1>3. ASSUME NEW ok \in BOOLEAN, Prune(i, ok) PROVE TypeOK'
  <2> DEFINE new == [c \in Children |->
                  IF kids[v][c].state = "waiting"
                  THEN FreshJob("removed") ELSE kids[v][c]]
             result == AggregateProcessingResults(v, NoChildren,
                                  FailureTexts(wseen[i]))
  <2>1. v \in Videos /\ wseen[i] # {}
        /\ wseen[i] \subseteq InState(kids[v], {"failed"})
    BY <1>3 DEF Prune, IInv, WorkerInv, WorkerOK
  <2>2. new \in [Children -> Job]
    <3>1. kids[v] \in [Children -> Job]
      BY <1>0, <2>1 DEF TypeOK
    <3>2. QED
      BY <3>1, JobMoves DEF JobStates
  <2>3. kids' = [kids EXCEPT ![v] = new]
    BY <1>3 DEF Prune
  <2>4. result \in Results
    BY <2>1, FailedVerdict DEF Verdict
  <2>5. Typed
    <3>1. WorkerGoes(i, "finish", result, ok)
      BY <1>3 DEF Prune
    <3>2. QED
      BY <1>0, <2>4, <3>1, WorkerGoesTypes DEF WorkerPcs
  <2> HIDE DEF new
  <2>6. kids' \in [Videos -> [Children -> Job]]
    BY <1>0, <2>1, <2>2, <2>3 DEF TypeOK
  <2>7. QED
    BY <1>0, <1>3, <2>5, <2>6 DEF Prune, TypeOK, handlerVars
<1>4. ASSUME NEW ok \in BOOLEAN, FinishUpdate(i, ok) PROVE TypeOK'
  <2> DEFINE R == [status : RowStatuses, result : Results \cup {None}]
             new == Row(wresult[i].status, wresult[i])
  <2>1. v \in Videos /\ Verdict(v, wresult[i])
    BY <1>4 DEF FinishUpdate, IInv, WorkerInv, WorkerOK
  <2>2. new \in R
    BY <2>1 DEF Verdict, Results, FailedResults, CompletedResults, Row,
                RowStatuses, Terminal
  <2>3. row' = row \/ row' = [row EXCEPT ![v] = new]
    BY <1>4 DEF FinishUpdate
  <2>4. row' \in [Videos -> R]
    <3>1. row \in [Videos -> R]
      BY <1>0 DEF TypeOK
    <3> HIDE DEF R, new
    <3>2. QED
      BY <2>1, <2>2, <2>3, <3>1
  <2>5. Typed
    <3>1. \/ WorkerGoes(i, "publish", wresult[i], ok)
          \/ WorkerGoes(i, "reread", None, ok)
      BY <1>4, Zenon DEF FinishUpdate
    <3>2. QED
      BY <1>0, <3>1, WorkerGoesTypes DEF WorkerPcs
  <2>6. QED
    BY <1>0, <1>4, <2>4, <2>5 DEF FinishUpdate, TypeOK, handlerVars, flowVars
<1>5. ASSUME NEW ok \in BOOLEAN, PublishResult(i, ok) PROVE TypeOK'
  <2>1. wresult[i] \in Results
    BY <1>5 DEF PublishResult, IInv, WorkerInv, WorkerOK, RowInv, Verdict
  <2>2. Typed
    <3>1. WorkerGoes(i, "complete", None, ok)
      BY <1>5 DEF PublishResult
    <3>2. QED
      BY <1>0, <3>1, WorkerGoesTypes DEF WorkerPcs
  <2>3. QED
    BY <1>0, <1>5, <2>1, <2>2 DEF PublishResult, TypeOK, handlerVars, flowVars
<1>6. CASE ReadFailures(i)
  <2>1. v \in Videos /\ InState(kids[v], {"failed"}) \in SUBSET Children
    BY <1>1, <1>6 DEF ReadFailures, InState
  <2>2. Typed
    <3>1. \E pc \in WorkerPcs :
            WorkerIs(i, pc, v, InState(kids[v], {"failed"}), None)
      BY <1>6 DEF ReadFailures, WorkerPcs
    <3>2. QED
      BY <1>0, <2>1, <3>1, WorkerTypes
  <2>3. QED
    BY <1>0, <1>6, <2>2 DEF ReadFailures, TypeOK, handlerVars, flowVars
<1>7. CASE ReadValues(i)
  <2> DEFINE returned == InState(kids[v], {"completed"})
             result == AggregateProcessingResults(v,
                         [c \in returned |-> ChildValue(v, c)], NoChildren)
  <2>1. v \in Videos /\ AllDone(v)
    BY <1>7 DEF ReadValues, IInv, WorkerInv, WorkerOK
  <2>2. returned = Children
    BY <2>1 DEF AllDone, InState
  <2>3. result \in Results
    BY <2>1, <2>2, DoneVerdict DEF Verdict
  <2>4. Typed
    <3>1. WorkerGoes(i, "finish", result, TRUE)
      BY <1>7 DEF ReadValues
    <3>2. QED
      BY <1>0, <2>3, <3>1, WorkerGoesTypes DEF WorkerPcs
  <2>5. QED
    BY <1>0, <1>7, <2>4 DEF ReadValues, TypeOK, handlerVars, flowVars
<1>8. CASE Reread(i)
  <2>1. v \in Videos /\ row[v].status \in Terminal
    BY <1>8 DEF Reread, IInv, WorkerInv, WorkerOK
  <2>2. row[v].result \in Results
    BY <2>1 DEF IInv, RowInv, Verdict
  <2>3. Typed
    <3>1. \E ok \in BOOLEAN : WorkerGoes(i, "publish", row[v].result, ok)
      BY <1>8, Zenon DEF Reread
    <3>2. QED
      BY <1>0, <2>2, <3>1, WorkerGoesTypes DEF WorkerPcs
  <2>4. QED
    BY <1>0, <1>8, <2>3 DEF Reread, TypeOK, handlerVars, flowVars
<1>9. CASE WorkerRejected(i) \/ CompletionRefused(i)
  BY <1>0, <1>2, <1>9
  DEF WorkerRejected, CompletionRefused, TypeOK, handlerVars, flowVars
<1>10. CASE CompleteJob(i) \/ FailAttempt(i)
  <2>1. v \in Videos
    BY <1>1, <1>10 DEF CompleteJob, FailAttempt
  <2>2. Typed
    <3>1. WorkerIs(i, "idle", None, {}, None)
      BY <1>10 DEF CompleteJob, FailAttempt, WorkerIdles
    <3>2. QED
      BY <1>0, <3>1, WorkerTypes DEF WorkerPcs
  <2>3. orch' \in [Videos -> Job]
    <3>1. orch[v] \in Job
      BY <1>0, <2>1 DEF TypeOK
    <3>2. \E new \in Job : orch' = orch \/ orch' = [orch EXCEPT ![v] = new]
      <4>1. CASE CompleteJob(i)
        BY <4>1, JobMoves DEF CompleteJob, JobStates
      <4>2. CASE FailAttempt(i)
        BY <3>1, <4>2, JobMoves DEF FailAttempt
      <4>3. QED
        BY <1>10, <4>1, <4>2
    <3>3. QED
      BY <1>0, <3>2 DEF TypeOK
  <2>4. lock' \in [Videos -> Instances \cup {None}]
    BY <1>0, <1>10, <2>1 DEF CompleteJob, FailAttempt, TypeOK
  <2>5. QED
    BY <1>0, <1>10, <2>2, <2>3, <2>4
    DEF CompleteJob, FailAttempt, TypeOK, handlerVars
<1>11. QED
  BY <1>3, <1>4, <1>5, <1>6, <1>7, <1>8, <1>9, <1>10 DEF WorkerStep

(* ... of the children, whose step may release the orchestrator job ...     *)
LEMMA ChildTypeStep ==
    ASSUME IInv, NEW v \in Videos, NEW c \in Children, NEW from,
           NEW job \in Job, ChildMoves(v, c, from, job)
    PROVE  TypeOK'
<1>0. /\ orch \in [Videos -> Job] /\ orch[v] \in Job
      /\ kids \in [Videos -> [Children -> Job]]
  BY DEF IInv, TypeOK
<1>1. kids' \in [Videos -> [Children -> Job]]
  BY <1>0 DEF ChildMoves
<1>2. orch' \in [Videos -> Job]
  <2> DEFINE new == ParentAfter(orch[v], kids'[v])
  <2>1. new \in Job
    BY <1>0, ParentMoves
  <2>2. orch' = [orch EXCEPT ![v] = new]
    BY DEF ChildMoves
  <2> HIDE DEF new
  <2>3. QED
    BY <1>0, <2>1, <2>2
<1>3. QED
  BY <1>1, <1>2 DEF ChildMoves, IInv, TypeOK, handlerVars, workerVars

(* What a child's step does to its job.                                     *)
LEMMA ChildJobs ==
    ASSUME IInv, NEW v \in Videos, NEW c \in Children,
           ChildStarts(v, c) \/ ChildRuns(v, c)
    PROVE  \E from \in {"waiting", "active"}, job \in Job :
              /\ ChildMoves(v, c, from, job)
              /\ job.state \in {"waiting", "active", "completed", "failed"}
<1>1. kids[v][c] \in Job
  BY DEF IInv, TypeOK
<1>2. CASE ChildStarts(v, c)
  <2>1. /\ [kids[v][c] EXCEPT !.state = "active"] \in Job
        /\ [kids[v][c] EXCEPT !.state = "active"].state = "active"
    BY <1>1, JobMoves DEF JobStates
  <2>2. QED
    BY <1>2, <2>1 DEF ChildStarts
<1>3. CASE ChildCompletes(v, c)
  <2>1. /\ FreshJob("completed") \in Job
        /\ FreshJob("completed").state = "completed"
    BY JobMoves DEF JobStates
  <2>2. QED
    BY <1>3, <2>1 DEF ChildCompletes
<1>4. CASE ChildFails(v, c)
  BY <1>1, <1>4, JobMoves DEF ChildFails
<1>5. CASE ChildStalls(v, c)
  BY <1>1, <1>5, JobMoves DEF ChildStalls
<1>6. QED
  BY <1>2, <1>3, <1>4, <1>5 DEF ChildRuns

(* ... and every other step.                                                *)
LEMMA TypeStep ==
    ASSUME IInv, [Next]_vars
    PROVE  TypeOK'
<1>0. TypeOK
  BY DEF IInv
<1>1. ASSUME NEW d \in Deliveries, NEW v \in Videos, UploadPublished(d, v)
      PROVE  TypeOK'
  <2>1. copies' \in [Deliveries -> Copy]
    <3> DEFINE new == [copies[d] EXCEPT !.place = "queue", !.video = v]
    <3>1. new \in Copy
      BY <1>0 DEF TypeOK, Copy
    <3>2. copies' = [copies EXCEPT ![d] = new]
      BY <1>0, <1>1 DEF UploadPublished, TypeOK, Copy
    <3> HIDE DEF new
    <3>3. QED
      BY <1>0, <3>1, <3>2 DEF TypeOK
  <2>2. QED
    BY <1>0, <1>1, <2>1
    DEF UploadPublished, TypeOK, handlerVars, flowVars, workerVars
<1>2. ASSUME NEW d \in Deliveries, NEW i \in Instances, Deliver(i, d)
      PROVE  TypeOK'
  <2>1. [copies[d] EXCEPT !.place = "unacked"] \in Copy
    BY <1>0 DEF TypeOK, Copy
  <2>2. copies' \in [Deliveries -> Copy]
    BY <1>0, <1>2, <2>1 DEF Deliver, TypeOK
  <2>3. /\ hpc' \in [Instances -> HandlerPcs]
        /\ hmsg' \in [Instances -> Deliveries \cup {None}]
    BY <1>0, <1>2 DEF Deliver, TypeOK, HandlerPcs
  <2>4. QED
    BY <1>0, <1>2, <2>2, <2>3 DEF Deliver, TypeOK, flowVars, workerVars
<1>3. ASSUME NEW d \in Deliveries, RetryDelayExpires(d) PROVE TypeOK'
  <2>1. [copies[d] EXCEPT !.place = "queue"] \in Copy
    BY <1>0 DEF TypeOK, Copy
  <2>2. copies' \in [Deliveries -> Copy]
    BY <1>0, <1>3, <2>1 DEF RetryDelayExpires, TypeOK
  <2>3. QED
    BY <1>0, <1>3, <2>2
    DEF RetryDelayExpires, TypeOK, handlerVars, flowVars, workerVars
<1>4. ASSUME NEW v \in Videos, NEW c \in Children,
             ChildStarts(v, c) \/ ChildRuns(v, c)
      PROVE  TypeOK'
  BY <1>4, ChildJobs, ChildTypeStep
<1>5. ASSUME NEW i \in Instances, NEW v \in Videos, TakeJob(i, v)
      PROVE  TypeOK'
  <2>1. orch[v] \in Job
    BY <1>0 DEF TypeOK
  <2>2. [orch[v] EXCEPT !.state = "active"] \in Job
    BY <2>1, JobMoves DEF JobStates
  <2>3. orch' \in [Videos -> Job] /\ lock' \in [Videos -> Instances \cup {None}]
    BY <1>0, <1>5, <2>2 DEF TakeJob, TypeOK
  <2>4. /\ wpc' \in [Instances -> WorkerPcs]
        /\ wjob' \in [Instances -> Videos \cup {None}]
        /\ wseen' \in [Instances -> SUBSET Children]
        /\ wresult' \in [Instances -> Results \cup {None}]
    <3>1. WorkerIs(i, "readFailures", v, {}, None)
      BY <1>5 DEF TakeJob
    <3>2. QED
      BY <1>0, <3>1, WorkerTypes DEF WorkerPcs
  <2>5. QED
    BY <1>0, <1>5, <2>3, <2>4 DEF TakeJob, TypeOK, handlerVars
<1>6. ASSUME NEW v \in Videos, Stall(v) PROVE TypeOK'
  <2>1. orch[v] \in Job
    BY <1>0 DEF TypeOK
  <2>2. AfterStall(orch[v]) \in Job
    BY <2>1, JobMoves
  <2>3. orch' \in [Videos -> Job] /\ lock' \in [Videos -> Instances \cup {None}]
    BY <1>0, <1>6, <2>2 DEF Stall, TypeOK
  <2>4. QED
    BY <1>0, <1>6, <2>3 DEF Stall, TypeOK, handlerVars, workerVars
<1>7. ASSUME NEW i \in Instances, Crash(i) PROVE TypeOK'
  <2>1. /\ wpc' \in [Instances -> WorkerPcs]
        /\ wjob' \in [Instances -> Videos \cup {None}]
        /\ wseen' \in [Instances -> SUBSET Children]
        /\ wresult' \in [Instances -> Results \cup {None}]
    <3>1. WorkerIs(i, "idle", None, {}, None)
      BY <1>7 DEF Crash, WorkerIdles
    <3>2. QED
      BY <1>0, <3>1, WorkerTypes DEF WorkerPcs
  <2>2. /\ copies' \in [Deliveries -> Copy]
        /\ hpc' \in [Instances -> HandlerPcs]
        /\ hmsg' \in [Instances -> Deliveries \cup {None}]
    <3>1. CASE hpc[i] = "idle"
      BY <1>0, <1>7, <3>1 DEF Crash, TypeOK, handlerVars
    <3>2. CASE hpc[i] # "idle"
      <4> DEFINE new == [copies[hmsg[i]] EXCEPT !.place = "queue"]
      <4>1. new \in Copy
        BY <3>2, Handled DEF Copy
      <4>2. CopyLeaves(i, new)
        BY <1>7, <3>2 DEF Crash
      <4> HIDE DEF new
      <4>3. QED
        BY <3>2, <4>1, <4>2, CopyLeavesTypes
    <3>3. QED
      BY <3>1, <3>2
  <2>3. faults' \in 0..MaxFaults
    BY <1>0, <1>7, RetryAssumption DEF Crash, TypeOK
  <2>4. QED
    BY <1>0, <1>7, <2>1, <2>2, <2>3 DEF Crash, TypeOK, flowVars
<1>8. CASE UNCHANGED vars
  BY <1>0, <1>8 DEF vars, TypeOK, handlerVars, flowVars, workerVars
<1>9. QED
  BY <1>1, <1>2, <1>3, <1>4, <1>5, <1>6, <1>7, <1>8,
     HandlerTypeStep, WorkerTypeStep DEF Next

-----------------------------------------------------------------------------
(* What a step may change.                                                  *)

(* Most steps leave the row, the jobs and the events alone.                 *)
Quiet == UNCHANGED <<row, orch, kids, lock, announced>>

(* ... and these are the ones that do not.                                  *)
LEMMA LoudSteps ==
    ASSUME IInv, [Next]_vars
    PROVE  \/ Quiet
           \/ \E i \in Instances, ok \in BOOLEAN :
                ClaimInsert(i, ok) \/ ClaimUpdate(i, ok) \/ AddFlow(i, ok)
           \/ \E v \in Videos, c \in Children, from \in {"waiting", "active"},
                 job \in Job :
                /\ ChildMoves(v, c, from, job)
                /\ job.state \in {"waiting", "active", "completed", "failed"}
           \/ \E i \in Instances, v \in Videos : TakeJob(i, v)
           \/ \E i \in Instances, ok \in BOOLEAN :
                Prune(i, ok) \/ FinishUpdate(i, ok) \/ PublishResult(i, ok)
           \/ \E i \in Instances : CompleteJob(i) \/ FailAttempt(i)
           \/ \E v \in Videos : Stall(v)
<1>1. ASSUME NEW d \in Deliveries, NEW v \in Videos, UploadPublished(d, v)
      PROVE  Quiet
  BY <1>1 DEF UploadPublished, Quiet, flowVars
<1>2. ASSUME NEW d \in Deliveries, NEW i \in Instances, Deliver(i, d)
      PROVE  Quiet
  BY <1>2 DEF Deliver, Quiet, flowVars
<1>3. ASSUME NEW d \in Deliveries, RetryDelayExpires(d) PROVE Quiet
  BY <1>3 DEF RetryDelayExpires, Quiet, flowVars
<1>4. ASSUME NEW i \in Instances, HandlerStep(i)
      PROVE  \/ Quiet
             \/ \E ok \in BOOLEAN :
                  ClaimInsert(i, ok) \/ ClaimUpdate(i, ok) \/ AddFlow(i, ok)
  BY <1>4 DEF HandlerStep, ClaimSelect, HandlerRejected, AckUpload,
              RetryOrDeadLetter, NackRequeue, Quiet, flowVars
<1>5. ASSUME NEW i \in Instances, WorkerStep(i)
      PROVE  \/ Quiet
             \/ \E ok \in BOOLEAN : Prune(i, ok) \/ FinishUpdate(i, ok)
                                    \/ PublishResult(i, ok)
             \/ CompleteJob(i) \/ FailAttempt(i)
  BY <1>5 DEF WorkerStep, ReadFailures, ReadValues, Reread, WorkerRejected,
              CompletionRefused, Quiet, flowVars
<1>6. ASSUME NEW i \in Instances, Crash(i) PROVE Quiet
  BY <1>6 DEF Crash, Quiet, flowVars
<1>7. CASE UNCHANGED vars
  BY <1>7 DEF vars, Quiet, flowVars
<1>8. QED
  BY <1>1, <1>2, <1>3, <1>4, <1>5, <1>6, <1>7, ChildJobs DEF Next

(* How the row of a video changes.                                          *)
RowMove(v) ==
    \/ row'[v] = row[v]
    \/ /\ row[v].status = "absent" /\ row'[v] = Row("pending", None)
       /\ \E i \in Instances :
            hpc[i] = "insert" /\ HandledVideo(i) = v /\ copies' = copies
    \/ row[v].status = "pending" /\ row'[v] = Row("in_progress", row[v].result)
    \/ \E i \in Instances :
         /\ wpc[i] = "finish" /\ wjob[i] = v
         /\ row[v].status = "in_progress"
         /\ row'[v] = Row(wresult[i].status, wresult[i])

(* How its jobs change: a child that ended stays as it is, a child moves     *)
(* only in a flow; the orchestrator job goes round its states.              *)
FlowMove(v) ==
    /\ \A c \in Children :
         \/ kids'[v][c] = kids[v][c]
         \/ kids[v][c].state \notin Terminal /\ HasFlow(v)'
    /\ \/ orch'[v] = orch[v]
       \/ orch[v].state = "absent" /\ orch'[v].state = "blocked" /\ Claimed(v)
       \/ /\ orch[v].state = "blocked" /\ orch'[v].state = "waiting"
          /\ AllDone(v)' \/ SomeFailed(v)'
       \/ orch[v].state = "waiting" /\ orch'[v].state = "active"
       \/ orch[v].state = "active" /\ orch'[v].state \in {"waiting", "failed"}
       \/ /\ orch[v].state = "active" /\ orch'[v].state = "completed"
          /\ \E i \in Instances : wpc[i] = "complete" /\ wjob[i] = v
    /\ lock'[v] # None => orch'[v].state = "active"

(* Every row moves that way.                                                *)
LEMMA RowStep ==
    ASSUME IInv, [Next]_vars, NEW v \in Videos
    PROVE  RowMove(v)
<1>0. row \in [Videos -> [status : RowStatuses, result : Results \cup {None}]]
  BY DEF IInv, TypeOK
<1>1. ASSUME NEW i \in Instances, NEW ok \in BOOLEAN, ClaimInsert(i, ok)
      PROVE  RowMove(v)
  <2>1. HandledVideo(i) \in Videos
    BY <1>1, Handled DEF ClaimInsert
  <2>2. QED
    BY <1>0, <1>1, <2>1 DEF ClaimInsert, RowMove
<1>2. ASSUME NEW i \in Instances, NEW ok \in BOOLEAN, ClaimUpdate(i, ok)
      PROVE  RowMove(v)
  <2>1. HandledVideo(i) \in Videos
    BY <1>2, Handled DEF ClaimUpdate
  <2>2. CASE row' = row
    BY <2>2 DEF RowMove
  <2>3. CASE /\ row[HandledVideo(i)].status = "pending"
             /\ row' = [row EXCEPT ![HandledVideo(i)].status = "in_progress"]
    <3>1. CASE v # HandledVideo(i)
      BY <1>0, <2>3, <3>1 DEF RowMove
    <3>2. CASE v = HandledVideo(i)
      <4>1. row'[v] = [row[v] EXCEPT !.status = "in_progress"]
        BY <1>0, <2>3, <3>2
      <4>2. row'[v] = Row("in_progress", row[v].result)
        BY <1>0, <4>1 DEF Row
      <4>3. QED
        BY <2>3, <3>2, <4>2 DEF RowMove
    <3>3. QED
      BY <3>1, <3>2
  <2>4. QED
    BY <1>2, <2>2, <2>3 DEF ClaimUpdate
<1>3. ASSUME NEW i \in Instances, NEW ok \in BOOLEAN, FinishUpdate(i, ok)
      PROVE  RowMove(v)
  BY <1>0, <1>3 DEF FinishUpdate, RowMove
<1>4. row' = row => RowMove(v)
  BY DEF RowMove
<1>5. QED
  BY <1>1, <1>2, <1>3, <1>4, LoudSteps
  DEF Quiet, AddFlow, ChildMoves, TakeJob, Prune, PublishResult, CompleteJob,
      FailAttempt, Stall

(* Every flow moves that way.                                               *)
LEMMA FlowStep ==
    ASSUME IInv, [Next]_vars, NEW v \in Videos
    PROVE  FlowMove(v)
<1>0. /\ orch \in [Videos -> Job] /\ orch[v] \in Job
      /\ kids \in [Videos -> [Children -> Job]] /\ kids[v] \in [Children -> Job]
      /\ lock \in [Videos -> Instances \cup {None}]
      /\ lock[v] # None => orch[v].state = "active"
      /\ ~HasFlow(v) => \A c \in Children : kids[v][c].state = "absent"
      /\ None \notin Instances
  BY NoneAssumption DEF IInv, TypeOK, FlowInv
<1>1. ASSUME kids'[v] = kids[v], orch'[v] = orch[v], lock'[v] = lock[v]
      PROVE  FlowMove(v)
  BY <1>0, <1>1 DEF FlowMove
<1>2. ASSUME NEW i \in Instances, NEW ok \in BOOLEAN, AddFlow(i, ok)
      PROVE  FlowMove(v)
  <2>1. HandledVideo(i) \in Videos /\ Claimed(HandledVideo(i))
    BY <1>2, Handled DEF AddFlow, IInv, HandlerInv
  <2>2. CASE v # HandledVideo(i)
    BY <1>0, <1>1, <1>2, <2>1, <2>2 DEF AddFlow
  <2>3. CASE v = HandledVideo(i)
    <3>1. \A c \in Children : \/ kids'[v][c] = kids[v][c]
                              \/ kids[v][c].state \notin Terminal
      BY <1>0, <1>2, <2>3 DEF AddFlow, Terminal
    <3>2. \/ orch'[v] = orch[v] /\ orch[v].state # "absent"
          \/ orch[v].state = "absent" /\ orch'[v].state = "blocked"
      BY <1>0, <1>2, <2>3 DEF AddFlow, FreshJob
    <3>3. HasFlow(v)'
      BY <3>2 DEF HasFlow
    <3>4. QED
      BY <1>0, <1>2, <2>1, <2>3, <3>1, <3>2, <3>3 DEF AddFlow, FlowMove
  <2>4. QED
    BY <2>2, <2>3
<1>3. ASSUME NEW w \in Videos, NEW c \in Children,
             NEW from \in {"waiting", "active"}, NEW job \in Job,
             ChildMoves(w, c, from, job)
      PROVE  FlowMove(v)
  <2>1. CASE v # w
    BY <1>0, <1>1, <1>3, <2>1 DEF ChildMoves
  <2>2. CASE v = w
    <3>1. /\ orch'[v] = ParentAfter(orch[v], kids'[v])
          /\ kids'[v] = [kids[v] EXCEPT ![c] = job]
          /\ kids[v][c].state = from /\ lock'[v] = lock[v]
      BY <1>0, <1>3, <2>2 DEF ChildMoves
    <3>2. HasFlow(v)
      BY <1>0, <3>1
    <3>3. \A q \in Children : \/ kids'[v][q] = kids[v][q]
                              \/ kids[v][q].state \notin Terminal
      BY <1>0, <3>1 DEF Terminal
    <3>4. \/ orch'[v] = orch[v]
          \/ /\ orch[v].state = "blocked" /\ orch'[v].state = "waiting"
             /\ AllDone(v)' \/ SomeFailed(v)'
      <4>1. /\ InState(kids'[v], {"failed"}) # {} => SomeFailed(v)'
            /\ InState(kids'[v], {"completed"}) = Children => AllDone(v)'
        BY DEF InState, SomeFailed, AllDone
      <4>2. \/ ParentAfter(orch[v], kids'[v]) = orch[v]
            \/ /\ orch[v].state = "blocked"
               /\ ParentAfter(orch[v], kids'[v]).state = "waiting"
               /\ \/ InState(kids'[v], {"failed"}) # {}
                  \/ InState(kids'[v], {"completed"}) = Children
        BY <1>0, ParentMoves
      <4>3. QED
        BY <3>1, <4>1, <4>2
    <3>5. HasFlow(v)'
      BY <3>2, <3>4 DEF HasFlow
    <3>6. lock'[v] # None => orch'[v].state = "active"
      BY <1>0, <3>1, <3>4
    <3>7. QED
      BY <3>3, <3>4, <3>5, <3>6 DEF FlowMove
  <2>3. QED
    BY <2>1, <2>2
<1>4. ASSUME NEW i \in Instances, NEW w \in Videos, TakeJob(i, w)
      PROVE  FlowMove(v)
  <2>1. CASE v # w
    BY <1>0, <1>1, <1>4, <2>1 DEF TakeJob
  <2>2. CASE v = w
    <3>1. /\ orch[v].state = "waiting" /\ orch'[v].state = "active"
          /\ kids' = kids
      BY <1>0, <1>4, <2>2, JobMoves DEF TakeJob, JobStates
    <3>2. QED
      BY <3>1 DEF FlowMove
  <2>3. QED
    BY <2>1, <2>2
<1>5. ASSUME NEW i \in Instances, NEW ok \in BOOLEAN, Prune(i, ok)
      PROVE  FlowMove(v)
  <2>1. wjob[i] \in Videos /\ Started(wjob[i])
    BY <1>5 DEF Prune, IInv, WorkerInv, WorkerOK
  <2>2. CASE v # wjob[i]
    BY <1>0, <1>1, <1>5, <2>1, <2>2 DEF Prune
  <2>3. CASE v = wjob[i]
    <3>1. \A c \in Children : \/ kids'[v][c] = kids[v][c]
                              \/ kids[v][c].state \notin Terminal
      BY <1>0, <1>5, <2>3 DEF Prune, Terminal
    <3>2. HasFlow(v)' /\ orch' = orch /\ lock' = lock
      BY <1>5, <2>1, <2>3 DEF Prune, HasFlow, Started
    <3>3. QED
      BY <1>0, <3>1, <3>2 DEF FlowMove
  <2>4. QED
    BY <2>2, <2>3
<1>6. ASSUME NEW i \in Instances, CompleteJob(i) PROVE FlowMove(v)
  <2>1. CASE v # wjob[i]
    BY <1>0, <1>1, <1>6, <2>1 DEF CompleteJob
  <2>2. CASE v = wjob[i]
    <3>1. orch'[v] = FreshJob("completed") /\ lock'[v] = None /\ kids' = kids
      BY <1>0, <1>6, <2>2 DEF CompleteJob
    <3>2. orch[v].state = "active"
      BY <1>0, <1>6, <2>2 DEF CompleteJob
    <3>3. QED
      BY <1>6, <2>2, <3>1, <3>2 DEF CompleteJob, FlowMove, FreshJob
  <2>3. QED
    BY <2>1, <2>2
<1>7. ASSUME NEW i \in Instances, FailAttempt(i) PROVE FlowMove(v)
  <2>1. CASE v # wjob[i] \/ lock[v] # i
    BY <1>0, <1>1, <1>7, <2>1 DEF FailAttempt
  <2>2. CASE v = wjob[i] /\ lock[v] = i
    <3>1. orch'[v] = AfterFailure(orch[v]) /\ lock'[v] = None /\ kids' = kids
      BY <1>0, <1>7, <2>2 DEF FailAttempt
    <3>2. orch[v].state = "active" /\ orch'[v].state \in {"waiting", "failed"}
      BY <1>0, <2>2, <3>1, JobMoves
    <3>3. QED
      BY <3>1, <3>2 DEF FlowMove
  <2>3. QED
    BY <2>1, <2>2
<1>8. ASSUME NEW w \in Videos, Stall(w) PROVE FlowMove(v)
  <2>1. CASE v # w
    BY <1>0, <1>1, <1>8, <2>1 DEF Stall
  <2>2. CASE v = w
    <3>1. orch'[v] = AfterStall(orch[v]) /\ lock'[v] = None /\ kids' = kids
      BY <1>0, <1>8, <2>2 DEF Stall
    <3>2. orch[v].state = "active" /\ orch'[v].state \in {"waiting", "failed"}
      BY <1>0, <1>8, <2>2, <3>1, JobMoves DEF Stall
    <3>3. QED
      BY <3>1, <3>2 DEF FlowMove
  <2>3. QED
    BY <2>1, <2>2
<1>9. UNCHANGED <<orch, kids, lock>> => FlowMove(v)
  BY <1>1
<1>10. QED
  BY <1>2, <1>3, <1>4, <1>5, <1>6, <1>7, <1>8, <1>9, LoudSteps
  DEF Quiet, ClaimInsert, ClaimUpdate, FinishUpdate, PublishResult, flowVars

(* What is announced is what a worker was about to publish.                 *)
LEMMA AnnounceStep ==
    ASSUME IInv, [Next]_vars
    PROVE  \/ announced' = announced
           \/ \E i \in Instances :
                wpc[i] = "publish" /\ announced' = announced \cup {wresult[i]}
  BY LoudSteps
  DEF Quiet, ClaimInsert, ClaimUpdate, AddFlow, ChildMoves, TakeJob, Prune,
      FinishUpdate, PublishResult, CompleteJob, FailAttempt, Stall

(* Nothing that was reached is taken back.                                  *)
Grows(v) ==
    /\ HasFlow(v) => HasFlow(v)'
    /\ Started(v) => Started(v)'
    /\ Claimed(v) => Claimed(v)'
    /\ row[v].status # "absent" => row'[v].status # "absent"
    /\ row[v].status \in Terminal => row'[v] = row[v]
    /\ \A c \in Children :
         kids[v][c].state \in Terminal => kids'[v][c] = kids[v][c]
    /\ announced \subseteq announced'

(* So it is for every video and every step.                                 *)
LEMMA GrowStep ==
    ASSUME IInv, [Next]_vars, NEW v \in Videos
    PROVE  Grows(v)
<1>1. HasFlow(v) => HasFlow(v)'
  BY FlowStep DEF FlowMove, HasFlow
<1>2. Started(v) => Started(v)'
  BY FlowStep DEF FlowMove, Started
<1>3. ASSUME NEW i \in Instances, wpc[i] = "finish", wjob[i] = v
      PROVE  wresult[i].status \in Terminal
  BY <1>3 DEF IInv, WorkerInv, WorkerOK, Verdict, Results, FailedResults,
              CompletedResults, Terminal
<1>4. \/ row'[v] = row[v]
      \/ row[v].status = "absent" /\ row'[v].status = "pending"
      \/ row[v].status = "pending" /\ row'[v].status = "in_progress"
      \/ row[v].status = "in_progress" /\ row'[v].status \in Terminal
  <2>1. ASSUME NEW i \in Instances, wpc[i] = "finish", wjob[i] = v,
               row'[v] = Row(wresult[i].status, wresult[i])
        PROVE  row'[v].status \in Terminal
    <3>1. row'[v].status = wresult[i].status
      BY <2>1 DEF Row
    <3>2. QED
      BY <1>3, <2>1, <3>1
  <2>2. \A s, r : Row(s, r).status = s
    BY DEF Row
  <2>3. QED
    BY <2>1, <2>2, RowStep DEF RowMove
<1>5. /\ Claimed(v) => Claimed(v)'
      /\ row[v].status # "absent" => row'[v].status # "absent"
  BY <1>4 DEF Claimed, Terminal
<1>6. row[v].status \in Terminal => row'[v] = row[v]
  BY RowStep DEF RowMove, Terminal
<1>7. \A c \in Children :
         kids[v][c].state \in Terminal => kids'[v][c] = kids[v][c]
  BY FlowStep DEF FlowMove
<1>8. announced \subseteq announced'
  BY AnnounceStep
<1>9. QED
  BY <1>1, <1>2, <1>5, <1>6, <1>7, <1>8 DEF Grows

(* Children that were done, or had failed, still are; so a verdict they      *)
(* justified they still justify.                                            *)
LEMMA VerdictStays ==
    ASSUME NEW v \in Videos, Grows(v)
    PROVE  /\ AllDone(v) => AllDone(v)'
           /\ SomeFailed(v) => SomeFailed(v)'
           /\ InState(kids[v], {"failed"}) \subseteq InState(kids'[v], {"failed"})
           /\ \A result : Verdict(v, result) => Verdict(v, result)'
<1>1. \A c \in Children : \A s \in Terminal :
         kids[v][c].state = s => kids'[v][c].state = s
  BY DEF Grows
<1>2. AllDone(v) => AllDone(v)'
  BY <1>1 DEF AllDone, Terminal
<1>3. SomeFailed(v) => SomeFailed(v)'
  BY <1>1 DEF SomeFailed, Terminal
<1>4. InState(kids[v], {"failed"}) \subseteq InState(kids'[v], {"failed"})
  BY <1>1 DEF InState, Terminal
<1>5. ASSUME NEW result, Verdict(v, result) PROVE Verdict(v, result)'
  BY <1>2, <1>4, <1>5 DEF Verdict
<1>6. QED
  BY <1>2, <1>3, <1>4, <1>5

-----------------------------------------------------------------------------
(* Each part of the invariant is kept by every step.                        *)

(* A flow is created on a claimed row and started by its children.          *)
LEMMA FlowInvStep ==
    ASSUME IInv, [Next]_vars
    PROVE  FlowInv'
<1> SUFFICES ASSUME NEW v \in Videos
             PROVE  /\ orch'[v].state # "removed"
                    /\ ~HasFlow(v)' =>
                         \A c \in Children : kids'[v][c].state = "absent"
                    /\ HasFlow(v)' => Claimed(v)'
                    /\ Started(v)' => AllDone(v)' \/ SomeFailed(v)'
                    /\ lock'[v] # None => orch'[v].state = "active"
  BY DEF FlowInv
<1>0. /\ orch[v].state # "removed"
      /\ ~HasFlow(v) => \A c \in Children : kids[v][c].state = "absent"
      /\ HasFlow(v) => Claimed(v)
      /\ Started(v) => AllDone(v) \/ SomeFailed(v)
  BY DEF IInv, FlowInv
<1>1. FlowMove(v) /\ Grows(v)
  BY FlowStep, GrowStep
<1>2. orch'[v].state # "removed"
  BY <1>0, <1>1 DEF FlowMove
<1>3. ~HasFlow(v)' => \A c \in Children : kids'[v][c].state = "absent"
  BY <1>0, <1>1 DEF FlowMove, Grows
<1>4. HasFlow(v)' => Claimed(v)'
  <2>1. HasFlow(v)' => HasFlow(v) \/ Claimed(v)
    BY <1>1 DEF FlowMove, HasFlow
  <2>2. QED
    BY <1>0, <1>1, <2>1 DEF Grows
<1>5. Started(v)' => AllDone(v)' \/ SomeFailed(v)'
  <2>1. Started(v)' => Started(v) \/ AllDone(v)' \/ SomeFailed(v)'
    BY <1>1 DEF FlowMove, Started
  <2>2. QED
    BY <1>0, <1>1, <2>1, VerdictStays
<1>6. QED
  BY <1>1, <1>2, <1>3, <1>4, <1>5 DEF FlowMove

(* A verdict is stored by a worker that computed it.                        *)
LEMMA RowInvStep ==
    ASSUME IInv, [Next]_vars
    PROVE  RowInv'
<1> SUFFICES ASSUME NEW v \in Videos
             PROVE  IF row'[v].status \in Terminal
                    THEN /\ Verdict(v, row[v].result)'
                         /\ row'[v].status = row'[v].result.status
                         /\ HasFlow(v)'
                    ELSE row'[v].result = None
  BY DEF RowInv
<1>0. IF row[v].status \in Terminal
      THEN /\ Verdict(v, row[v].result)
           /\ row[v].status = row[v].result.status
           /\ HasFlow(v)
      ELSE row[v].result = None
  BY DEF IInv, RowInv
<1>1. Grows(v)
  BY GrowStep
<1>2. CASE row[v].status \in Terminal
  <2>1. row'[v] = row[v] /\ HasFlow(v)'
    BY <1>0, <1>1, <1>2 DEF Grows
  <2>2. Verdict(v, row[v].result)'
    <3>1. \A result : Verdict(v, result) => Verdict(v, result)'
      BY <1>1, VerdictStays
    <3>2. QED
      BY <1>0, <1>2, <2>1, <3>1 DEF Verdict
  <2>3. QED
    BY <1>0, <1>2, <2>1, <2>2
<1>3. ASSUME NEW i \in Instances, wpc[i] = "finish", wjob[i] = v,
             row'[v] = Row(wresult[i].status, wresult[i])
      PROVE  /\ row'[v].status \in Terminal
             /\ Verdict(v, row[v].result)'
             /\ row'[v].status = row'[v].result.status
             /\ HasFlow(v)'
  <2> DEFINE result == wresult[i]
  <2>1. Verdict(v, result) /\ Started(v)
    BY <1>3 DEF IInv, WorkerInv, WorkerOK
  <2>2. row'[v].status = result.status /\ row'[v].result = result
    BY <1>3 DEF Row
  <2>3. result.status \in Terminal
    BY <2>1 DEF Verdict, Results, FailedResults, CompletedResults, Terminal
  <2>4. HasFlow(v)'
    BY <1>1, <2>1 DEF Grows, Started, HasFlow
  <2>5. Verdict(v, row[v].result)'
    <3>1. \A r : Verdict(v, r) => Verdict(v, r)'
      BY <1>1, VerdictStays
    <3> HIDE DEF result
    <3>2. QED
      BY <2>1, <2>2, <3>1 DEF Verdict
  <2>6. QED
    BY <2>2, <2>3, <2>4, <2>5
<1>4. CASE row[v].status \notin Terminal
  <2>1. row[v].result = None
    BY <1>0, <1>4
  <2>2. CASE row'[v] = row[v]
    BY <1>4, <2>1, <2>2
  <2>3. CASE row'[v] = Row("pending", None) \/ row'[v] = Row("in_progress", row[v].result)
    BY <2>1, <2>3 DEF Row, Terminal
  <2>4. QED
    BY <1>3, <2>2, <2>3, RowStep DEF RowMove
<1>5. QED
  BY <1>2, <1>4

(* What is announced is stored, and a job completes after its announcement. *)
LEMMA AnnouncedInvStep ==
    ASSUME IInv, [Next]_vars
    PROVE  AnnouncedInv'
<1>0. /\ row \in [Videos -> [status : RowStatuses, result : Results \cup {None}]]
      /\ announced \subseteq Results
  BY DEF IInv, TypeOK
<1>1. \A r \in Results : r.videoId \in Videos
  BY DEF Results, FailedResults, CompletedResults
<1>2. ASSUME NEW r \in Results, row[r.videoId] = Row(r.status, r)
      PROVE  row'[r.videoId] = Row(r.status, r)
  <2>1. r.videoId \in Videos /\ r.status \in Terminal
    BY <1>1 DEF Results, FailedResults, CompletedResults, Terminal
  <2>2. Grows(r.videoId)
    BY <2>1, GrowStep
  <2>3. QED
    BY <1>2, <2>1, <2>2 DEF Grows, Row
<1>3. ASSUME NEW i \in Instances, wpc[i] = "publish"
      PROVE  wresult[i] \in Results /\ row[wresult[i].videoId] = Row(wresult[i].status, wresult[i])
  <2> DEFINE v == wjob[i]
             r == wresult[i]
  <2>1. v \in Videos /\ row[v].status \in Terminal /\ row[v].result = r
    BY <1>3 DEF IInv, WorkerInv, WorkerOK
  <2>2. Verdict(v, r) /\ row[v].status = r.status
    BY <2>1 DEF IInv, RowInv
  <2>3. row[v] = Row(r.status, r)
    BY <1>0, <2>1, <2>2 DEF Row
  <2>4. QED
    BY <2>2, <2>3 DEF Verdict
<1>4. AnnouncedIsPersisted'
  <2> SUFFICES ASSUME NEW r \in announced'
               PROVE  row'[r.videoId] = Row(r.status, r)
    BY DEF AnnouncedIsPersisted, Row
  <2>1. r \in Results /\ row[r.videoId] = Row(r.status, r)
    BY <1>0, <1>3, AnnounceStep DEF IInv, AnnouncedInv, AnnouncedIsPersisted
  <2>2. QED
    BY <1>2, <2>1
<1>5. ASSUME NEW v \in Videos, orch'[v].state = "completed"
      PROVE  row'[v].status \in Terminal /\ row'[v].result \in announced'
  <2>1. row[v].status \in Terminal /\ row[v].result \in announced
    <3>1. CASE orch[v].state = "completed"
      BY <3>1 DEF IInv, AnnouncedInv
    <3>2. CASE \E i \in Instances : wpc[i] = "complete" /\ wjob[i] = v
      BY <3>2 DEF IInv, WorkerInv, WorkerOK
    <3>3. QED
      BY <1>5, <3>1, <3>2, FlowStep DEF FlowMove
  <2>2. QED
    BY <2>1, GrowStep DEF Grows
<1>6. QED
  BY <1>4, <1>5 DEF AnnouncedInv

(* A worker that does not move keeps its part of the invariant.             *)
LEMMA WorkerStays ==
    ASSUME IInv, [Next]_vars, NEW i \in Instances,
           wpc'[i] = wpc[i], wjob'[i] = wjob[i],
           wseen'[i] = wseen[i], wresult'[i] = wresult[i]
    PROVE  WorkerOK(i)'
<1> DEFINE v == wjob[i]
<1>0. WorkerOK(i)
  BY DEF IInv, WorkerInv
<1>1. CASE wpc[i] = "idle"
  BY <1>1 DEF WorkerOK
<1>2. CASE wpc[i] # "idle"
  <2>1. v \in Videos /\ Started(v)
    BY <1>0, <1>2 DEF WorkerOK
  <2>2. Grows(v)
    BY <2>1, GrowStep
  <2>3. Started(v)'
    BY <2>1, <2>2 DEF Grows
  <2>4. wpc[i] = "prune" =>
          wseen[i] # {} /\ wseen[i] \subseteq InState(kids'[v], {"failed"})
    <3>1. InState(kids[v], {"failed"}) \subseteq InState(kids'[v], {"failed"})
      BY <2>1, <2>2, VerdictStays
    <3>2. QED
      BY <1>0, <3>1 DEF WorkerOK
  <2>5. wpc[i] = "readValues" => AllDone(v)'
    BY <1>0, <2>1, <2>2, VerdictStays DEF WorkerOK
  <2>6. wpc[i] = "finish" => Verdict(v, wresult[i])'
    <3>1. \A r : Verdict(v, r) => Verdict(v, r)'
      BY <2>1, <2>2, VerdictStays
    <3>2. ASSUME wpc[i] = "finish" PROVE Verdict(v, wresult[i])'
      <4>1. Verdict(v, wresult[i])
        BY <1>0, <3>2 DEF WorkerOK
      <4>2. QED
        BY <3>1, <4>1 DEF Verdict
    <3>3. QED
      BY <3>2
  <2>7. row[v].status \in Terminal =>
          row'[v] = row[v] /\ announced \subseteq announced'
    BY <2>2 DEF Grows
  <2>8. /\ wpc[i] = "reread" => row'[v].status \in Terminal
        /\ wpc[i] = "publish" =>
             row'[v].status \in Terminal /\ row'[v].result = wresult[i]
        /\ wpc[i] = "complete" =>
             row'[v].status \in Terminal /\ row'[v].result \in announced'
    BY <1>0, <2>7 DEF WorkerOK
  <2>9. QED
    BY <2>1, <2>3, <2>4, <2>5, <2>6, <2>8 DEF WorkerOK, Verdict
<1>3. QED
  BY <1>1, <1>2

(* What a worker's step sets, and that the other workers do not move.       *)
LEMMA WorkerLocals ==
    ASSUME IInv, NEW i \in Instances, NEW pc, NEW v, NEW seen, NEW result,
           WorkerIs(i, pc, v, seen, result)
    PROVE  /\ wpc'[i] = pc /\ wjob'[i] = v
           /\ wseen'[i] = seen /\ wresult'[i] = result
           /\ \A j \in Instances \ {i} :
                /\ wpc'[j] = wpc[j] /\ wjob'[j] = wjob[j]
                /\ wseen'[j] = wseen[j] /\ wresult'[j] = wresult[j]
  BY DEF IInv, TypeOK, WorkerIs

(* Every step that moves a worker is one of these.                          *)
LEMMA WorkerMoves ==
    ASSUME IInv, [Next]_vars, NEW j \in Instances
    PROVE  \/ /\ wpc'[j] = wpc[j] /\ wjob'[j] = wjob[j]
              /\ wseen'[j] = wseen[j] /\ wresult'[j] = wresult[j]
           \/ \E v \in Videos : TakeJob(j, v)
           \/ WorkerStep(j)
           \/ wpc'[j] = "idle"
<1> DEFINE Still == /\ wpc'[j] = wpc[j] /\ wjob'[j] = wjob[j]
                    /\ wseen'[j] = wseen[j] /\ wresult'[j] = wresult[j]
<1>1. UNCHANGED workerVars => Still
  BY DEF workerVars
<1>2. ASSUME NEW i \in Instances, i # j,
             \E pc, v, seen, result : WorkerIs(i, pc, v, seen, result)
      PROVE  Still
  BY <1>2, WorkerLocals
<1>3. ASSUME NEW i \in Instances, HandlerStep(i) PROVE Still
  BY <1>1, <1>3
  DEF HandlerStep, ClaimInsert, ClaimUpdate, AddFlow, ClaimSelect,
      HandlerRejected, AckUpload, RetryOrDeadLetter, NackRequeue
<1>4. ASSUME NEW i \in Instances, NEW v \in Videos, TakeJob(i, v), i # j
      PROVE  Still
  BY <1>2, <1>4 DEF TakeJob
<1>5. ASSUME NEW i \in Instances, WorkerStep(i), i # j
      PROVE  Still
  <2>1. \A pc, result, ok : WorkerGoes(i, pc, result, ok) =>
          \E p, v, seen, r : WorkerIs(i, p, v, seen, r)
    BY Zenon DEF WorkerGoes, WorkerThrows
  <2>2. /\ WorkerThrows(i) => \E p, v, seen, r : WorkerIs(i, p, v, seen, r)
        /\ WorkerIdles(i) => \E p, v, seen, r : WorkerIs(i, p, v, seen, r)
    BY DEF WorkerThrows, WorkerIdles
  <2>3. \/ \E pc, result, ok : WorkerGoes(i, pc, result, ok)
        \/ WorkerThrows(i) \/ WorkerIdles(i)
        \/ \E p, v, seen, r : WorkerIs(i, p, v, seen, r)
    <3>1. ASSUME NEW ok \in BOOLEAN, FinishUpdate(i, ok)
          PROVE  \E pc, result : WorkerGoes(i, pc, result, ok)
      BY <3>1, Zenon DEF FinishUpdate
    <3>2. ASSUME NEW ok \in BOOLEAN, Prune(i, ok)
          PROVE  \E pc, result : WorkerGoes(i, pc, result, ok)
      BY <3>2, Zenon DEF Prune
    <3>3. ASSUME NEW ok \in BOOLEAN, PublishResult(i, ok)
          PROVE  \E pc, result : WorkerGoes(i, pc, result, ok)
      BY <3>3, Zenon DEF PublishResult
    <3>4. ASSUME Reread(i) \/ ReadValues(i)
          PROVE  \E pc, result, ok : WorkerGoes(i, pc, result, ok)
      BY <3>4, Zenon DEF Reread, ReadValues
    <3>5. ASSUME WorkerRejected(i) \/ CompletionRefused(i)
          PROVE  WorkerThrows(i)
      BY <3>5 DEF WorkerRejected, CompletionRefused
    <3>6. ASSUME CompleteJob(i) \/ FailAttempt(i)
          PROVE  WorkerIdles(i)
      BY <3>6, Zenon DEF CompleteJob, FailAttempt
    <3>7. ASSUME ReadFailures(i)
          PROVE  \E p, v, seen, r : WorkerIs(i, p, v, seen, r)
      BY <3>7, Zenon DEF ReadFailures
    <3>8. QED
      BY <1>5, <3>1, <3>2, <3>3, <3>4, <3>5, <3>6, <3>7 DEF WorkerStep
  <2>4. QED
    BY <1>2, <1>5, <2>1, <2>2, <2>3
<1>6. ASSUME NEW i \in Instances, Crash(i)
      PROVE  Still \/ wpc'[j] = "idle"
  <2>1. WorkerIs(i, "idle", None, {}, None)
    BY <1>6 DEF Crash, WorkerIdles
  <2>2. QED
    BY <1>2, <2>1, WorkerLocals
<1>7. QED
  BY <1>1, <1>3, <1>4, <1>5, <1>6
  DEF Next, UploadPublished, Deliver, RetryDelayExpires, ChildStarts, ChildRuns,
      ChildCompletes, ChildFails, ChildStalls, ChildMoves, Stall, vars

(* What a worker does next is right: it reads children that have ended,      *)
(* computes a verdict they justify, and publishes what is stored.           *)
LEMMA WorkerInvStep ==
    ASSUME IInv, [Next]_vars
    PROVE  WorkerInv'
<1> SUFFICES ASSUME NEW i \in Instances, NEW v, v = wjob[i]
             PROVE  WorkerOK(i)'
  BY DEF WorkerInv
<1>0. WorkerOK(i) /\ TypeOK
  BY DEF IInv, WorkerInv
<1>1. ASSUME NEW w \in Videos, TakeJob(i, w) PROVE WorkerOK(i)'
  <2>1. wpc'[i] = "readFailures" /\ wjob'[i] = w
    BY <1>1, WorkerLocals DEF TakeJob
  <2>2. Started(w)
    BY <1>1 DEF TakeJob, Started
  <2>3. Started(w)'
    BY <2>2, GrowStep DEF Grows
  <2>4. QED
    BY <2>1, <2>3 DEF WorkerOK
<1>2. ASSUME WorkerStep(i) PROVE v \in Videos /\ Started(v) /\ wpc[i] # "idle"
  BY <1>0, <1>2
  DEF WorkerStep, Prune, FinishUpdate, PublishResult, ReadFailures, ReadValues,
      Reread, WorkerRejected, CompleteJob, CompletionRefused, FailAttempt,
      WorkerOK
<1>3. ASSUME WorkerStep(i) PROVE Grows(v) /\ Started(v)'
  BY <1>2, <1>3, GrowStep DEF Grows
<1>4. ASSUME WorkerThrows(i), WorkerStep(i) PROVE WorkerOK(i)'
  <2>1. wpc'[i] = "failing" /\ wjob'[i] = v
    BY <1>4, WorkerLocals DEF WorkerThrows
  <2>2. QED
    BY <1>2, <1>3, <1>4, <2>1 DEF WorkerOK
<1>5. ASSUME NEW pc, NEW result, NEW ok \in BOOLEAN,
             WorkerGoes(i, pc, result, ok), WorkerStep(i)
      PROVE  \/ WorkerOK(i)'
             \/ wpc'[i] = pc /\ wjob'[i] = v /\ wresult'[i] = result
  <2>1. WorkerThrows(i) \/ WorkerIs(i, pc, v, {}, result)
    BY <1>5, Zenon DEF WorkerGoes
  <2>2. QED
    BY <1>4, <1>5, <2>1, WorkerLocals
<1>6. ASSUME NEW ok \in BOOLEAN, Prune(i, ok), WorkerStep(i) PROVE WorkerOK(i)'
  <2> PICK result : result = AggregateProcessingResults(v, NoChildren,
                                                        FailureTexts(wseen[i]))
    OBVIOUS
  <2>1. wseen[i] # {} /\ wseen[i] \subseteq InState(kids[v], {"failed"})
    BY <1>0, <1>6 DEF Prune, WorkerOK
  <2>2. Verdict(v, result)
    BY <1>2, <1>6, <2>1, FailedVerdict
  <2>3. WorkerGoes(i, "finish", result, ok)
    BY <1>6 DEF Prune
  <2>4. Verdict(v, result)'
    BY <1>2, <1>3, <1>6, <2>2, VerdictStays
  <2>5. \/ WorkerOK(i)'
        \/ wpc'[i] = "finish" /\ wjob'[i] = v /\ wresult'[i] = result
    BY <1>5, <1>6, <2>3
  <2>6. QED
    BY <1>2, <1>3, <1>6, <2>4, <2>5 DEF WorkerOK, Verdict
<1>7. ASSUME ReadValues(i), WorkerStep(i) PROVE WorkerOK(i)'
  <2> PICK result : result = AggregateProcessingResults(v,
                       [c \in Children |-> ChildValue(v, c)], NoChildren)
    OBVIOUS
  <2>1. AllDone(v)
    BY <1>0, <1>7 DEF ReadValues, WorkerOK
  <2>2. Verdict(v, result)
    BY <1>2, <1>7, <2>1, DoneVerdict
  <2>3. WorkerGoes(i, "finish", result, TRUE)
    <3>1. InState(kids[v], {"completed"}) = Children
      BY <2>1 DEF AllDone, InState
    <3>2. QED
      BY <1>7, <3>1 DEF ReadValues
  <2>4. Verdict(v, result)'
    BY <1>2, <1>3, <1>7, <2>2, VerdictStays
  <2>5. \/ WorkerOK(i)'
        \/ wpc'[i] = "finish" /\ wjob'[i] = v /\ wresult'[i] = result
    BY <1>5, <1>7, <2>3
  <2>6. QED
    BY <1>2, <1>3, <1>7, <2>4, <2>5 DEF WorkerOK, Verdict
<1>8. ASSUME ReadFailures(i), WorkerStep(i) PROVE WorkerOK(i)'
  <2> DEFINE seen == InState(kids[v], {"failed"})
  <2>1. /\ wpc'[i] = IF seen # {} THEN "prune" ELSE "readValues"
        /\ wjob'[i] = v /\ wseen'[i] = seen
    BY <1>8, WorkerLocals DEF ReadFailures
  <2>2. kids' = kids
    BY <1>8 DEF ReadFailures, flowVars
  <2>3. seen = {} => AllDone(v)
    <3>1. AllDone(v) \/ SomeFailed(v)
      BY <1>2, <1>8 DEF IInv, FlowInv
    <3>2. SomeFailed(v) => seen # {}
      BY DEF SomeFailed, InState
    <3>3. QED
      BY <3>1, <3>2
  <2>4. AllDone(v) => AllDone(v)'
    BY <1>2, <1>3, <1>8, VerdictStays
  <2>5. QED
    BY <1>2, <1>3, <1>8, <2>1, <2>2, <2>3, <2>4 DEF WorkerOK
<1>9. ASSUME NEW ok \in BOOLEAN, FinishUpdate(i, ok), WorkerStep(i)
      PROVE  WorkerOK(i)'
  <2> DEFINE r == wresult[i]
  <2>1. Verdict(v, r) /\ r.status \in Terminal
    BY <1>0, <1>9 DEF FinishUpdate, WorkerOK, Verdict, Results, FailedResults,
                      CompletedResults, Terminal
  <2>2. CASE row[v].status = "in_progress"
    <3>1. row'[v] = Row(r.status, r)
      BY <1>0, <1>2, <1>9, <2>2 DEF FinishUpdate, TypeOK
    <3>2. row'[v].status \in Terminal /\ row'[v].result = r
      BY <2>1, <3>1 DEF Row
    <3>3. WorkerGoes(i, "publish", r, ok)
      BY <1>9, <2>2, Zenon DEF FinishUpdate
    <3>4. \/ WorkerOK(i)'
          \/ wpc'[i] = "publish" /\ wjob'[i] = v /\ wresult'[i] = r
      BY <1>5, <1>9, <3>3
    <3>5. QED
      BY <1>2, <1>3, <1>9, <3>2, <3>4 DEF WorkerOK
  <2>3. CASE row[v].status # "in_progress"
    <3>1. row[v].status \in Terminal
      <4>1. Claimed(v)
        BY <1>2, <1>9 DEF IInv, FlowInv, Started, HasFlow
      <4>2. QED
        BY <2>3, <4>1 DEF Claimed
    <3>2. row'[v].status \in Terminal
      BY <1>3, <1>9, <3>1 DEF Grows
    <3>3. WorkerGoes(i, "reread", None, ok)
      BY <1>9, <2>3, Zenon DEF FinishUpdate
    <3>4. \/ WorkerOK(i)'
          \/ wpc'[i] = "reread" /\ wjob'[i] = v /\ wresult'[i] = None
      BY <1>5, <1>9, <3>3
    <3>5. QED
      BY <1>2, <1>3, <1>9, <3>2, <3>4 DEF WorkerOK
  <2>4. QED
    BY <2>2, <2>3
<1>10. ASSUME Reread(i), WorkerStep(i) PROVE WorkerOK(i)'
  <2>1. row[v].status \in Terminal /\ row' = row
    BY <1>0, <1>10 DEF Reread, WorkerOK
  <2>2. \E ok \in BOOLEAN : WorkerGoes(i, "publish", row[v].result, ok)
    <3>1. (row[v].result # None /\ IsPipelineResult(row[v].result)) \in BOOLEAN
      BY DEF IsPipelineResult
    <3>2. QED
      BY <1>10, <3>1, Zenon DEF Reread
  <2>3. \/ WorkerOK(i)'
        \/ wpc'[i] = "publish" /\ wjob'[i] = v /\ wresult'[i] = row[v].result
    BY <1>5, <1>10, <2>2
  <2>4. QED
    BY <1>2, <1>3, <1>10, <2>1, <2>3 DEF WorkerOK
<1>11. ASSUME NEW ok \in BOOLEAN, PublishResult(i, ok), WorkerStep(i)
       PROVE  WorkerOK(i)'
  <2>1. row'[v].status \in Terminal /\ row'[v].result \in announced'
    BY <1>0, <1>11 DEF PublishResult, WorkerOK
  <2>2. WorkerGoes(i, "complete", None, ok)
    BY <1>11 DEF PublishResult
  <2>3. \/ WorkerOK(i)'
        \/ wpc'[i] = "complete" /\ wjob'[i] = v /\ wresult'[i] = None
    BY <1>5, <1>11, <2>2
  <2>4. QED
    BY <1>2, <1>3, <1>11, <2>1, <2>3 DEF WorkerOK
<1>12. ASSUME WorkerRejected(i) \/ CompletionRefused(i), WorkerStep(i)
       PROVE  WorkerOK(i)'
  BY <1>4, <1>12 DEF WorkerRejected, CompletionRefused
<1>13. wpc'[i] = "idle" => WorkerOK(i)'
  BY DEF WorkerOK
<1>14. ASSUME CompleteJob(i) \/ FailAttempt(i) PROVE WorkerOK(i)'
  <2>1. WorkerIs(i, "idle", None, {}, None)
    BY <1>14 DEF CompleteJob, FailAttempt, WorkerIdles
  <2>2. QED
    BY <1>13, <2>1, WorkerLocals
<1>15. ASSUME WorkerStep(i) PROVE WorkerOK(i)'
  BY <1>6, <1>7, <1>8, <1>9, <1>10, <1>11, <1>12, <1>14, <1>15 DEF WorkerStep
<1>16. QED
  BY <1>1, <1>13, <1>15, WorkerMoves, WorkerStays

(* How a copy of the message changes.                                       *)
CopyMove(d) ==
    \/ copies'[d] = copies[d]
    \/ copies[d].place = "unsent" /\ copies'[d].place = "queue"
       /\ copies'[d].video \in Videos /\ copies'[d].retries = copies[d].retries
    \/ /\ copies'[d].video = copies[d].video
       /\ copies'[d].retries = copies[d].retries
       /\ <<copies[d].place, copies'[d].place>>
            \in {<<"queue", "unacked">>, <<"retry", "queue">>}
    \/ \E i \in Instances :
         /\ hpc[i] # "idle" /\ hmsg[i] = d
         /\ copies'[d].video = copies[d].video
         /\ copies'[d].place \in {"done", "queue", "retry", "dead"}
         /\ copies'[d].place = "done" => hpc[i] = "ack"
         /\ copies'[d].place \in {"queue", "retry"} =>
              copies'[d].retries <= MaxRetries

(* How a handler moves: it waits, takes a copy, lets go of it, or goes on to *)
(* a statement that finds what it expects.                                  *)
HandlerMove(i) ==
    \/ /\ hpc'[i] = hpc[i] /\ hmsg'[i] = hmsg[i]
       /\ hpc[i] # "idle" => copies'[hmsg[i]] = copies[hmsg[i]]
    \/ /\ hpc[i] = "idle" /\ hpc'[i] = "insert"
       /\ hmsg'[i] \in Deliveries
       /\ copies[hmsg'[i]].place = "queue"
       /\ copies'[hmsg'[i]].place = "unacked"
       /\ \A j \in Instances \ {i} : hmsg'[j] = hmsg[j]
    \/ hpc'[i] = "idle" /\ hmsg'[i] = None
    \/ /\ hpc[i] # "idle" /\ hpc'[i] # "idle" /\ hpc'[i] # "insert"
       /\ hmsg'[i] = hmsg[i] /\ copies' = copies
       /\ hpc'[i] = "update" => row'[HandledVideo(i)].status # "absent"
       /\ hpc'[i] \in {"select", "addFlow"} =>
            row'[HandledVideo(i)].status \in {"in_progress"} \cup Terminal
       /\ hpc'[i] = "ack" => orch'[HandledVideo(i)].state # "absent"

(* So a handler lets go of its copy, with or without a crash ...            *)
LEMMA CopyLeavesMoves ==
    ASSUME IInv, NEW i \in Instances, hpc[i] # "idle",
           NEW new, CopyLeaves(i, new), new.video = copies[hmsg[i]].video,
           new.place \in {"done", "queue", "retry", "dead"},
           new.place = "done" => hpc[i] = "ack",
           new.place \in {"queue", "retry"} => new.retries <= MaxRetries
    PROVE  /\ \A d \in Deliveries : CopyMove(d)
           /\ \A j \in Instances : HandlerMove(j)
<1>0. /\ TypeOK /\ None \notin Deliveries /\ hmsg[i] \in Deliveries
      /\ \A j, k \in Instances : hmsg[j] # None /\ j # k => hmsg[j] # hmsg[k]
      /\ \A j \in Instances : hpc[j] # "idle" => hmsg[j] \in Deliveries
  BY NoneAssumption DEF IInv, HandlerInv
<1>1. /\ copies'[hmsg[i]] = new
      /\ \A d \in Deliveries \ {hmsg[i]} : copies'[d] = copies[d]
  BY <1>0 DEF CopyLeaves, TypeOK
<1>2. ASSUME NEW d \in Deliveries PROVE CopyMove(d)
  <2>1. CASE d = hmsg[i]
    BY <1>1, <2>1 DEF CopyMove
  <2>2. CASE d # hmsg[i]
    BY <1>1, <2>2 DEF CopyMove
  <2>3. QED
    BY <2>1, <2>2
<1>3. hpc'[i] = "idle" /\ hmsg'[i] = None
  BY <1>0 DEF CopyLeaves, TypeOK
<1>4. ASSUME NEW j \in Instances \ {i} PROVE HandlerMove(j)
  <2>1. hpc'[j] = hpc[j] /\ hmsg'[j] = hmsg[j]
    BY <1>0 DEF CopyLeaves, TypeOK
  <2>2. hpc[j] # "idle" => hmsg[j] \in Deliveries \ {hmsg[i]}
    BY <1>0
  <2>3. QED
    BY <1>1, <2>1, <2>2 DEF HandlerMove
<1>5. QED
  BY <1>2, <1>3, <1>4 DEF HandlerMove

(* ... and goes through its statements ...                                  *)
LEMMA HandlerStepMoves ==
    ASSUME IInv, [Next]_vars, NEW i \in Instances, HandlerStep(i)
    PROVE  /\ \A d \in Deliveries : CopyMove(d)
           /\ \A j \in Instances : HandlerMove(j)
<1> DEFINE copy == copies[hmsg[i]]
<1> PICK v : v = HandledVideo(i)
  OBVIOUS
<1>0. TypeOK
  BY DEF IInv
<1>1. hpc[i] # "idle"
  BY DEF HandlerStep, ClaimInsert, ClaimUpdate, AddFlow, ClaimSelect,
         HandlerRejected, AckUpload, RetryOrDeadLetter, NackRequeue
<1>2. v \in Videos /\ hmsg[i] \in Deliveries /\ copy \in Copy
      /\ copy.retries \in 0..MaxRetries /\ copy.place = "unacked"
  BY <1>1, Handled
<1>3. Grows(v)
  BY <1>2, GrowStep
<1>4. ASSUME NEW pc, NEW ok \in BOOLEAN, HandlerGoes(i, pc, ok), copies' = copies,
             pc \notin {"idle", "insert"},
             pc = "update" => row'[v].status # "absent",
             pc \in {"select", "addFlow"} =>
               row'[v].status \in {"in_progress"} \cup Terminal,
             pc = "ack" => orch'[v].state # "absent"
      PROVE  /\ \A d \in Deliveries : CopyMove(d)
             /\ \A j \in Instances : HandlerMove(j)
  <2>1. hmsg' = hmsg /\ \A j \in Instances \ {i} : hpc'[j] = hpc[j]
    BY <1>0, <1>4 DEF HandlerGoes, TypeOK
  <2>2. hpc'[i] = pc \/ hpc'[i] = "failing"
    BY <1>0, <1>4 DEF HandlerGoes, TypeOK
  <2>3. HandlerMove(i)
    BY <1>1, <1>4, <2>1, <2>2 DEF HandlerMove
  <2>4. ASSUME NEW j \in Instances \ {i} PROVE HandlerMove(j)
    BY <1>4, <2>1 DEF HandlerMove
  <2>5. QED
    BY <1>4, <2>3, <2>4 DEF CopyMove
<1>5. ASSUME NEW ok \in BOOLEAN, ClaimInsert(i, ok)
      PROVE  /\ \A d \in Deliveries : CopyMove(d)
             /\ \A j \in Instances : HandlerMove(j)
  <2>1. row'[v].status # "absent"
    BY <1>0, <1>2, <1>5 DEF ClaimInsert, TypeOK, Row
  <2>2. HandlerGoes(i, "update", ok) /\ copies' = copies
    BY <1>5 DEF ClaimInsert
  <2>3. QED
    BY <1>4, <2>1, <2>2
<1>6. ASSUME NEW ok \in BOOLEAN, ClaimUpdate(i, ok)
      PROVE  /\ \A d \in Deliveries : CopyMove(d)
             /\ \A j \in Instances : HandlerMove(j)
  <2>1. row[v].status \in RowStatuses \ {"absent"}
    BY <1>0, <1>2, <1>6 DEF ClaimUpdate, TypeOK, IInv, HandlerInv
  <2>2. CASE row[v].status = "pending"
    <3>1. row' = [row EXCEPT ![v].status = "in_progress"]
          /\ HandlerGoes(i, "addFlow", ok) /\ copies' = copies
      BY <1>6, <2>2, Zenon DEF ClaimUpdate
    <3>2. row'[v].status = "in_progress"
      BY <1>0, <1>2, <3>1 DEF TypeOK
    <3>3. QED
      BY <1>4, <3>1, <3>2
  <2>3. CASE row[v].status # "pending"
    <3>1. row' = row /\ HandlerGoes(i, "select", ok) /\ copies' = copies
      BY <1>6, <2>3, Zenon DEF ClaimUpdate
    <3>2. row'[v].status \in {"in_progress"} \cup Terminal
      BY <2>1, <2>3, <3>1 DEF RowStatuses
    <3>3. QED
      BY <1>4, <3>1, <3>2
  <2>4. QED
    BY <2>2, <2>3
<1>7. ASSUME NEW ok \in BOOLEAN, AddFlow(i, ok)
      PROVE  /\ \A d \in Deliveries : CopyMove(d)
             /\ \A j \in Instances : HandlerMove(j)
  <2>1. orch'[v].state # "absent"
    BY <1>0, <1>2, <1>7 DEF AddFlow, TypeOK, FreshJob
  <2>2. HandlerGoes(i, "ack", ok) /\ copies' = copies
    BY <1>7 DEF AddFlow
  <2>3. QED
    BY <1>4, <2>1, <2>2
<1>8. ASSUME ClaimSelect(i)
      PROVE  /\ \A d \in Deliveries : CopyMove(d)
             /\ \A j \in Instances : HandlerMove(j)
  <2>1. Claimed(v) /\ row' = row /\ orch' = orch /\ copies' = copies
    BY <1>0, <1>8 DEF ClaimSelect, IInv, HandlerInv, flowVars
  <2>2. CASE row[v].status = "in_progress"
    <3>1. HandlerGoes(i, "addFlow", TRUE)
      BY <1>8, <2>2 DEF ClaimSelect
    <3>2. QED
      BY <1>4, <2>1, <2>2, <3>1
  <2>3. CASE row[v].status # "in_progress"
    <3>1. HandlerGoes(i, "ack", TRUE)
      BY <1>8, <2>3 DEF ClaimSelect
    <3>2. orch[v].state # "absent"
      BY <1>2, <2>1, <2>3 DEF Claimed, IInv, RowInv, HasFlow
    <3>3. QED
      BY <1>4, <2>1, <3>1, <3>2
  <2>4. QED
    BY <2>2, <2>3
<1>9. ASSUME HandlerRejected(i)
       PROVE  /\ \A d \in Deliveries : CopyMove(d)
              /\ \A j \in Instances : HandlerMove(j)
  <2>1. HandlerGoes(i, "failing", TRUE) /\ copies' = copies
    BY <1>9 DEF HandlerRejected
  <2>2. QED
    BY <1>4, <2>1
<1>10. ASSUME AckUpload(i)
       PROVE  /\ \A d \in Deliveries : CopyMove(d)
              /\ \A j \in Instances : HandlerMove(j)
  <2> PICK new : new = [copy EXCEPT !.place = "done"]
    OBVIOUS
  <2>1. new.place = "done" /\ new.video = copy.video
    BY <1>2 DEF Copy
  <2>2. CopyLeaves(i, new) /\ hpc[i] = "ack"
    BY <1>10 DEF AckUpload
  <2>3. QED
    BY <1>1, <2>1, <2>2, CopyLeavesMoves
<1>11. ASSUME RetryOrDeadLetter(i)
       PROVE  /\ \A d \in Deliveries : CopyMove(d)
              /\ \A j \in Instances : HandlerMove(j)
  <2> PICK new : new = [copy EXCEPT !.place = IF copy.retries < MaxRetries
                                              THEN "retry" ELSE "dead",
                                    !.retries = @ + 1]
    OBVIOUS
  <2>1. /\ new.video = copy.video /\ new.retries = copy.retries + 1
        /\ new.place = IF copy.retries < MaxRetries THEN "retry" ELSE "dead"
    BY <1>2 DEF Copy
  <2>2. new.place = "retry" => new.retries <= MaxRetries
    BY <1>2, <2>1, RetryAssumption
  <2>3. CopyLeaves(i, new)
    BY <1>11 DEF RetryOrDeadLetter
  <2>4. new.place \in {"retry", "dead"}
    BY <2>1
  <2>5. QED
    BY <1>1, <2>1, <2>2, <2>3, <2>4, CopyLeavesMoves
<1>12. ASSUME NackRequeue(i)
       PROVE  /\ \A d \in Deliveries : CopyMove(d)
              /\ \A j \in Instances : HandlerMove(j)
  <2> PICK new : new = [copy EXCEPT !.place = "queue"]
    OBVIOUS
  <2>1. new.place = "queue" /\ new.video = copy.video /\ new.retries <= MaxRetries
    BY <1>2, RetryAssumption DEF Copy
  <2>2. CopyLeaves(i, new)
    BY <1>12 DEF NackRequeue
  <2>3. QED
    BY <1>1, <2>1, <2>2, CopyLeavesMoves
<1>13. QED
  BY <1>5, <1>6, <1>7, <1>8, <1>9, <1>10, <1>11, <1>12 DEF HandlerStep

(* ... and every other step moves them that way.                            *)
LEMMA MessageStep ==
    ASSUME IInv, [Next]_vars
    PROVE  /\ \A d \in Deliveries : CopyMove(d)
           /\ \A i \in Instances : HandlerMove(i)
<1> DEFINE Moves == /\ \A d \in Deliveries : CopyMove(d)
                    /\ \A i \in Instances : HandlerMove(i)
<1>0. /\ TypeOK
      /\ \A j \in Instances :
           hpc[j] # "idle" =>
             hmsg[j] \in Deliveries /\ copies[hmsg[j]].place = "unacked"
  BY DEF IInv, HandlerInv
<1>1. UNCHANGED <<copies, hpc, hmsg>> => Moves
  BY DEF CopyMove, HandlerMove
<1>2. ASSUME NEW d \in Deliveries, copies[d].place # "unacked",
             \A q \in Deliveries \ {d} : copies'[q] = copies[q],
             UNCHANGED <<hpc, hmsg>>
      PROVE  \A i \in Instances : HandlerMove(i)
  BY <1>0, <1>2 DEF HandlerMove
<1>3. ASSUME NEW d \in Deliveries, NEW v \in Videos, UploadPublished(d, v)
      PROVE  Moves
  <2>1. /\ \A q \in Deliveries \ {d} : copies'[q] = copies[q]
        /\ copies'[d].place = "queue" /\ copies'[d].video = v
        /\ copies'[d].retries = copies[d].retries
    BY <1>0, <1>3 DEF UploadPublished, TypeOK, Copy
  <2>2. \A q \in Deliveries : CopyMove(q)
    BY <1>3, <2>1 DEF UploadPublished, CopyMove
  <2>3. QED
    BY <1>2, <1>3, <2>1, <2>2 DEF UploadPublished, handlerVars
<1>4. ASSUME NEW d \in Deliveries, RetryDelayExpires(d) PROVE Moves
  <2>1. /\ \A q \in Deliveries \ {d} : copies'[q] = copies[q]
        /\ copies'[d].place = "queue" /\ copies'[d].video = copies[d].video
        /\ copies'[d].retries = copies[d].retries
    BY <1>0, <1>4 DEF RetryDelayExpires, TypeOK, Copy
  <2>2. \A q \in Deliveries : CopyMove(q)
    BY <1>4, <2>1 DEF RetryDelayExpires, CopyMove
  <2>3. QED
    BY <1>2, <1>4, <2>1, <2>2 DEF RetryDelayExpires, handlerVars
<1>5. ASSUME NEW d \in Deliveries, NEW i \in Instances, Deliver(i, d)
      PROVE  Moves
  <2>1. /\ \A q \in Deliveries \ {d} : copies'[q] = copies[q]
        /\ copies'[d].place = "unacked" /\ copies'[d].video = copies[d].video
        /\ copies'[d].retries = copies[d].retries
        /\ copies[d].place = "queue" /\ hpc[i] = "idle"
        /\ hpc'[i] = "insert" /\ hmsg'[i] = d
        /\ \A j \in Instances \ {i} : hpc'[j] = hpc[j] /\ hmsg'[j] = hmsg[j]
    BY <1>0, <1>5 DEF Deliver, TypeOK, Copy
  <2>2. \A q \in Deliveries : CopyMove(q)
    BY <2>1 DEF CopyMove
  <2>3. HandlerMove(i)
    BY <2>1 DEF HandlerMove
  <2>4. \A j \in Instances \ {i} : HandlerMove(j)
    BY <1>0, <2>1 DEF HandlerMove
  <2>5. QED
    BY <2>2, <2>3, <2>4
<1>6. ASSUME NEW i \in Instances, Crash(i) PROVE Moves
  <2>1. CASE hpc[i] = "idle"
    BY <1>1, <1>6, <2>1 DEF Crash, handlerVars
  <2>2. CASE hpc[i] # "idle"
    <3> PICK new : new = [copies[hmsg[i]] EXCEPT !.place = "queue"]
      OBVIOUS
    <3>1. /\ new.place = "queue" /\ new.video = copies[hmsg[i]].video
          /\ new.retries <= MaxRetries
      BY <2>2, Handled, RetryAssumption DEF Copy
    <3>2. CopyLeaves(i, new)
      BY <1>6, <2>2 DEF Crash
    <3>3. QED
      BY <2>2, <3>1, <3>2, CopyLeavesMoves
  <2>3. QED
    BY <2>1, <2>2
<1>7. ASSUME NEW i \in Instances, HandlerStep(i) PROVE Moves
  BY <1>7, HandlerStepMoves
<1>8. ASSUME NEW i \in Instances, WorkerStep(i) PROVE Moves
  BY <1>1, <1>8
  DEF WorkerStep, Prune, FinishUpdate, PublishResult, ReadFailures, ReadValues,
      Reread, WorkerRejected, CompleteJob, CompletionRefused, FailAttempt,
      handlerVars
<1>9. QED
  BY <1>1, <1>3, <1>4, <1>5, <1>6, <1>7, <1>8
  DEF Next, TakeJob, ChildStarts, ChildRuns, ChildCompletes, ChildFails,
      ChildStalls, ChildMoves, Stall, vars, handlerVars

(* No two handlers hold one copy, and each goes on from what is there.      *)
LEMMA HandlerInvStep ==
    ASSUME IInv, [Next]_vars
    PROVE  HandlerInv'
<1>0. /\ \A i \in Instances :
           IF hpc[i] = "idle" THEN hmsg[i] = None
           ELSE hmsg[i] \in Deliveries /\ copies[hmsg[i]].place = "unacked"
      /\ \A i, j \in Instances : hmsg[i] # None /\ i # j => hmsg[i] # hmsg[j]
      /\ None \notin Deliveries
  BY NoneAssumption DEF IInv, HandlerInv
<1>1. \A i \in Instances : HandlerMove(i)
  BY MessageStep
<1>2. ASSUME NEW i \in Instances
      PROVE  IF hpc'[i] = "idle" THEN hmsg'[i] = None
             ELSE hmsg'[i] \in Deliveries /\ copies'[hmsg'[i]].place = "unacked"
  BY <1>0, <1>1 DEF HandlerMove
<1>3. ASSUME NEW i \in Instances, NEW j \in Instances, hmsg'[i] # None, i # j
      PROVE  hmsg'[i] # hmsg'[j]
  <2>1. ASSUME NEW a \in Instances, NEW b \in Instances, a # b,
               hmsg'[a] # None, hmsg'[a] # hmsg[a]
        PROVE  hmsg'[a] # hmsg'[b]
    <3>1. copies[hmsg'[a]].place = "queue" /\ hmsg'[b] = hmsg[b]
      BY <1>1, <2>1 DEF HandlerMove
    <3>2. QED
      BY <1>0, <2>1, <3>1
  <2>2. CASE hmsg'[i] = hmsg[i] /\ hmsg'[j] = hmsg[j]
    BY <1>0, <1>3, <2>2
  <2>3. CASE hmsg'[i] # hmsg[i]
    BY <1>3, <2>1, <2>3
  <2>4. CASE hmsg'[j] # hmsg[j]
    BY <1>3, <2>1, <2>4
  <2>5. QED
    BY <2>2, <2>3, <2>4
<1>4. ASSUME NEW i \in Instances
      PROVE  /\ hpc'[i] = "update" =>
                  row'[copies'[hmsg'[i]].video].status # "absent"
             /\ hpc'[i] \in {"select", "addFlow"} =>
                  row'[copies'[hmsg'[i]].video].status
                    \in {"in_progress"} \cup Terminal
             /\ hpc'[i] = "ack" => orch'[copies'[hmsg'[i]].video].state # "absent"
  <2> PICK v : v = HandledVideo(i)
    OBVIOUS
  <2>1. CASE hpc'[i] \in {"idle", "insert"}
    BY <2>1
  <2>2. CASE /\ hpc'[i] = hpc[i] /\ hmsg'[i] = hmsg[i] /\ hpc[i] # "idle"
             /\ copies'[hmsg[i]] = copies[hmsg[i]]
    <3>1. v \in Videos /\ copies'[hmsg'[i]].video = v
      BY <2>2, Handled DEF HandledVideo
    <3>2. Grows(v)
      BY <3>1, GrowStep
    <3>3. /\ hpc[i] = "update" => row[v].status # "absent"
          /\ hpc[i] \in {"select", "addFlow"} => Claimed(v)
          /\ hpc[i] = "ack" => HasFlow(v)
      BY DEF IInv, HandlerInv
    <3>4. QED
      BY <2>2, <3>1, <3>2, <3>3 DEF Grows, Claimed, HasFlow
  <2>3. CASE /\ hmsg'[i] = hmsg[i] /\ copies' = copies
             /\ hpc'[i] = "update" => row'[v].status # "absent"
             /\ hpc'[i] \in {"select", "addFlow"} =>
                  row'[v].status \in {"in_progress"} \cup Terminal
             /\ hpc'[i] = "ack" => orch'[v].state # "absent"
    BY <2>3 DEF HandledVideo
  <2>4. QED
    BY <1>1, <2>1, <2>2, <2>3 DEF HandlerMove
<1>5. QED
  BY <1>2, <1>3, <1>4 DEF HandlerInv, HandledVideo, Claimed, HasFlow

(* A copy keeps its video and its budget of retries.                        *)
LEMMA CopyInvStep ==
    ASSUME IInv, [Next]_vars
    PROVE  CopyInv'
<1> SUFFICES ASSUME NEW d \in Deliveries
             PROVE  /\ copies'[d].place # "unsent" => copies'[d].video \in Videos
                    /\ copies'[d].place \in {"unsent", "queue", "unacked", "retry"}
                         => copies'[d].retries <= MaxRetries
  BY DEF CopyInv
<1>1. /\ copies[d].place # "unsent" => copies[d].video \in Videos
      /\ copies[d].place \in {"unsent", "queue", "unacked", "retry"} =>
           copies[d].retries <= MaxRetries
      /\ \A i \in Instances : hpc[i] # "idle" /\ hmsg[i] = d =>
           copies[d].place = "unacked"
  BY DEF IInv, CopyInv, HandlerInv
<1>2. CopyMove(d)
  BY MessageStep
<1>3. QED
  BY <1>1, <1>2 DEF CopyMove

(* Acknowledged copies have their flow: the handler that acknowledged one    *)
(* created it, or found a verdict, which only a flow produces.              *)
LEMMA AckedStep ==
    ASSUME IInv, [Next]_vars
    PROVE  AckedUploadHasFlow'
<1> SUFFICES ASSUME NEW d \in Deliveries, copies'[d].place = "done"
             PROVE  orch'[copies'[d].video].state # "absent"
  BY DEF AckedUploadHasFlow
<1> PICK v : v = copies[d].video
  OBVIOUS
<1>1. copies'[d].video = v /\ v \in Videos /\ HasFlow(v)
  <2>1. CASE copies'[d] = copies[d]
    BY <2>1 DEF IInv, CopyInv, AckedUploadHasFlow, HasFlow
  <2>2. CASE \E i \in Instances : /\ hpc[i] = "ack" /\ hmsg[i] = d
                                  /\ copies'[d].video = v
    <3> PICK i \in Instances : /\ hpc[i] = "ack" /\ hmsg[i] = d
                               /\ copies'[d].video = v
      BY <2>2
    <3>1. HandledVideo(i) = v /\ v \in Videos
      BY Handled DEF HandledVideo
    <3>2. QED
      BY <3>1 DEF IInv, HandlerInv
  <2>3. CopyMove(d)
    BY MessageStep
  <2>4. QED
    BY <2>1, <2>2, <2>3 DEF CopyMove
<1>2. QED
  BY <1>1, GrowStep DEF Grows, HasFlow

(* A claim without a flow has a copy on the way: the one that inserted the   *)
(* row, until it is acknowledged, and then the flow exists.                 *)
LEMMA ClaimStep ==
    ASSUME IInv, [Next]_vars
    PROVE  ClaimIsNeverOrphaned'
<1> SUFFICES ASSUME NEW v \in Videos, row'[v].status # "absent",
                    orch'[v].state = "absent"
             PROVE  \E d \in Deliveries :
                       /\ copies'[d].video = v
                       /\ copies'[d].place \in {"queue", "unacked", "retry", "dead"}
  BY DEF ClaimIsNeverOrphaned
<1>1. orch[v].state = "absent"
  BY GrowStep DEF Grows, HasFlow
<1>2. CASE row[v].status = "absent"
  <2>1. row'[v] # row[v]
    BY <1>2
  <2>2. \E i \in Instances :
           hpc[i] = "insert" /\ HandledVideo(i) = v /\ copies' = copies
    BY <1>2, <2>1, RowStep DEF RowMove
  <2>3. PICK i \in Instances :
           hpc[i] = "insert" /\ HandledVideo(i) = v /\ copies' = copies
    BY <2>2
  <2>4. hmsg[i] \in Deliveries /\ copies[hmsg[i]].place = "unacked"
    BY <2>3, Handled
  <2>5. QED
    BY <2>3, <2>4 DEF HandledVideo
<1>3. CASE row[v].status # "absent"
  <2>1. PICK d \in Deliveries :
           /\ copies[d].video = v
           /\ copies[d].place \in {"queue", "unacked", "retry", "dead"}
    BY <1>1, <1>3 DEF IInv, ClaimIsNeverOrphaned
  <2>2. ASSUME NEW i \in Instances, hpc[i] = "ack", hmsg[i] = d PROVE FALSE
    BY <1>1, <2>1, <2>2 DEF IInv, HandlerInv, HandledVideo, HasFlow
  <2>3. /\ copies'[d].video = v
        /\ copies'[d].place \in {"queue", "unacked", "retry", "dead"}
    BY <2>1, <2>2, MessageStep DEF CopyMove
  <2>4. QED
    BY <2>3
<1>4. QED
  BY <1>2, <1>3

-----------------------------------------------------------------------------
(* The invariant, for any number of videos, heights, copies and instances.  *)
THEOREM Invariance == Spec => []IInv
<1>1. Init => IInv
  BY InitIInv
<1>2. IInv /\ [Next]_vars => IInv'
  BY TypeStep, FlowInvStep, HandlerInvStep, CopyInvStep, RowInvStep,
     WorkerInvStep, AnnouncedInvStep, AckedStep, ClaimStep DEF IInv
<1>3. QED
  BY <1>1, <1>2, PTL DEF Spec

(* Every result that is stored, carried or published is one the contract     *)
(* accepts, whatever the workers interleave.                                *)
THEOREM TypeCorrect == Spec => []TypeOK
<1>1. IInv => TypeOK
  BY DEF IInv
<1>2. QED
  BY <1>1, Invariance, PTL

(* processing.completed and processing.failed carry the persisted verdict,   *)
(* from however many stalled workers and retries they are published.        *)
THEOREM PublishedIsPersisted == Spec => []AnnouncedIsPersisted
<1>1. IInv => AnnouncedIsPersisted
  BY DEF IInv, AnnouncedInv
<1>2. QED
  BY <1>1, Invariance, PTL

(* An acknowledged video.uploaded has its BullMQ flow.                      *)
THEOREM NoUploadIsDropped == Spec => []AckedUploadHasFlow
<1>1. IInv => AckedUploadHasFlow
  BY DEF IInv
<1>2. QED
  BY <1>1, Invariance, PTL

(* A claimed row without a flow has a copy that will create it, or a dead    *)
(* letter.                                                                  *)
THEOREM ClaimsAreFollowedUp == Spec => []ClaimIsNeverOrphaned
<1>1. IInv => ClaimIsNeverOrphaned
  BY DEF IInv
<1>2. QED
  BY <1>1, Invariance, PTL

(* finishProcessing's second branch always finds a stored verdict.          *)
THEOREM LoserFindsVerdict == Spec => []RereadFindsVerdict
<1>1. IInv => RereadFindsVerdict
  <2> SUFFICES ASSUME IInv, NEW i \in Instances, wpc[i] = "reread"
               PROVE  /\ row[wjob[i]].status \in Terminal
                      /\ IsPipelineResult(row[wjob[i]].result)
    BY DEF RereadFindsVerdict
  <2>1. wjob[i] \in Videos /\ row[wjob[i]].status \in Terminal
    BY DEF IInv, WorkerInv, WorkerOK
  <2>2. QED
    BY <2>1 DEF IInv, RowInv, Verdict
<1>2. QED
  BY <1>1, Invariance, PTL

(* What Postgres says of a video is what its children did.                  *)
THEOREM StoredVerdictIsTrue == Spec => []VerdictMatchesWork
<1>1. IInv => VerdictMatchesWork
  <2> SUFFICES ASSUME IInv, NEW v \in Videos, row[v].status \in Terminal
               PROVE  LET result == row[v].result IN
                 /\ row[v].status = "completed" =>
                      /\ InState(kids[v], {"completed"}) = Children
                      /\ \A h \in Heights :
                           result.renditions[h] = TranscodeValue(v, h)
                 /\ row[v].status = "failed" =>
                      \A f \in result.failures :
                         f.childKey \in InState(kids[v], {"failed"})
    BY DEF VerdictMatchesWork, Terminal
  <2>1. Verdict(v, row[v].result) /\ row[v].status = row[v].result.status
    BY DEF IInv, RowInv
  <2>2. AllDone(v) => InState(kids[v], {"completed"}) = Children
    BY DEF AllDone, InState
  <2>3. QED
    BY <2>1, <2>2 DEF Verdict
<1>2. QED
  BY <1>1, Invariance, PTL

(* A completed orchestrator job has stored and published its verdict.       *)
THEOREM CompletionIsAnnounced == Spec => []CompletedJobIsAnnounced
<1>1. IInv => CompletedJobIsAnnounced
  BY DEF IInv, AnnouncedInv, CompletedJobIsAnnounced
<1>2. QED
  BY <1>1, Invariance, PTL

-----------------------------------------------------------------------------
(* How far the two disagreements with README and log go.                    *)

(* A video nobody will give a verdict: its orchestrator job failed for good, *)
(* and no worker is left that took it before.                               *)
Abandoned(v) ==
    /\ orch[v].state = "failed" /\ row[v].status \notin Terminal
    /\ \A i \in Instances : ~Working(i, v)

(* A worker's step is of a worker at a job, and it keeps the job or idles.  *)
LEMMA WorkerKeepsJob ==
    ASSUME IInv, NEW i \in Instances, WorkerStep(i)
    PROVE  wpc[i] # "idle" /\ (wpc'[i] = "idle" \/ wjob'[i] = wjob[i])
<1>1. ASSUME NEW pc, NEW seen, NEW result, WorkerIs(i, pc, wjob[i], seen, result)
      PROVE  wjob'[i] = wjob[i]
  BY <1>1, WorkerLocals
<1>2. WorkerThrows(i) => wjob'[i] = wjob[i]
  BY <1>1 DEF WorkerThrows
<1>3. ASSUME NEW pc, NEW result, NEW ok, WorkerGoes(i, pc, result, ok)
      PROVE  wjob'[i] = wjob[i]
  BY <1>1, <1>2, <1>3, Zenon DEF WorkerGoes
<1>4. WorkerIdles(i) => wpc'[i] = "idle"
  BY WorkerLocals DEF WorkerIdles
<1>5. ASSUME NEW ok \in BOOLEAN,
             Prune(i, ok) \/ FinishUpdate(i, ok) \/ PublishResult(i, ok)
      PROVE  wpc[i] # "idle" /\ wjob'[i] = wjob[i]
  <2>1. wpc[i] # "idle"
    BY <1>5 DEF Prune, FinishUpdate, PublishResult
  <2>2. \E pc, result : WorkerGoes(i, pc, result, ok)
    BY <1>5, Zenon DEF Prune, FinishUpdate, PublishResult
  <2>3. QED
    BY <1>3, <2>1, <2>2
<1>6. ASSUME Reread(i) \/ ReadValues(i)
      PROVE  wpc[i] # "idle" /\ wjob'[i] = wjob[i]
  <2>1. wpc[i] # "idle"
    BY <1>6 DEF Reread, ReadValues
  <2>2. \E pc, result, ok : WorkerGoes(i, pc, result, ok)
    BY <1>6, Zenon DEF Reread, ReadValues
  <2>3. QED
    BY <1>3, <2>1, <2>2
<1>7. ASSUME ReadFailures(i)
      PROVE  wpc[i] # "idle" /\ wjob'[i] = wjob[i]
  <2>1. wpc[i] # "idle"
    BY <1>7 DEF ReadFailures
  <2>2. \E pc, seen, result : WorkerIs(i, pc, wjob[i], seen, result)
    BY <1>7, Zenon DEF ReadFailures
  <2>3. QED
    BY <1>1, <2>1, <2>2
<1>8. ASSUME \/ WorkerRejected(i) \/ CompletionRefused(i)
             \/ CompleteJob(i) \/ FailAttempt(i)
      PROVE  wpc[i] # "idle" /\ (wpc'[i] = "idle" \/ wjob'[i] = wjob[i])
  BY <1>2, <1>4, <1>8
  DEF WorkerRejected, CompletionRefused, CompleteJob, FailAttempt
<1>9. QED
  BY <1>5, <1>6, <1>7, <1>8 DEF WorkerStep

(* When the attempts of the orchestrator job are used up and its workers     *)
(* are gone, the row stays in_progress for ever: no redelivered upload, late *)
(* child or restarted process gives the video a verdict.                    *)
THEOREM AbandonedForGood ==
    Spec => [][\A v \in Videos : Abandoned(v) => Abandoned(v)']_vars
<1>1. ASSUME IInv, [Next]_vars, NEW v \in Videos, Abandoned(v)
      PROVE  Abandoned(v)'
  <2>1. orch'[v].state = "failed"
    BY <1>1, FlowStep DEF FlowMove, Abandoned
  <2>2. row'[v].status \notin Terminal
    <3>1. ~ \E i \in Instances : wpc[i] = "finish" /\ wjob[i] = v
      BY <1>1 DEF Abandoned, Working
    <3>2. Claimed(v) /\ row[v].status = "in_progress"
      BY <1>1 DEF IInv, FlowInv, HasFlow, Abandoned, Claimed
    <3>3. row'[v] = row[v]
      BY <1>1, <3>1, <3>2, RowStep DEF RowMove
    <3>4. QED
      BY <1>1, <3>3 DEF Abandoned
  <2>3. ASSUME NEW i \in Instances PROVE ~Working(i, v)'
    <3>1. CASE wpc'[i] = wpc[i] /\ wjob'[i] = wjob[i]
      BY <1>1, <3>1 DEF Abandoned, Working
    <3>2. ASSUME NEW w \in Videos, TakeJob(i, w) PROVE ~Working(i, v)'
      <4>1. w # v
        BY <1>1, <3>2 DEF Abandoned, TakeJob
      <4>2. wjob'[i] = w
        BY <1>1, <3>2, WorkerLocals DEF TakeJob
      <4>3. QED
        BY <4>1, <4>2 DEF Working
    <3>3. CASE WorkerStep(i)
      BY <1>1, <3>3, WorkerKeepsJob DEF Abandoned, Working
    <3>4. CASE wpc'[i] = "idle"
      BY <3>4 DEF Working
    <3>5. QED
      BY <1>1, <3>1, <3>2, <3>3, <3>4, WorkerMoves
  <2>4. QED
    BY <2>1, <2>2, <2>3 DEF Abandoned
<1>2. IInv /\ [Next]_vars =>
        [\A v \in Videos : Abandoned(v) => Abandoned(v)']_vars
  BY <1>1
<1>3. QED
  BY <1>2, Invariance, PTL DEF Spec

(* A flow has all its children: a pruned one is "removed", not absent.      *)
KidsExist ==
    \A v \in Videos : HasFlow(v) => \A c \in Children :
      kids[v][c].state # "absent"

LEMMA KidsExistStep ==
    ASSUME IInv, KidsExist, [Next]_vars
    PROVE  KidsExist'
<1>0. kids \in [Videos -> [Children -> Job]] /\ orch \in [Videos -> Job]
  BY DEF IInv, TypeOK
<1> SUFFICES ASSUME NEW v \in Videos, HasFlow(v)', NEW c \in Children
             PROVE  kids'[v][c].state # "absent"
  BY DEF KidsExist
<1>1. CASE kids' = kids /\ HasFlow(v)
  BY <1>1 DEF KidsExist
<1>2. ASSUME NEW i \in Instances, NEW ok \in BOOLEAN, AddFlow(i, ok)
      PROVE  kids'[v][c].state # "absent"
  <2>1. HandledVideo(i) \in Videos
    BY <1>2, Handled DEF AddFlow
  <2>2. CASE v = HandledVideo(i)
    BY <1>0, <1>2, <2>1, <2>2 DEF AddFlow, FreshJob
  <2>3. CASE v # HandledVideo(i)
    <3>1. kids'[v] = kids[v] /\ HasFlow(v)
      BY <1>0, <1>2, <2>1, <2>3 DEF AddFlow, HasFlow
    <3>2. QED
      BY <3>1 DEF KidsExist
  <2>4. QED
    BY <2>2, <2>3
<1>3. ASSUME ~ \E i \in Instances, ok \in BOOLEAN : AddFlow(i, ok)
      PROVE  HasFlow(v)
  <2> SUFFICES ASSUME orch[v].state = "absent" PROVE orch'[v].state = "absent"
    BY DEF HasFlow
  <2>1. ASSUME NEW w \in Videos, NEW q \in Children, NEW from, NEW job,
               ChildMoves(w, q, from, job)
        PROVE  orch'[v].state = "absent"
    <3>1. orch'[v] \in {orch[v], ParentAfter(orch[v], kids'[v])}
      BY <1>0, <2>1 DEF ChildMoves
    <3>2. QED
      BY <3>1 DEF ParentAfter
  <2>2. ASSUME NEW i \in Instances, NEW w \in Videos, TakeJob(i, w)
        PROVE  orch'[v].state = "absent"
    BY <1>0, <2>2 DEF TakeJob
  <2>3. ASSUME NEW i \in Instances, CompleteJob(i) \/ FailAttempt(i)
        PROVE  orch'[v].state = "absent"
    <3>1. wjob[i] \in Videos /\ orch[wjob[i]].state # "absent"
      BY <2>3 DEF CompleteJob, FailAttempt, IInv, WorkerInv, WorkerOK, Started
    <3>2. orch'[v] = orch[v]
      BY <1>0, <2>3, <3>1 DEF CompleteJob, FailAttempt
    <3>3. QED
      BY <3>2
  <2>4. ASSUME NEW w \in Videos, Stall(w) PROVE orch'[v].state = "absent"
    BY <1>0, <2>4 DEF Stall
  <2>5. QED
    BY <1>3, <2>1, <2>2, <2>3, <2>4, LoudSteps
    DEF Quiet, ClaimInsert, ClaimUpdate, Prune, FinishUpdate, PublishResult,
        flowVars
<1>4. ASSUME NEW w \in Videos, NEW q \in Children,
             NEW from \in {"waiting", "active"}, NEW job \in Job,
             ChildMoves(w, q, from, job),
             job.state \in {"waiting", "active", "completed", "failed"},
             HasFlow(v)
      PROVE  kids'[v][c].state # "absent"
  BY <1>0, <1>4 DEF ChildMoves, KidsExist
<1>5. ASSUME NEW i \in Instances, NEW ok \in BOOLEAN, Prune(i, ok), HasFlow(v)
      PROVE  kids'[v][c].state # "absent"
  <2>1. wjob[i] \in Videos
    BY <1>5 DEF Prune, IInv, WorkerInv, WorkerOK
  <2>2. kids'[v][c] \in {kids[v][c], FreshJob("removed")}
    BY <1>0, <1>5, <2>1 DEF Prune
  <2>3. QED
    BY <1>5, <2>2 DEF KidsExist, FreshJob
<1>6. QED
  BY <1>1, <1>2, <1>3, <1>4, <1>5, LoudSteps
  DEF Quiet, ClaimInsert, ClaimUpdate, TakeJob, FinishUpdate, PublishResult,
      CompleteJob, FailAttempt, Stall, flowVars

(* New work for a video that has its verdict is a late flow: it is created   *)
(* by a handler that claimed the video before, of pruned children of a       *)
(* failed video, and it changes neither the verdict nor the orchestrator     *)
(* job.  A completed video never gets any.                                  *)
LateWork(v, c) ==
    /\ row[v].status \in Terminal
    /\ kids[v][c].state \in {"absent", "removed"} /\ kids'[v][c] # kids[v][c]
OnlyPrunedWorkReturns ==
    \A v \in Videos, c \in Children : LateWork(v, c) =>
      /\ row[v].status = "failed" /\ kids[v][c].state = "removed"
      /\ UNCHANGED <<row, orch>>
      /\ \E i \in Instances : hpc[i] = "addFlow" /\ HandledVideo(i) = v

THEOREM LateWorkIsPruned == Spec => [][OnlyPrunedWorkReturns]_vars
<1>1. ASSUME IInv, KidsExist, [Next]_vars, NEW v \in Videos, NEW c \in Children,
             LateWork(v, c)
      PROVE  /\ row[v].status = "failed" /\ kids[v][c].state = "removed"
             /\ UNCHANGED <<row, orch>>
             /\ \E i \in Instances : hpc[i] = "addFlow" /\ HandledVideo(i) = v
  <2>0. kids \in [Videos -> [Children -> Job]] /\ orch \in [Videos -> Job]
    BY <1>1 DEF IInv, TypeOK
  <2>1. HasFlow(v) /\ Verdict(v, row[v].result)
        /\ row[v].status = row[v].result.status
    BY <1>1 DEF LateWork, IInv, RowInv
  <2>2. kids[v][c].state = "removed"
    BY <1>1, <2>1 DEF KidsExist, LateWork
  <2>3. row[v].status = "failed"
    <3>1. ~AllDone(v)
      BY <2>2 DEF AllDone
    <3>2. QED
      BY <1>1, <2>1, <3>1 DEF LateWork, Terminal, Verdict
  <2>4. \E i \in Instances, ok \in BOOLEAN : AddFlow(i, ok)
    <3>1. ASSUME NEW w \in Videos, NEW q \in Children,
                 NEW from \in {"waiting", "active"}, NEW job \in Job,
                 ChildMoves(w, q, from, job)
          PROVE  kids'[v][c] = kids[v][c]
      BY <2>0, <2>2, <3>1 DEF ChildMoves
    <3>2. ASSUME NEW i \in Instances, NEW ok \in BOOLEAN, Prune(i, ok)
          PROVE  kids'[v][c] = kids[v][c]
      <4>1. wjob[i] \in Videos
        BY <1>1, <3>2 DEF Prune, IInv, WorkerInv, WorkerOK
      <4>2. QED
        BY <2>0, <2>2, <3>2, <4>1 DEF Prune
    <3>3. QED
      BY <1>1, <3>1, <3>2, LoudSteps
      DEF LateWork, Quiet, ClaimInsert, ClaimUpdate, TakeJob, FinishUpdate,
          PublishResult, CompleteJob, FailAttempt, Stall, flowVars
  <2>5. PICK i \in Instances, ok \in BOOLEAN : AddFlow(i, ok)
    BY <2>4
  <2>6. HandledVideo(i) \in Videos /\ hpc[i] = "addFlow"
    BY <1>1, <2>5, Handled DEF AddFlow
  <2>7. HandledVideo(i) = v
    BY <1>1, <2>0, <2>5, <2>6 DEF AddFlow, LateWork
  <2>8. UNCHANGED <<row, orch>>
    BY <2>1, <2>5, <2>7 DEF AddFlow, HasFlow
  <2>9. QED
    BY <2>2, <2>3, <2>6, <2>7, <2>8
<1>2. Init => KidsExist
  BY DEF Init, KidsExist, HasFlow, FreshJob
<1>3. IInv /\ KidsExist /\ [Next]_vars => KidsExist'
  BY KidsExistStep
<1>4. IInv /\ KidsExist /\ [Next]_vars => [OnlyPrunedWorkReturns]_vars
  BY <1>1 DEF OnlyPrunedWorkReturns
<1>5. QED
  BY <1>2, <1>3, <1>4, Invariance, PTL DEF Spec

-----------------------------------------------------------------------------
(* The pipeline implements VideoRecord.                                     *)

(* What VideoRecord sees of the children.                                   *)
Outcomes == [v \in Videos |-> [c \in Children |-> Outcome(kids[v][c])]]

(* VideoRecord sees nothing of a step that keeps the rows, the events and    *)
(* which children have ended.                                               *)
LEMMA RecordStutters ==
    ASSUME row' = row, announced' = announced, Outcomes' = Outcomes
    PROVE  UNCHANGED Record!vars
  BY DEF Record!vars, Outcomes

(* A step that only moves children between open states is one.              *)
LEMMA OpenStaysOpen ==
    ASSUME \A v \in Videos, c \in Children :
             \/ kids'[v][c] = kids[v][c]
             \/ /\ kids[v][c].state \notin Terminal
                /\ kids'[v][c].state \notin Terminal
    PROVE  Outcomes' = Outcomes
  BY DEF Outcomes, Outcome

(* The handler's statements insert and claim the row.                       *)
LEMMA ClaimRefines ==
    ASSUME IInv, NEW i \in Instances, NEW ok \in BOOLEAN,
           ClaimInsert(i, ok) \/ ClaimUpdate(i, ok)
    PROVE  [Record!Next]_Record!vars
<1> PICK v : v = HandledVideo(i)
  OBVIOUS
<1>0. /\ v \in Videos
      /\ row \in [Videos -> [status : RowStatuses, result : Results \cup {None}]]
  BY Handled DEF ClaimInsert, ClaimUpdate, IInv, TypeOK
<1>1. kids' = kids /\ announced' = announced /\ Outcomes' = Outcomes
  BY DEF ClaimInsert, ClaimUpdate, flowVars, Outcomes
<1>2. CASE row' = row
  BY <1>1, <1>2, RecordStutters
<1>3. CASE row[v].status = "absent" /\ row' = [row EXCEPT ![v] = Row("pending", None)]
  <2>1. row[v].result = None
    BY <1>0, <1>3 DEF IInv, RowInv, Terminal
  <2>2. [row[v] EXCEPT !.status = "pending"] = Row("pending", None)
    BY <1>0, <2>1 DEF Row
  <2>3. row' = [row EXCEPT ![v].status = "pending"]
    BY <1>3, <2>2
  <2>4. Record!Insert(v)
    BY <1>1, <1>3, <2>3 DEF Record!Insert, Outcomes
  <2>5. QED
    BY <1>0, <2>4 DEF Record!Next
<1>4. CASE /\ row[v].status = "pending"
           /\ row' = [row EXCEPT ![v].status = "in_progress"]
  <2>1. Record!Claim(v)
    BY <1>1, <1>4 DEF Record!Claim, Outcomes
  <2>2. QED
    BY <1>0, <2>1 DEF Record!Next
<1>5. QED
  BY <1>2, <1>3, <1>4 DEF ClaimInsert, ClaimUpdate

(* A child that ends settles its outcome.                                   *)
LEMMA ChildRefines ==
    ASSUME IInv, NEW v \in Videos, NEW c \in Children,
           NEW from \in {"waiting", "active"}, NEW job \in Job,
           ChildMoves(v, c, from, job)
    PROVE  [Record!Next]_Record!vars
<1>0. /\ kids \in [Videos -> [Children -> Job]]
      /\ kids' = [kids EXCEPT ![v][c] = job]
      /\ kids[v][c].state = from
      /\ row' = row /\ announced' = announced
  BY DEF ChildMoves, IInv, TypeOK
<1>1. CASE job.state \notin Terminal
  <2>1. Outcomes' = Outcomes
    BY <1>0, <1>1, OpenStaysOpen DEF Terminal
  <2>2. QED
    BY <1>0, <2>1, RecordStutters
<1>2. CASE job.state \in Terminal
  <2>1. Claimed(v)
    BY <1>0 DEF IInv, FlowInv
  <2>2. row[v].status \notin Record!Unclaimed
    BY <2>1 DEF Claimed, Terminal, Record!Unclaimed
  <2>3. Outcomes[v][c] = "open"
    BY <1>0 DEF Outcomes, Outcome, Terminal
  <2>4. Outcomes' = [Outcomes EXCEPT ![v][c] = job.state]
    <3>1. \A w \in Videos, q \in Children :
            Outcomes'[w][q] = IF w = v /\ q = c THEN job.state
                                                ELSE Outcomes[w][q]
      BY <1>0, <1>2 DEF Outcomes, Outcome
    <3>2. /\ Outcomes \in [Videos -> [Children -> {"open"} \cup JobStates]]
          /\ Outcomes' \in [Videos -> [Children -> {"open"} \cup JobStates]]
      BY DEF Outcomes, Outcome, Terminal, JobStates
    <3>3. QED
      BY <3>1, <3>2
  <2>5. Record!Settle(v, c, job.state)
    BY <1>0, <2>2, <2>3, <2>4 DEF Record!Settle, Outcomes
  <2>6. QED
    BY <1>2, <2>5 DEF Record!Next, Terminal
<1>3. QED
  BY <1>1, <1>2

(* finishProcessing finishes the record with a verdict its children justify. *)
LEMMA FinishRefines ==
    ASSUME IInv, NEW i \in Instances, NEW ok \in BOOLEAN, FinishUpdate(i, ok)
    PROVE  [Record!Next]_Record!vars
<1> PICK v : v = wjob[i]
  OBVIOUS
<1> PICK result : result = wresult[i]
  OBVIOUS
<1>0. v \in Videos /\ Verdict(v, result)
  BY DEF FinishUpdate, IInv, WorkerInv, WorkerOK
<1>1. announced' = announced /\ Outcomes' = Outcomes
  BY DEF FinishUpdate, flowVars, Outcomes
<1>2. CASE row[v].status # "in_progress"
  BY <1>1, <1>2, RecordStutters DEF FinishUpdate
<1>3. CASE row[v].status = "in_progress"
  <2>1. row' = [row EXCEPT ![v] = [status |-> result.status, result |-> result]]
    BY <1>3 DEF FinishUpdate, Row
  <2>2. \A c \in Children : kids[v][c].state \in Terminal =>
          Outcomes[v][c] = kids[v][c].state
    BY <1>0 DEF Outcomes, Outcome
  <2>3. Record!Justified(v, result)
    <3>1. CASE result.status = "completed"
      <4>1. \A c \in Children : Outcomes[v][c] = "completed"
        BY <1>0, <2>2, <3>1 DEF Verdict, AllDone, Terminal
      <4>2. QED
        BY <3>1, <4>1 DEF Record!Justified, Outcomes
    <3>2. CASE result.status = "failed"
      <4>1. result.failures # {}
        BY <1>0, <3>2 DEF Verdict, IsPipelineResult
      <4>2. \A f \in result.failures : Outcomes[v][f.childKey] = "failed"
        BY <1>0, <2>2, <3>2 DEF Verdict, InState, Terminal
      <4>3. QED
        BY <3>2, <4>1, <4>2 DEF Record!Justified, Outcomes
    <3>3. QED
      BY <1>0, <3>1, <3>2 DEF Verdict, Results, FailedResults, CompletedResults
  <2>4. Record!Finish(v, result)
    BY <1>0, <1>1, <1>3, <2>1, <2>3 DEF Record!Finish, Verdict, Outcomes
  <2>5. QED
    BY <1>0, <2>4 DEF Record!Next, Verdict
<1>4. QED
  BY <1>2, <1>3

(* Publishing announces what is recorded.                                   *)
LEMMA PublishRefines ==
    ASSUME IInv, NEW i \in Instances, NEW ok \in BOOLEAN, PublishResult(i, ok)
    PROVE  [Record!Next]_Record!vars
<1> PICK v : v = wjob[i]
  OBVIOUS
<1>1. v \in Videos /\ row[v].status \in Terminal /\ row[v].result = wresult[i]
  BY DEF PublishResult, IInv, WorkerInv, WorkerOK
<1>2. row' = row /\ kids' = kids /\ announced' = announced \cup {row[v].result}
  BY <1>1 DEF PublishResult, flowVars
<1>3. Record!Announce(v)
  BY <1>1, <1>2 DEF Record!Announce, Terminal
<1>4. QED
  BY <1>1, <1>3 DEF Record!Next

(* Every step of the pipeline is a step of the record, or none.             *)
LEMMA StepRefines ==
    ASSUME IInv, [Next]_vars
    PROVE  [Record!Next]_Record!vars
<1>0. kids \in [Videos -> [Children -> Job]]
  BY DEF IInv, TypeOK
<1>1. ASSUME NEW i \in Instances, NEW ok \in BOOLEAN, AddFlow(i, ok)
      PROVE  UNCHANGED Record!vars
  <2>1. HandledVideo(i) \in Videos
    BY <1>1, Handled DEF AddFlow
  <2>2. Outcomes' = Outcomes
    BY <1>0, <1>1, <2>1, OpenStaysOpen DEF AddFlow, FreshJob, Terminal
  <2>3. QED
    BY <1>1, <2>2, RecordStutters DEF AddFlow
<1>2. ASSUME NEW i \in Instances, NEW ok \in BOOLEAN, Prune(i, ok)
      PROVE  UNCHANGED Record!vars
  <2>1. wjob[i] \in Videos
    BY <1>2 DEF Prune, IInv, WorkerInv, WorkerOK
  <2>2. Outcomes' = Outcomes
    BY <1>0, <1>2, <2>1, OpenStaysOpen DEF Prune, FreshJob, Terminal
  <2>3. QED
    BY <1>2, <2>2, RecordStutters DEF Prune
<1>3. UNCHANGED <<row, kids, announced>> => UNCHANGED Record!vars
  BY RecordStutters DEF Outcomes
<1>4. QED
  BY <1>1, <1>2, <1>3, LoudSteps, ClaimRefines, ChildRefines, FinishRefines,
     PublishRefines
  DEF Quiet, TakeJob, CompleteJob, FailAttempt, Stall

(* The detailed pipeline -- handlers, retries, workers, stalls and crashes -- *)
(* behaves, for its rows, outcomes and events, as VideoRecord promises.     *)
THEOREM PipelineRefinesRecord == Spec => ImplementsVideoRecord
<1>1. Init => Record!Init
  BY DEF Init, Record!Init, Row, FreshJob, Outcome, Terminal
<1>2. IInv /\ [Next]_vars => [Record!Next]_Record!vars
  BY StepRefines
<1>3. QED
  BY <1>1, <1>2, Invariance, PTL DEF Spec, ImplementsVideoRecord, Record!Spec
=============================================================================
