# Verification of video-streaming-microservices

TLA+ models of the services' core logic, TLC configurations that check them on
small instances, and TLAPS proofs. Everything is translated from the sources;
`PROJECT.json` maps each definition to the lines it stands for.

## 1. The system

| Part | Source | State | Operations | Hard behaviour | What makes it correct |
|---|---|---|---|---|---|
| Upload service | `apps/upload-service` (routes, S3 notifier lambda) | none | `POST /upload/request`, `/upload/webhook`, lambda `handler` | the lambda repeats a batch after one failed record; the webhook publishes duplicates | every accepted upload is announced at least once, nothing else is |
| Broker | `packages/broker` | connection, confirm channel, one queue, retry queue and dead-letter queue per subscription | `publish`, `subscribe`, retry or dead-letter, ack, nack, `close`, shutdown | crash between republication and ack, confirms shared by all callers of the channel, `process.exit(1)` on a lost connection | an accepted message is handled or dead-lettered, after exactly `maxRetries` retries |
| Upload handler, processing record | `apps/processing-service` (`upload-events`, `processing-repository`) | one row per video: `pending`, `in_progress`, `completed`, `failed` and the result | `claimPending` (three statements), `finishProcessing` (two) | several instances, several deliveries, a crash between any two statements | no acknowledged upload without a flow, one verdict per video |
| Processing flow | `processing-flow.ts`, BullMQ in Redis | orchestrator job and child jobs with deterministic ids | `createProcessingFlow` | attempts with backoff, stalled jobs, `continueParentOnFailure`, re-added flows | the orchestrator runs when every child is done or one failed for good |
| Orchestrator worker | `worker.ts` | the job it runs, its lock | read failures, prune, read values, aggregate, persist, publish, complete | two workers on one job after a stall, refused completion, retries of a half-done attempt | only the stored verdict is published, and it is true of the children |
| Aggregation | `aggregate-processing-results.ts`, `contracts/domain/processing-result.ts`, `build-video-result.ts` | none (pure) | `aggregateProcessingResults`, the result schema, `buildVideoResult` | boundaries of the counting checks | completed exactly when all children delivered; the result parses as its own schema |
| Step lifecycle, audit log | `packages/queue`, `processing-events.ts`, `processing-log-repository.ts` | `processing_logs` | started, completed, failed events of every job; insert by event id | swallowed publications, redelivered and reordered events | a log entry per event, a true last status |
| Metadata job | `apps/metadata-service` | a temporary file | download, probe, upload audio tracks and thumbnails, clean up | one of several parallel uploads fails | the file outlives its readers and is removed |
| Transcode job, streaming | `apps/transcode-service`, `packages/storage`, `packages/ffmpeg` | pass-through stream, ffmpeg process, multipart upload | `withS3UploadStream`, `pipeFfmpegToWritable` | errors on either side of the stream, in any order | no truncated object committed, no promise left unsettled |
| HTTP API | `http/routes/processing.ts` | none (reads) | video view, status with logs | | `ready` only with every rendition |
| Environment, infrastructure | `packages/env`, `infra`, `docker` | | | | configuration; only the bucket's notification and its filter are modelled, in `UploadNotification` |

How they interact: the webhook publishes `video.uploaded` on RabbitMQ; the upload
handler claims the row in Postgres and adds the flow to Redis; the metadata and
transcode services work off the child jobs; BullMQ then releases the
orchestrator job, whose worker reads the children, stores the verdict in
Postgres and publishes `processing.completed` or `processing.failed`.

## 2. The modules

| Module | Models | Role |
|---|---|---|
| `AggregateResults` | the ordered checks of `aggregateProcessingResults`, the result schema, the API's view | operators, used by `VideoPipeline` too |
| `AggregateCases` | its inputs, built up entry by entry and aggregated once | state machine over bounded inputs |
| `VideoPipeline` | handler, row, flow, child jobs, orchestrator worker | the detailed specification |
| `VideoRecord` | what the pipeline promises about a video | abstract specification |
| `BrokerSubscription` | `publish` and one subscription | detailed specification |
| `DeliveryContract` | what a subscription promises | abstract specification, and the delivery `StepLifecycle` is composed with |
| `StreamUpload` | one transcode job: ffmpeg, pass-through stream, S3 upload | detailed specification |
| `UploadContract` | what `withS3UploadStream` promises | abstract specification |
| `MetadataJob` | overlapping runs of one metadata job | its uploads are `UploadContract`s |
| `StepLifecycle` | runs of one child job, their events, the audit log | instantiates `DeliveryContract` |
| `BrokerConnection` | the connection of a broker object | operators and actions |
| `ServiceShutdown` | start, work and shutdown of a service | extends `BrokerConnection` |
| `UploadNotification` | bucket, lambda, webhook | detailed specification |
| `AnnouncementContract` | what the upload service promises | abstract specification |
| `AggregateCasesProofs` (also on `AggregateResults`), `VideoPipelineProofs`, `BrokerSubscriptionProofs`, `StreamUploadProofs`, `MetadataJobProofs`, `StepLifecycleProofs`, `ServiceShutdownProofs` (also on `BrokerConnection`), `UploadNotificationProofs` | | theorems |
| `MCAggregateCases`, `MCVideoPipeline`, ... | | instances for TLC, with their symmetry |

How they hang together: `UploadNotification` shows that an upload is announced,
`BrokerSubscription` that the announcement reaches its handler,
`VideoPipeline` what the handler, the flow and the orchestrator make of it;
`MetadataJob`, `StreamUpload` and `StepLifecycle` are the inside of a child job,
of which `VideoPipeline` keeps only the outcome; `ServiceShutdown` is the process
around a worker and a subscription. Where one module uses another's promise it
names it: `StepLifecycle` moves its events by the actions of `DeliveryContract`,
which `BrokerSubscription` is shown to implement.

### AggregateResults, AggregateCases

Each check of the code is the set of failures it reports; the first nonempty one
is the verdict. A value is a metadata result, a transcode result of a height, or
invalid; an error text is `"blank"` or not. `AggregateCases` takes what the queue
might hand over: any keys, values of another video, duplicates, a failed child.

### VideoPipeline

| Variable | Code |
|---|---|
| `row` | table `processing`: status and result (`absent`: no row) |
| `copies` | each delivery of `video.uploaded`: place and `x-retry-count` |
| `hpc`, `hmsg` | the upload handler of an instance (prefetch 1): the call it awaits |
| `orch`, `kids` | the orchestrator job and the child jobs in Redis, with attempts made and stalls |
| `lock` | the instance whose token locks the orchestrator job |
| `wpc`, `wjob`, `wseen`, `wresult` | the orchestrator worker of an instance: the call it awaits, its locals |
| `announced` | events the broker accepted |

Every awaited call is an action: `ClaimInsert`, `ClaimUpdate`, `ClaimSelect`,
`AddFlow` of the handler; `ReadFailures`, `Prune`, `ReadValues`, `FinishUpdate`,
`Reread`, `PublishResult`, `CompleteJob` of the worker. A call may reject without
effect (`HandlerRejected`, `WorkerRejected`) or after its effect (`ok = FALSE`).
A rejected handler goes to the retry queue or the dead-letter queue, a rejected
attempt is retried by BullMQ until `JobAttempts`. `Stall` takes the lock away
from a dead or slow worker; the slow one goes on. `Crash` kills an instance with
its handler and its worker.

The swap of a copy for its retry copy is one action here; `BrokerSubscription`
models it step by step, and what it can add, a duplicate, is among the
`Deliveries`.

BullMQ 5 is external and modelled from how the code uses it: a job whose id
exists is not added again; removed children are; a child that failed for good
with `continueParentOnFailure`, or the last one completed, releases the parent;
`removeUnprocessedChildren` spares active (locked) children; completion is
refused when the lock is lost or a child is unprocessed, and counts as a failed
attempt; a job stalled more than `maxStalledCount` times fails.

### BrokerSubscription

Every copy of a message occupies a slot: on the wire, in the queue, held by a
consumer, in the retry queue, dead. A consumer that rejects publishes the next
copy, awaits its confirm, then acknowledges; a rejected confirm (its own or that
of another caller of the shared channel) requeues the original. RabbitMQ is
external: it confirms a message no queue is bound for, and requeues what a dead
consumer had not acknowledged.

### StreamUpload

| Variable | Code |
|---|---|
| `attempt` | the attempt or restart of the job |
| `job` | the call `runVideoTranscodeJob` and `withS3UploadStream` await |
| `write`, `done` | the promise of `pipeFfmpegToWritable` and the flag that its outcome was chosen |
| `proc`, `reported` | the ffmpeg process; whether `'end'` or `'error'` was emitted |
| `pass`, `listeners` | the `PassThrough` and who listens to its `'error'` |
| `upload`, `object` | the promise of `upload.done()`, and what the key holds |
| `unhandled` | an `'error'` event without a listener |

`Spawn`, `SpawnFails`, `FfmpegExits`, `FfmpegReports`, `OutputClosed` are events of
the command, `UploadFails` and `UploadCommits` of the upload; `ProcessClosed`
settles the write after the process is gone, `AllRejects` is the catch of
`Promise.all` with `abort()`, `AllSettled` and `AllResolve` end it. A process that
is still being spawned cannot be killed; `rejectAfterProcessExit` waits for its
start (`"awaitStart"`), then for its exit. A failed upload may have stored the
object, and may or may not close the stream. `Retry` and `Crash` begin again under
the same key.

### MetadataJob

`pc`, `found`, `uploads` and `outcome` are the locals of each run, `files` and
`objects` the file system and the bucket they share. A run that stalled goes on
while the next one starts. Every `uploadStream` is one promise that resolves with
its object stored or rejects with or without it (`UploadContract`). `Throw` is
every way into the `finally` block.

### StepLifecycle

`pc`, `result` and `error` are the runs of `withProcessingLifecycle`; `queue`,
`handled` and `buried` the events on their way (`DeliveryContract`), `lost` those
whose publication rejected, `log` the table `processing_logs`. The payloads are
those the metadata and transcode workers build, and `EventParses` is what the
strict schemas accept of them: a `failed` event needs a nonempty text. A lost
confirm makes `safeDispatch` believe the event lost although it was accepted.

### BrokerConnection, ServiceShutdown

| Variable | Code |
|---|---|
| `conns` | each connection: `dialing`, `dialed`, `ready` (listens to `'close'`), `live`, `closing`, `closed` |
| `field`, `connecting`, `closing`, `intentional` | the fields of `RabbitMQDomainBroker`; `connection` and `channel` change together |
| `callers`, `got` | who awaits `getChannel` or works with the channel it gave |
| `exited` | `process.exit(1)`, or an unhandled rejection |
| `phase`, `failed` | the call `app.ts` or `handleShutdown` awaits, and the `errors` |
| `home`, `consuming`, `msg` | the subscription's channel, whether the server delivers, the message in its handler |
| `job` | events the BullMQ job in progress has yet to publish |

A service starts with its subscription (processing) or without (metadata,
transcode, which connect when a probe or a job first asks). `connect()` is
interleaved at each await; `ConnectFails` leaves open what it had opened, and its
`'close'` listener on. After a signal the steps of `handleShutdown` follow each
other whatever rejects. A handler in flight is not awaited by anyone.

### UploadNotification

`issued` and `puts` are the upload requests and the bucket, `event` each
notification with the state of its lambda invocation (`try`, `pos` in its loop),
`calls` the webhook requests in flight, `announced` how often `video.uploaded`
was accepted. `Rejected` is an invocation that times out or whose `fetch` rejects:
the request it sent goes on, and its answer may reach a later attempt that waits
for another record (`Awaits` compares). S3 and Lambda are external: notifications
at least once, two retries (here `MaxRetries`), then dropped.

## 3. What the runs check

| Run | Instance | Shows |
|---|---|---|
| `aggregate` | 3 heights, 5 keys, 2 videos, at most 1 failed child | `CompletedIffExactCover`, `ResultSatisfiesContract`, `ReadyIffEveryRendition`, `BlameIsJustified`. Five keys are one more than the flow's four jobs, so every check can be the failing one; the view is taken of the result under every status a row may carry |
| `pipeline_claim` | 1 video, 2 deliveries, 2 instances, 2 faults | `AckedUploadHasFlow`, `ClaimIsNeverOrphaned`: the two handlers interleave at every statement, and each can be rejected, retried and killed |
| `pipeline_verdict` | 1 video, 2 instances, 2 attempts, 1 stall, 1 fault | `AnnouncedIsPersisted`, `RereadFindsVerdict`, `VerdictMatchesWork`, `CompletedJobIsAnnounced`, and that `VideoPipeline` implements `VideoRecord`: two workers on one job after a stall, with different results |
| `pipeline_liveness` | 1 instance, 2 attempts, 1 retry, 1 stall, 1 fault | `UploadReachesOutcome` |
| `broker_delivery` | 2 messages (1 always rejected), 2 consumers, 1 retry, 1 fault | `DeadMeansExhausted`, `CopiesAreAccounted`, `AcceptedIsSettled`, and that `BrokerSubscription` implements `DeliveryContract` (`ImplementsDelivery`) |
| `stream_upload` | 3 attempts of a job | `NeverTruncated`, `NoUnhandledError`, `JobSettles`, and that `StreamUpload` implements `UploadContract` (`ImplementsUpload`): either side fails at any point, before the process is spawned and after it ended |
| `metadata_job` | 2 overlapping runs, 1 track, 2 thumbnails, 1 fault | `ReadersHaveFile`, `ResultIsUploaded`, `LeftoversAreFaults`, `RunEnds` |
| `step_log` | a metadata and a transcode job, 2 runs (6 events), 1 fault | `LogIsTruthful`, `OutcomeIsProcessors`, `MissingIsExplained`, `RunIsAudited` |
| `shutdown` | 3 connections, a prober and a job of 2 events, 2 faults | `OneConnection`, `NoStaleChannel`, `WaitersAreServed` of the connection; `JobsKeepTheirChannel`, `CrashesOnlyInShutdown`, `ShutdownEnds` of the service |
| `upload_notification` | 2 originals, 1 stray key, 3 notifications, 1 retry, 2 faults | `DoneMeansAnnounced`, `DuplicatesAreExplained`, `UploadIsAnnounced`, and that `UploadNotification` implements `AnnouncementContract` (`ImplementsAnnouncement`). Two faults fail both attempts of a notification, so one can be given up |
| `pipeline_exhausted`, `pipeline_late_flow` | | expected violations, section 5 |

Bounds. `MaxFaults` bounds crashes, requeued deliveries and refusals; one is
enough for a second worker or a second copy, two for two of them at once.
`Deliveries` bounds the copies of an upload: two suffice for a race, as the
handler keeps no state between deliveries. Heights are one in the pipeline runs
(two children, so one may fail while the other runs) and three in the
aggregation. Five slots hold every copy: `CopiesAreAccounted` bounds them by
messages, faults and consumers. One retry has a first delivery, a last one and
the dead-letter queue behind it; that the count ends at `maxRetries` whatever its
value is proved. Two runs of a child job overlap; a third meets what
the second does. Three connections are one more than the faults, so that a
service whose first two fail still gets one. Three notifications hold two
originals and a stray key in batches of one or two, in any order, with duplicates
as far as every stored object keeps a notification of its own
(`NotifyAgain`); a batch of two has a record before and one behind the failing one.
Videos do not interact: no statement reads another video's row or job, and a
worker or handler that is busy with one video only delays the other.

Deadlock is not checked: a system whose uploads are all settled stops.

Fairness. Handlers, workers, child jobs, timers and deliveries are weakly fair:
the event loop, BullMQ's workers and RabbitMQ's timers run while the process is
up, and it is restarted. `RecoverOrphan` is the stalled-job check for a job whose
worker is gone. Uploads, crashes, rejected calls and stalls of live workers are
not fair: nothing makes them happen. In `StreamUpload` ffmpeg's exit is promised
only while somebody reads its output or after it was killed, since it blocks on a
full pipe; an upload is promised to end only once its stream has. In
`ServiceShutdown` the server answers or the socket fails, and `handleShutdown`
goes on when what it awaits settled. In `StepLifecycle` an accepted event is
settled, which is `AcceptedIsSettled` of the subscription. In `UploadNotification`
S3 notifies and Lambda invokes what is queued. Calls that reject again and again are
bounded by the code itself (attempts and retries), not by fairness.

## 4. What is proved

TLAPS checks every theorem for all values of the constants. The assumptions are
those the modules declare, and TLC evaluates them in the runs:
`HeightsAssumption` (finitely many heights, at least one), `RetryAssumption` and
`SubscriptionAssumption` (the bounds are naturals, at least one job attempt),
`NoneAssumption` (`None` is no video, copy or instance), `VideoAssumption`,
`AttemptsAssumption`, `JobAssumption` (the video stream is no audio track, and no
thumbnail is a track), `LifecycleAssumption`, `NotificationAssumption` (originals
and stray keys are disjoint, notifications are numbered from 1),
`ConnectionAssumption` and `ShutdownAssumption` (connections are numbered, `None` is
not one of them, the job's publisher is a caller, the bounds are naturals).

### Aggregation

`CompletedMeansCovered` is about the operator itself: for any finite set of
children, `aggregateProcessingResults` answers completed exactly when no child
failed and the values are one metadata result and one result of each height, all
of the video, each once; and then it returns those. Six checks that count are
thus equivalent to a definition that does not. The lemmas are the two directions:
`CompletedIffNoCheckFails` (the first failing check is the verdict),
`ChecksEmpty` (a count of one is a single key) and then `CoverPasses` (a cover
fails no check) and `PassingCovers` (what fails none is a cover).
`ChildFailureDecides`: a failed child alone decides the verdict.

`VerdictIsExactCover`, `AggregateSatisfiesContract` and `ReadyMeansRendered` are
`CompletedIffExactCover`, `ResultSatisfiesContract` and `ReadyIffEveryRendition`
of the runs; the invariant is that the children are finitely many and the result
is the aggregate of what they reported. `ReadyMeansRendered` reaches from the
children to the view: whatever status the row carries, a rendition is listed only
if all were delivered.

`BlameFallsOnTheGuilty` is `BlameIsJustified`: whichever of the six checks gives the
verdict, it blames a failed child, a child whose value is invalid, the
orchestrator, or a height that was not rendered exactly once. It rests on the
order of the checks: the count of a height's renditions is reached only after the
check for values of other videos passed, so the values it counts are the video's
(`RenditionBlame`); the other checks blame what they test (`CheckBlame`).

### Pipeline

`VideoPipelineProofs` proves every safety property the pipeline runs check
(`TypeCorrect`, `PublishedIsPersisted`, `StoredVerdictIsTrue`,
`LoserFindsVerdict`, `CompletionIsAnnounced`, `NoUploadIsDropped`,
`ClaimsAreFollowedUp`) and the refinement `PipelineRefinesRecord`, from one
inductive invariant. TLC checked `IInv` on both instances before it was proved.

* The properties are not inductive: that a worker about to publish holds the
  stored result depends on what it read several steps earlier, and that depends
  on children, rows and jobs never going back. `GrowStep` is that fact: a child
  that ended, a flow, a claim, a verdict and an announcement stay. It makes
  whatever a slow worker or a second handler read still true when it is used
  (`VerdictStays`, `WorkerStays`), however many steps of others come between.
* `FlowInv`: a flow implies a claimed row; an orchestrator job runs only when
  every child is done or one failed for good, so `readFailures` seeing no failure
  means that all children are done.
* `WorkerInv` says for each call a worker awaits what it has established: the
  failures it saw are failures, its result is justified by the children, what it
  publishes is stored, what it completes was announced.
* `RowInv`: a terminal row holds a verdict its children justify and has a flow.
  It is what lets the handler that finds a terminal row acknowledge its copy.
* `HandlerInv`, `CopyInv`: no two handlers hold one copy, and each statement of
  `claimPending` finds what the earlier ones left; with it, a claimed row without
  a flow keeps a copy until the flow exists.
* That an aggregate is of the right type and justified comes from the theorems
  about aggregation (`DoneVerdict`, `FailedVerdict`).

Two theorems say how far the findings of section 5 go. `AbandonedForGood`: when the
orchestrator job has failed for good without a verdict and no worker is left that
took it, no step of anyone ever changes that; a redelivered upload, a late child
and a restarted process all leave the row `in_progress`. `LateWorkIsPruned`: new
work after a verdict is created only by a handler that had claimed the video
before, only for pruned children of a failed video, and it changes neither the
verdict nor the orchestrator job; a completed video never gets any.

`LoudSteps` reduces the steps to the few that change rows, jobs or events;
`RowMove`, `FlowMove`, `CopyMove` and `HandlerMove` say how those change, and each
part of the invariant is then shown from them.

### Broker

`TypesHold`, `DeadLettersAreExhausted` (a dead letter had exactly `maxRetries`
retries) and `SubscriptionImplementsContract`. The refinement needs to know that
a copy is acknowledged only if its message is handled, buried or carried on by a
live copy (`LineInv`). With a requeued original and a published retry copy alive
together, two consumers might acknowledge on each other's account; they cannot,
because the copy that carries a line on has a larger retry count than the one
acknowledged, and so the copies of a message are never acknowledged in a circle.

`CopiesDoNotMultiply` is `CopiesAreAccounted`. A copy is made by a first
publication, by a consumer that republishes, or by a fault that requeues an
original whose retry copy survives; every step is one of eight changes of the
sets of used slots, sent messages and swapping consumers (`CopiesKept`), and each
change keeps the balance. That a republished copy has a slot of its own
(`OutDistinct`) is what makes the sets count.

### Connection and shutdown

`TypeCorrect`, `OneIsAlive`, `ChannelsAreFresh`, `JobsFinishFirst` and
`OnlyShutdownCrashes`, over any callers, connections, services and faults.

* `FieldInv` relates the fields of the broker object to the sockets: while a
  connect is in flight there is no channel, a channel in the field is live, and
  only `close()` takes one out to close it.
* `SocketInv`: before `close()` nothing else is live, and the sockets that are open
  apart from the two fields were each left by a failed connect. The property
  counts all open sockets, which is not inductive without naming the two that are
  accounted for by the fields.
* `PhaseInv`: `close()` is called in the last phase of `handleShutdown` and in no
  other place, after the worker's `close()` settled; unless that failed, the job
  has ended by then. A message in its handler has its channel until then, because
  a lost connection ends the process.

### Streaming upload

`ObjectsAreWhole`, `ErrorsAreHeard` and `UploadImplementsContract`. `NeverTruncated`
is not inductive: that what an upload commits is whole depends on why the stream
ended. `WriteInv` says so (only a resolved write ends the stream, and it resolves
only when ffmpeg exited with 0) and also follows a rejection from the process that
is not yet spawned to the one that is gone; `JobInv` makes that the end of the
job: a rejected job has neither a process nor a pending upload.

### Metadata job

`FileOutlivesReaders`, `ResultsAreStored` and `OnlyFaultsLeaveFiles`, for any number of
overlapping runs. `UploadInv`: uploads are pending only while the run awaits them,
and each of a run's tracks and thumbnails has one; `FileInv`: from its download to
its clean-up a run has its file, because the paths of two runs differ
(`PathsAreRuns`).

### Step lifecycle

`TheLogIsTrue`, `BrokerDecidesNoJob` and `LossesAreExplained`. Every event that
travels is justified by its run (`EventInv`), and that stays true because a run's
result and error are chosen once; the rows are the handled events, each once;
`KnownInv`: an event a run has passed is on its way, handled, dead or lost.

The composition with `DeliveryContract` is justified by two theorems.
`QueuesKeepTheContract`: the queues see its steps alone, so what they do is what
`BrokerSubscription` implements. `EventsAreNew`: an event is published at most
once, so `Accept`, which takes only new messages, never holds back a run that the
code would let go on.

### Upload notification

`ReturnsAfterAnnouncing` and `NotificationImplementsContract`. `PassedInv`: every
original the loop has passed is announced. It holds because a call is about the
record it was made for and answers well only after the broker (`CallInv`), and
because a late answer is dropped unless attempt and record agree.

`DuplicatesHaveReasons` is `DuplicatesAreExplained`. The property alone is not
inductive: a notification whose loop is yet to reach an upload, and a request the
webhook has not answered, will each become an announcement without another fault.
`Account` adds them: announcements, notifications ahead of the upload (`Ahead`) and
its requests in flight (`InFlight`) are together at most its notifications and the
faults. A request takes the place of its loop (`PostStep`), an announcement that of
its request (`PublishStep`); an answer with an error, which lets the lambda begin
again, costs a fault, and so does an invocation that is rejected or a duplicate
notification (`PaidStep`). It needs that no batch names a key twice and that a
request is behind its notification (`OrderInv`): an answer cannot await the
notification before the request was made.

`GivingUpTakesFaults`: a notification is dropped only after `MaxRetries + 1` faults,
the safety part of what `UploadIsAnnounced` excepts; so with no more faults than
retries no upload is lost. `Cost` charges each failed attempt to a fault, ahead of
time when the error it will get is under way; `OrderInv` again keeps an old error
from being charged to a new request.

## 5. Where code and documentation disagree

* `pipeline_exhausted`: when the orchestrator's attempts are used up, the
  `failed` listener only logs (`worker.ts:62`). The row stays `in_progress`, no
  event is published, and a repeated upload event cannot revive the job.
  `README.md:29`: "aggregated completion persisted in Postgres".
* `pipeline_late_flow`: `upload-events.ts:11` reads the status, line 18 adds the
  flow. In between the video may fail and its waiting children be pruned; the
  late flow creates them again and they run for a terminal video, which line 14
  calls skipped.

Five more disagreements have no run of their own; the models contain the
behaviour, and the properties are stated so that they hold of it.

* An event published before its first subscription asserted its queue is
  confirmed and dropped: `publish` (`rabbitmq-broker.ts:101`) sets no mandatory flag.
  `README.md:73` promises "Reliable messaging: publisher confirms".
  `AcceptedIsSettled` and `DeliveryContract` speak of what a queue accepted.
* A processor that throws an error with a blank text leaves no `failed` event:
  the schema asks for a nonempty one (`event-payload-schemas.ts:54`), `publish`
  rejects, `safeDispatch` swallows it (`processing-lifecycle.ts:16`).
  `MissingIsExplained` names this as the only loss without a fault.
* `README.md:76`: "Clean shutdown". Nobody stops the HTTP server, and a `/ready`
  probe after `broker.close()` opens a connection (`rabbitmq-broker.ts:42`) that
  keeps the process alive. And a handler in flight is not awaited: its ack and its
  nack throw on the closed channel, unhandled. `CrashesOnlyInShutdown` confines that
  to the time after `close()`; `OneConnection` speaks of the time before.
* `README.md:28`: "confirmation arrives via S3 → Lambda → webhook". When Lambda's
  retries are used up the notification is dropped (`upload-notifier.ts:41`
  rejects, no failure destination is configured) and nothing else looks for the
  upload. `UploadIsAnnounced` excepts a notification only if each of its attempts
  failed for a fault of its own.
* `README.md:22` says of the metadata and transcode workers: "end-to-end streaming
  S3↔ffmpeg↔S3 (no full-file buffering)". The metadata job downloads the whole
  original to a temporary file first (`src/apps/metadata-service/src/job.ts:102`),
  which ffprobe, the audio tracks and the thumbnails read; only transcoding
  streams, which is what `README.md:30` describes. `MetadataJob` has the file, and
  `ReadersHaveFile` and `LeftoversAreFaults` are about it.

## 6. Only model-checked, and not modelled

Only TLC checks `UploadReachesOutcome`, `AcceptedIsSettled`, `JobSettles`, `RunEnds`,
`RunIsAudited`, `WaitersAreServed`, `ShutdownEnds` and `UploadIsAnnounced`: liveness
under fairness and `ENABLED` are out of the prover's reach, as are induction over
data and `RECURSIVE` operators, of which the models use none. Every
invariant and every refinement the passing runs check is proved.

Not modelled:

* a subscription does not notice that the server cancelled its consumer
  (`rabbitmq-broker.ts:183` ignores the null message); the code has no reaction to it,
  so there is nothing to state;
* the expiry of presigned URLs: a `PutObject` may come at any time anyway;
* a caller other than the lambda that posts the key of an original to the webhook;
* what the HTTP routes answer, beyond the view of a row and of the log;
* the arguments of ffmpeg and ffprobe, the parsing of their numbers and the times
  of the thumbnails: pure, and only as right as the external programs;
* environment, provisioning and build files: configuration.

## 7. Plan

1. The composition of `UploadNotification` and `VideoPipeline`: the number of
   deliveries a video's handler may see, instead of the bound `Deliveries`.
2. The copies of `VideoPipeline` as an instance of `DeliveryContract`, with the
   handled messages as a history variable: a crash between a handler's return and
   its acknowledgement delivers a handled message again, which the state of a copy
   does not show.
3. Action theorems in the manner of `AbandonedForGood` for the uploads that
   `UploadIsAnnounced` excepts: nothing announces an upload whose notifications
   were dropped.
