-------------------------- MODULE StreamUploadProofs --------------------------
(***************************************************************************)
(* Proofs about StreamUpload, for any number of attempts.                  *)
(***************************************************************************)
EXTENDS StreamUpload, TLAPS

(* The write promise follows the process: its flag is set with its outcome, *)
(* a rejection that awaits the exit was not chosen before the spawn, and    *)
(* the stream is ended by a success alone.                                  *)
WriteInv ==
    /\ done <=> write # "running"
    /\ write = "resolved" => proc = "ok"
    /\ write = "awaitStart" => proc = "starting"
    /\ write \in {"awaitExit", "rejected"} => proc # "starting"
    /\ write = "rejected" => proc \notin Alive
    /\ pass = "ended" => write = "resolved"

(* What was uploaded is what ffmpeg wrote to the end.                       *)
UploadInv ==
    /\ object # "partial"
    /\ upload = "resolved" => object = "complete" /\ write = "resolved"
    /\ ~unhandled

(* A job that settled has nothing left that moves.                          *)
JobInv ==
    /\ job = "presign" => proc = "starting" /\ upload = "idle"
    /\ job = "resolved" => write = "resolved" /\ upload = "resolved"
    /\ job = "rejected" => proc \notin Alive /\ upload # "pending"

IInv == TypeOK /\ WriteInv /\ UploadInv /\ JobInv

(* A fresh attempt starts well.                                             *)
LEMMA InitHolds == Init => IInv
<1>1. attempt \in 0..MaxAttempts \/ ~Init
  BY AttemptsAssumption DEF Init
<1>2. listeners \subseteq {"write", "abort"} \/ ~Init
  BY DEF Init
<1> QED BY <1>1, <1>2
        DEF Init, IInv, TypeOK, WriteInv, UploadInv, JobInv, Alive

(* The steps of the command and its listeners keep the invariant.           *)
LEMMA CommandKeeps ==
  ASSUME IInv, Command \/ FfmpegExits \/ ProcessClosed
  PROVE  IInv'
<1>1. CASE SpawnFails
  BY <1>1 DEF SpawnFails, HandleCommandError, Rejecting, IInv, TypeOK, WriteInv,
              UploadInv, JobInv, Alive
<1>2. CASE Spawn
  BY <1>2 DEF Spawn, Spawned, IInv, TypeOK, WriteInv, UploadInv, JobInv, Alive
<1>3. CASE FfmpegReports
  BY <1>3 DEF FfmpegReports, HandleCommandEnd, HandleCommandError, Rejecting,
              IInv, TypeOK, WriteInv, UploadInv, JobInv, Alive
<1>4. CASE OutputClosed
  BY <1>4 DEF OutputClosed, HandleCommandError, Rejecting, IInv, TypeOK,
              WriteInv, UploadInv, JobInv, Alive
<1>5. CASE FfmpegExits
  BY <1>5 DEF FfmpegExits, IInv, TypeOK, WriteInv, UploadInv, JobInv, Alive
<1>6. CASE ProcessClosed
  BY <1>6 DEF ProcessClosed, IInv, TypeOK, WriteInv, UploadInv, JobInv, Alive
<1> QED BY <1>1, <1>2, <1>3, <1>4, <1>5, <1>6 DEF Command

(* The steps of the upload, the job and its promises keep it.               *)
LEMMA JobKeeps ==
  ASSUME IInv,
         \/ PresignFails \/ OpenStreams \/ UploadFails \/ UploadCommits
         \/ AllRejects \/ AllSettled \/ AllResolve \/ Retry \/ Crash
  PROVE  IInv'
<1>1. CASE PresignFails
  BY <1>1 DEF PresignFails, streamVars, IInv, TypeOK, WriteInv, UploadInv,
              JobInv, Alive
<1>2. CASE OpenStreams
  BY <1>2 DEF OpenStreams, IInv, TypeOK, WriteInv, UploadInv, JobInv, Alive
<1>3. CASE UploadFails
  BY <1>3 DEF UploadFails, IInv, TypeOK, WriteInv, UploadInv, JobInv, Alive
<1>4. CASE UploadCommits
  BY <1>4 DEF UploadCommits, streamVars, IInv, TypeOK, WriteInv, UploadInv,
              JobInv, Alive
<1>5. CASE AllRejects
  BY <1>5 DEF AllRejects, Abort, AbortListens, HandleWritableError, Rejecting,
              Killed, IInv, TypeOK, WriteInv, UploadInv, JobInv, Alive
<1>6. CASE AllSettled
  BY <1>6 DEF AllSettled, Settled, streamVars, IInv, TypeOK, WriteInv,
              UploadInv, JobInv, Alive
<1>7. CASE AllResolve
  BY <1>7 DEF AllResolve, streamVars, IInv, TypeOK, WriteInv, UploadInv,
              JobInv, Alive
<1>8. CASE Retry \/ Crash
  <2>1. attempt' \in 0..MaxAttempts
    BY <1>8, AttemptsAssumption DEF Retry, Crash, Again, IInv, TypeOK
  <2>2. listeners' \subseteq {"write", "abort"}
    BY <1>8 DEF Retry, Crash, Again, Fresh
  <2>3. Fresh /\ UNCHANGED <<object, unhandled>>
    BY <1>8 DEF Retry, Crash, Again
  <2>4. TypeOK'
    BY <2>1, <2>2, <2>3 DEF Fresh, IInv, TypeOK
  <2>5. WriteInv' /\ UploadInv' /\ JobInv'
    BY <2>3 DEF Fresh, IInv, WriteInv, UploadInv, JobInv, Alive
  <2> QED BY <2>4, <2>5 DEF IInv
<1> QED BY <1>1, <1>2, <1>3, <1>4, <1>5, <1>6, <1>7, <1>8

LEMMA StutterKeeps == IInv /\ UNCHANGED vars => IInv'
  BY DEF vars, streamVars, IInv, TypeOK, WriteInv, UploadInv, JobInv

(* The invariant holds.                                                     *)
LEMMA Invariance == Spec => []IInv
<1>1. IInv /\ [Next]_vars => IInv'
  BY CommandKeeps, JobKeeps, StutterKeeps DEF Next, Promises
<1> QED BY InitHolds, <1>1, PTL DEF Spec

(* Types, and no attempt beyond the bound.                                  *)
THEOREM TypeCorrect == Spec => []TypeOK
<1>1. IInv => TypeOK
  BY DEF IInv
<1> QED BY Invariance, <1>1, PTL

(* s3.ts, pipe-ffmpeg-to-writable.ts: a truncated rendition is never stored.*)
THEOREM ObjectsAreWhole == Spec => []NeverTruncated
<1>1. IInv => NeverTruncated
  BY DEF IInv, UploadInv, NeverTruncated
<1> QED BY Invariance, <1>1, PTL

(* rejectAfterProcessExit: no ffmpeg outlives the promise of its job.       *)
THEOREM ProcessesEndFirst == Spec => []NoProcessOutlivesJob
<1>1. IInv => NoProcessOutlivesJob
  BY DEF IInv, JobInv, WriteInv, NoProcessOutlivesJob, Alive
<1> QED BY Invariance, <1>1, PTL

(* abort(): its listener hears the error it causes.                         *)
THEOREM ErrorsAreHeard == Spec => []NoUnhandledError
<1>1. IInv => NoUnhandledError
  BY DEF IInv, UploadInv, NoUnhandledError
<1> QED BY Invariance, <1>1, PTL

-----------------------------------------------------------------------------
(* Refinement.  While the job is pending every step is Work or none.        *)

Promise == IF Settled(job) THEN job ELSE "pending"
Pending == job \in {"presign", "streaming", "aborting"}

LEMMA PendingWorks ==
  ASSUME IInv, IInv', Pending, Pending',
         object' \in {object, "complete"}
  PROVE  Contract!Work
<1>1. Promise = "pending" /\ Promise' = "pending"
  BY DEF Promise, Pending, Settled
<1>2. (proc \in Alive)' \in BOOLEAN
  OBVIOUS
<1>3. (object = "complete")' \in {object = "complete", TRUE}
  OBVIOUS
<1> QED BY <1>1, <1>2, <1>3 DEF Contract!Work, Promise

(* A step after which the contract's variables are the same is a stutter.   *)
LEMMA Stutters ==
  ASSUME UNCHANGED <<job, object>>, (proc \in Alive)' = (proc \in Alive)
  PROVE  UNCHANGED Contract!vars
  BY DEF Contract!vars, Settled

LEMMA CommandRefines ==
  ASSUME IInv, IInv', Command \/ FfmpegExits \/ ProcessClosed
  PROVE  [Contract!Next]_(Contract!vars)
<1>1. UNCHANGED <<job, object>>
  BY DEF Command, SpawnFails, Spawn, Spawned, FfmpegReports, OutputClosed,
         FfmpegExits, ProcessClosed
<1>2. CASE Pending
  BY <1>1, <1>2, PendingWorks DEF Contract!Next, Pending
<1>3. CASE ~Pending
  <2>1. job \in {"resolved", "rejected"} /\ proc \notin Alive
    BY <1>3 DEF IInv, TypeOK, JobInv, WriteInv, Pending, Alive
  <2>2. proc' \notin Alive
    BY <2>1 DEF Command, SpawnFails, Spawn, Spawned, FfmpegReports,
         HandleCommandEnd, HandleCommandError, OutputClosed, FfmpegExits,
         ProcessClosed, Alive
  <2> QED BY <1>1, <2>1, <2>2, Stutters
<1> QED BY <1>2, <1>3

LEMMA JobRefines ==
  ASSUME IInv, IInv',
         \/ PresignFails \/ OpenStreams \/ UploadFails \/ UploadCommits
         \/ AllRejects \/ AllSettled \/ AllResolve \/ Retry \/ Crash
  PROVE  [Contract!Next]_(Contract!vars)
<1>1. CASE PresignFails
  <2>1. ~(proc \in Alive) /\ UNCHANGED <<proc, object>>
    BY <1>1 DEF PresignFails, streamVars, IInv, JobInv, Alive
  <2>2. Contract!Reject
    BY <1>1, <2>1 DEF PresignFails, Contract!Reject, Settled
  <2> QED BY <2>2 DEF Contract!Next
<1>2. CASE OpenStreams \/ AllRejects \/ Crash
  <2>1. Pending /\ Pending' /\ object' = object
    BY <1>2 DEF OpenStreams, AllRejects, Crash, Again, Fresh, Pending
  <2> QED BY <2>1, PendingWorks DEF Contract!Next
<1>3. CASE UploadFails \/ UploadCommits
  <2>1. Pending /\ Pending'
    BY <1>3 DEF UploadFails, UploadCommits, IInv, TypeOK, JobInv, Pending
  <2>2. object' \in {object, "complete"}
    BY <1>3 DEF UploadFails, UploadCommits, IInv, TypeOK, WriteInv
  <2> QED BY <2>1, <2>2, PendingWorks DEF Contract!Next
<1>4. CASE AllSettled
  <2>1. ~(proc \in Alive) /\ UNCHANGED <<proc, object>>
    BY <1>4 DEF AllSettled, streamVars, Settled, IInv, WriteInv, Alive
  <2>2. Contract!Reject
    BY <1>4, <2>1 DEF AllSettled, Contract!Reject, Settled
  <2> QED BY <2>2 DEF Contract!Next
<1>5. CASE AllResolve
  <2>1. /\ ~(proc \in Alive) /\ object = "complete"
        /\ UNCHANGED <<proc, object>>
    BY <1>5 DEF AllResolve, streamVars, IInv, WriteInv, UploadInv, Alive
  <2>2. Contract!Resolve
    BY <1>5, <2>1 DEF AllResolve, Contract!Resolve, Settled
  <2> QED BY <2>2 DEF Contract!Next
<1>6. CASE Retry
  <2>1. /\ ~(proc \in Alive) /\ ~(proc' \in Alive)
        /\ object' = object
    BY <1>6 DEF Retry, Again, Fresh, IInv, JobInv, Alive
  <2>2. Contract!Again
    BY <1>6, <2>1 DEF Retry, Again, Fresh, Contract!Again, Settled
  <2> QED BY <2>2 DEF Contract!Next
<1> QED BY <1>1, <1>2, <1>3, <1>4, <1>5, <1>6

(* withS3UploadStream keeps its promise: resolved means stored, and settled *)
(* means that nothing reads the source any longer.                          *)
THEOREM UploadImplementsContract == Spec => ImplementsUpload
<1>1. Init => Contract!Init
  BY DEF Init, Contract!Init, Settled, Alive
<1>2. IInv /\ IInv' /\ [Next]_vars => [Contract!Next]_(Contract!vars)
  <2>1. ASSUME UNCHANGED vars PROVE UNCHANGED Contract!vars
    BY <2>1 DEF vars, streamVars, Contract!vars, Settled
  <2> QED BY <2>1, CommandRefines, JobRefines DEF Next, Promises
<1> QED BY <1>1, <1>2, Invariance, PTL
        DEF Spec, ImplementsUpload, Contract!Spec
===============================================================================
