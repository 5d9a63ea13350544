----------------------------- MODULE StreamUpload -----------------------------
(***************************************************************************)
(* A transcode job: withS3UploadStream couples an S3 upload, which reads a *)
(* pass-through stream, with pipeFfmpegToWritable, which fills it from an  *)
(* ffmpeg process.  Either side may fail at any time and has to take the   *)
(* other down with it.  A rejected attempt is retried, a crashed one is    *)
(* run again, always under the same object key.                            *)
(*                                                                         *)
(* External: fluent-ffmpeg (spawns, reports 'end' or 'error' once, gives   *)
(* up when its output stream closes), Node streams, lib-storage's Upload.  *)
(***************************************************************************)
EXTENDS Naturals

CONSTANT MaxAttempts    \* bound: attempts and restarts of the job

ASSUME AttemptsAssumption == MaxAttempts \in Nat

VARIABLES
  attempt,
  job,        \* runVideoTranscodeJob and withS3UploadStream
  write,      \* the promise of pipeFfmpegToWritable
  done,       \* its flag: an outcome was chosen
  proc,       \* the ffmpeg process
  reported,   \* fluent-ffmpeg has emitted 'end' or 'error'
  pass,       \* the PassThrough
  listeners,  \* who listens to its 'error'
  upload,     \* the promise of upload.done()
  object,     \* what the key holds
  unhandled   \* an 'error' nobody listened to: the process dies

streamVars == <<write, done, proc, reported, pass, listeners>>
vars == <<attempt, job, streamVars, upload, object, unhandled>>

Alive == {"running", "killed"}
Settled(promise) == promise \in {"resolved", "rejected"}

(* A fresh attempt: new stream, command and Upload; the object stays.       *)
Fresh == /\ job' = "presign" /\ write' = "running" /\ done' = FALSE
         /\ proc' = "starting" /\ reported' = FALSE /\ pass' = "open"
         /\ listeners' = {} /\ upload' = "idle"

Init == /\ attempt = 0 /\ job = "presign" /\ write = "running" /\ done = FALSE
        /\ proc = "starting" /\ reported = FALSE /\ pass = "open"
        /\ listeners = {} /\ upload = "idle" /\ object = "absent"
        /\ unhandled = FALSE

-----------------------------------------------------------------------------
(* runVideoTranscodeJob                                                     *)

PresignFails ==
    /\ job = "presign"
    /\ job' = "rejected"
    /\ UNCHANGED <<attempt, streamVars, upload, object, unhandled>>

(* createS3UploadStream starts the upload; the write follows at once.       *)
OpenStreams ==
    /\ job = "presign"
    /\ job' = "streaming"
    /\ upload' = "pending"
    /\ listeners' = {"write"}
    /\ UNCHANGED <<attempt, write, done, proc, reported, pass, object,
                   unhandled>>

-----------------------------------------------------------------------------
(* pipeFfmpegToWritable                                                     *)

(* rejectAfterProcessExit: until the process is gone; waitForStart: a       *)
(* process that is being spawned is awaited first, to be killed.            *)
RejectingAtOnce(waitForStart) == "rejected"     \* mutant: waits for nothing
Rejecting(waitForStart) ==
    IF proc = "starting" /\ waitForStart THEN "awaitStart" ELSE "awaitExit"
(* command.kill('SIGKILL')                                                  *)
Killed == IF proc = "running" THEN "killed" ELSE proc

(* handleWritableError                                                      *)
HandleWritableError ==
    /\ write' = IF done THEN write ELSE Rejecting(TRUE)
    /\ done' = TRUE
    /\ proc' = IF done THEN proc ELSE Killed

(* command.on('error'), and the catch of pipe(): the stream is destroyed    *)
(* without an error, so that it only closes.                                *)
EndsOnError(killed) ==                          \* mutant: end() on 'error'
    /\ write' = IF done THEN write ELSE Rejecting(FALSE)
    /\ done' = TRUE
    /\ pass' = IF done THEN pass ELSE "ended"
    /\ proc' = killed
HandleCommandError(killed) ==
    /\ write' = IF done THEN write ELSE Rejecting(FALSE)
    /\ done' = TRUE
    /\ pass' = IF done THEN pass ELSE "destroyed"
    /\ proc' = killed

(* command.on('end')                                                        *)
HandleCommandEnd ==
    /\ write' = IF done THEN write ELSE "resolved"
    /\ done' = TRUE
    /\ pass' = IF done \/ pass # "open" THEN pass ELSE "ended"
    /\ listeners' = IF done THEN listeners ELSE listeners \ {"write"}
    /\ UNCHANGED proc

(* pipe(command) throws, or the command fails before it spawns a process.   *)
SpawnFails ==
    /\ job \in {"streaming", "aborting"} /\ proc = "starting" /\ ~reported
    /\ reported' = TRUE
    /\ IF write = "awaitStart"
       THEN write' = "awaitExit" /\ proc' = "unspawned"
            /\ UNCHANGED <<done, pass>>
       ELSE HandleCommandError("unspawned")
    /\ UNCHANGED <<attempt, job, listeners, upload, object, unhandled>>

(* 'start': onStart kills the process the rejection was waiting for.        *)
Spawned(onStart) ==
    /\ job \in {"streaming", "aborting"} /\ proc = "starting" /\ ~reported
    /\ proc' = IF write = "awaitStart" THEN onStart ELSE "running"
    /\ write' = IF write = "awaitStart" THEN "awaitExit" ELSE write
    /\ UNCHANGED <<attempt, job, done, reported, pass, listeners, upload,
                   object, unhandled>>
Spawn == Spawned("killed")

(* The exit leaves the stream open ({ end: false }): a failed process has   *)
(* written only a part.                                                     *)
ExitEndsStream ==                               \* mutant: { end: true }
    /\ proc \in Alive
    /\ proc' \in IF proc = "running" THEN {"ok", "bad"} ELSE {"bad"}
    /\ pass' = IF pass = "open" THEN "ended" ELSE pass
    /\ UNCHANGED <<attempt, job, write, done, reported, listeners,
                   upload, object, unhandled>>
FfmpegExits ==
    /\ proc \in Alive
    /\ proc' \in IF proc = "running" THEN {"ok", "bad"} ELSE {"bad"}
    /\ UNCHANGED <<attempt, job, write, done, reported, pass, listeners,
                   upload, object, unhandled>>

FfmpegReports ==
    /\ proc \in {"ok", "bad"} /\ ~reported
    /\ reported' = TRUE
    /\ IF proc = "ok" THEN HandleCommandEnd
       ELSE HandleCommandError("bad") /\ UNCHANGED listeners
    /\ UNCHANGED <<attempt, job, upload, object, unhandled>>

(* fluent-ffmpeg reports 'Output stream closed', then kills the process.    *)
OutputClosed ==
    /\ proc = "running" /\ pass = "destroyed" /\ ~reported
    /\ reported' = TRUE
    /\ HandleCommandError("killed")
    /\ UNCHANGED <<attempt, job, listeners, upload, object, unhandled>>

ProcessClosed ==
    /\ write = "awaitExit" /\ proc \notin Alive
    /\ write' = "rejected"
    /\ listeners' = listeners \ {"write"}
    /\ UNCHANGED <<attempt, job, done, proc, reported, pass, upload, object,
                   unhandled>>

-----------------------------------------------------------------------------
(* The upload.  When it fails it may close a stream it has begun to read;   *)
(* the answer to its last request may be lost although the object is there. *)

UploadFails ==
    /\ upload = "pending"
    /\ upload' = "rejected"
    /\ pass' \in {pass} \cup IF proc = "starting" THEN {} ELSE {"destroyed"}
    /\ object' \in {object} \cup
         IF pass = "ended" THEN {IF proc = "ok" THEN "complete" ELSE "partial"}
         ELSE {}
    /\ UNCHANGED <<attempt, job, write, done, proc, reported, listeners,
                   unhandled>>

UploadCommits ==
    /\ upload = "pending" /\ pass = "ended"
    /\ upload' = "resolved"
    /\ object' = IF proc = "ok" THEN "complete" ELSE "partial"
    /\ UNCHANGED <<attempt, job, streamVars, unhandled>>

-----------------------------------------------------------------------------
(* withS3UploadStream                                                       *)

(* abort(): its own listener first, then destroy(error), then the upload.   *)
AbortIsDeaf == {}                               \* mutant: no listener of it
AbortListens == {"abort"}
AbortsUploadOnly ==                             \* mutant: no pass.destroy()
    /\ upload' = IF upload = "pending" THEN "rejected" ELSE upload
    /\ UNCHANGED <<write, done, proc, pass, listeners, unhandled>>
Abort ==
    LET heard == listeners \cup AbortListens
    IN /\ listeners' = heard
       /\ pass' = "destroyed"
       /\ unhandled' = (unhandled \/ (pass # "destroyed" /\ heard = {}))
       /\ IF pass # "destroyed" /\ "write" \in heard
          THEN HandleWritableError
          ELSE UNCHANGED <<write, done, proc>>
       /\ upload' = IF upload = "pending" THEN "rejected" ELSE upload

(* Promise.all rejects with the first of the two.                           *)
AllRejects ==
    /\ job = "streaming"
    /\ "rejected" \in {write, upload}
    /\ job' = "aborting"
    /\ Abort
    /\ UNCHANGED <<attempt, reported, object>>

(* ... and Promise.allSettled waits for both.                               *)
AllSettled ==
    /\ job = "aborting"
    /\ Settled(write) /\ Settled(upload)
    /\ job' = "rejected"
    /\ UNCHANGED <<attempt, streamVars, upload, object, unhandled>>

AllResolve ==
    /\ job = "streaming"
    /\ write = "resolved" /\ upload = "resolved"
    /\ job' = "resolved"
    /\ UNCHANGED <<attempt, streamVars, upload, object, unhandled>>

(* BullMQ retries a rejected job; a worker that died is replaced, and its   *)
(* ffmpeg is gone with the container.                                       *)
Again ==
    /\ attempt < MaxAttempts
    /\ attempt' = attempt + 1
    /\ Fresh

Retry == job = "rejected" /\ Again /\ UNCHANGED <<object, unhandled>>
Crash == /\ job \in {"streaming", "aborting"}
         /\ Again /\ UNCHANGED <<object, unhandled>>

-----------------------------------------------------------------------------
Command == Spawn \/ SpawnFails \/ FfmpegReports \/ OutputClosed
Promises == ProcessClosed \/ AllRejects \/ AllSettled \/ AllResolve

Next == \/ PresignFails \/ OpenStreams
        \/ Command \/ FfmpegExits
        \/ UploadFails \/ UploadCommits
        \/ Promises
        \/ Retry \/ Crash

Spec == Init /\ [][Next]_vars

(* ffmpeg blocks on a stream nobody reads any more, so its exit is promised *)
(* only while the upload reads or once it was killed; an Upload sees the    *)
(* end of its stream or that it was destroyed.                              *)
Unblocked == proc = "killed" \/ (upload = "pending" /\ pass = "open")
ExitsUnblocked == Unblocked /\ FfmpegExits
UploadEnds == UploadCommits \/ (pass = "destroyed" /\ UploadFails)

FairSpec == /\ Spec
            /\ WF_vars(OpenStreams) /\ WF_vars(Command) /\ WF_vars(Promises)
            /\ WF_vars(ExitsUnblocked) /\ WF_vars(UploadEnds)

-----------------------------------------------------------------------------
(* Every variable stays in its type.                                        *)
TypeOK ==
    /\ attempt \in 0..MaxAttempts
    /\ job \in {"presign", "streaming", "aborting", "resolved", "rejected"}
    /\ write \in {"running", "awaitStart", "awaitExit", "resolved", "rejected"}
    /\ done \in BOOLEAN
    /\ proc \in {"starting", "unspawned", "ok", "bad"} \cup Alive
    /\ reported \in BOOLEAN
    /\ pass \in {"open", "ended", "destroyed"}
    /\ listeners \subseteq {"write", "abort"}
    /\ upload \in {"idle", "pending", "resolved", "rejected"}
    /\ object \in {"absent", "complete", "partial"}
    /\ unhandled \in BOOLEAN

(* The key never holds a truncated rendition: the stream is ended, and so   *)
(* the upload completed, only after ffmpeg succeeded.                       *)
NeverTruncated == object # "partial"

(* When the job's promise settles its ffmpeg is gone, whichever side failed *)
(* first and even if the process had not been spawned yet.                  *)
NoProcessOutlivesJob == job \in {"resolved", "rejected"} => proc \notin Alive

(* s3.ts:155: aborting "cannot emit an unhandled stream error", although    *)
(* pipeFfmpegToWritable has removed its listener.                           *)
NoUnhandledError == ~unhandled

(* What callers rely on: see UploadContract.                                *)
Contract == INSTANCE UploadContract WITH
              promise <- IF Settled(job) THEN job ELSE "pending",
              reading <- proc \in Alive,
              stored <- object = "complete"
ImplementsUpload == Contract!Spec

(* Every attempt settles: an error of one side ends the other, none waits   *)
(* for ever.                                                                *)
JobSettles == (job = "streaming") ~> Settled(job)
===============================================================================
