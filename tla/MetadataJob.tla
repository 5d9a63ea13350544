----------------------------- MODULE MetadataJob ------------------------------
(***************************************************************************)
(* The metadata job of one video: download the original to a temporary     *)
(* file, probe it, upload every audio track and the thumbnails from it in  *)
(* parallel, remove the file.  A job that stalled runs again while its     *)
(* first run still goes on, in the same file system and under the same     *)
(* object keys.  Each upload is a withS3UploadStream (UploadContract).     *)
(***************************************************************************)
EXTENDS FiniteSets, Naturals

CONSTANTS Runs,        \* runs of the job: attempts, and reruns after a stall
          Tracks,      \* audio tracks the original may have
          Video,       \* the original's video stream, if it has one
          Thumbnails,  \* THUMBNAIL_COUNT of them, always
          MaxFaults    \* bound: crashes and files that cannot be unlinked

ASSUME JobAssumption ==
    /\ Runs \subseteq Nat /\ MaxFaults \in Nat
    /\ Tracks \cap Thumbnails = {} /\ Video \notin Tracks

VARIABLES
  pc,       \* each run: the call it awaits
  files,    \* temporary files on disk: "partial" or "complete"
  found,    \* the tracks its probe found
  uploads,  \* its upload promises
  outcome,  \* what the run returns or throws
  objects,  \* uploads some run has stored
  faults

vars == <<pc, files, found, uploads, outcome, objects, faults>>

Uploads == Tracks \cup Thumbnails
(* The name ends in the time of the start: every run has its own file.      *)
LocalPath(r) == r
Paths == {LocalPath(r) : r \in Runs}
Active(r) == pc[r] \in {"download", "probe", "extract", "cleanUp"}
Put(path, state) == files' = [files EXCEPT ![path] = state]
(* throw: the finally block still cleans up                                 *)
ThrowAway(r) ==                             \* mutant: no finally
    /\ pc' = [pc EXCEPT ![r] = "over"]
    /\ outcome' = [outcome EXCEPT ![r] = "failed"]
Throw(r) == /\ pc' = [pc EXCEPT ![r] = "cleanUp"]
            /\ outcome' = [outcome EXCEPT ![r] = "failed"]
Fault == faults < MaxFaults /\ faults' = faults + 1

Init == /\ pc = [r \in Runs |-> "idle"]
        /\ files = [p \in Paths |-> "absent"]
        /\ found = [r \in Runs |-> {}]
        /\ uploads = [r \in Runs |-> [u \in Uploads |-> "none"]]
        /\ outcome = [r \in Runs |-> "none"]
        /\ objects = {}
        /\ faults = 0

-----------------------------------------------------------------------------
Start(r) ==
    /\ pc[r] = "idle"
    /\ pc' = [pc EXCEPT ![r] = "download"]
    /\ Put(LocalPath(r), "partial")
    /\ UNCHANGED <<found, uploads, outcome, objects, faults>>

(* The pipeline wrote everything, or broke with a part on disk.             *)
Downloaded(r) ==
    /\ pc[r] = "download"
    /\ pc' = [pc EXCEPT ![r] = "probe"]
    /\ Put(LocalPath(r), "complete")
    /\ UNCHANGED <<found, uploads, outcome, objects, faults>>

DownloadFails(r) ==
    /\ pc[r] = "download"
    /\ files' \in {files, [files EXCEPT ![LocalPath(r)] = "absent"]}
    /\ Throw(r)
    /\ UNCHANGED <<found, uploads, objects, faults>>

(* ffprobe exits with an error or prints no JSON; getVideoMetadata throws   *)
(* when there is no video stream.                                           *)
ExtractAudioTracks(streams) == {s \in streams : s # Video}

ProbeFails(r) ==
    /\ pc[r] = "probe"
    /\ Throw(r)
    /\ UNCHANGED <<files, found, uploads, objects, faults>>

(* Both groups start together, every upload of a group at once.             *)
Probed(r, streams) ==
    /\ pc[r] = "probe"
    /\ Video \in streams
    /\ found' = [found EXCEPT ![r] = ExtractAudioTracks(streams)]
    /\ uploads' = [uploads EXCEPT ![r] = [u \in Uploads |->
         IF u \in found'[r] \cup Thumbnails THEN "pending" ELSE "none"]]
    /\ pc' = [pc EXCEPT ![r] = "extract"]
    /\ UNCHANGED <<files, outcome, objects, faults>>

(* A rejected upload may have stored its object all the same.               *)
UploadSettles(r, u) ==
    /\ uploads[r][u] = "pending"
    /\ \E promise \in {"resolved", "rejected"} :
         /\ uploads' = [uploads EXCEPT ![r][u] = promise]
         /\ objects' \in {objects \cup {u}} \cup
              IF promise = "rejected" THEN {objects} ELSE {}
    /\ UNCHANGED <<pc, files, found, outcome, faults>>

(* waitForAll of a group, over allSettled: it waits for every upload and    *)
(* then throws if one of them failed.                                       *)
GroupRejects(r, group) ==                   \* mutant: Promise.all
    \/ \A u \in group : uploads[r][u] # "pending"
    \/ \E u \in group : uploads[r][u] = "rejected"
LastFailed(r, group) ==                     \* mutant: all of them failed
    \A u \in group : uploads[r][u] = "rejected"
GroupResolved(r, group) ==                  \* mutant: waits for successes
    \A u \in group : uploads[r][u] = "resolved"
GroupDone(r, group) == \A u \in group : uploads[r][u] # "pending"
GroupFailed(r, group) == \E u \in group : uploads[r][u] = "rejected"

Extracted(r) ==
    /\ pc[r] = "extract"
    /\ GroupDone(r, found[r]) /\ GroupDone(r, Thumbnails)

ExtractFails(r) ==
    /\ Extracted(r)
    /\ GroupFailed(r, found[r]) \/ GroupFailed(r, Thumbnails)
    /\ Throw(r)
    /\ UNCHANGED <<files, found, uploads, objects, faults>>

(* The candidate may still violate videoMetadataSchema.                     *)
ReturnMetadata(r) ==
    /\ Extracted(r)
    /\ ~GroupFailed(r, found[r]) /\ ~GroupFailed(r, Thumbnails)
    /\ \/ Throw(r)
       \/ /\ pc' = [pc EXCEPT ![r] = "cleanUp"]
          /\ outcome' = [outcome EXCEPT ![r] = "completed"]
    /\ UNCHANGED <<files, found, uploads, objects, faults>>

(* cleanUp swallows a failing unlink.                                       *)
CleanUp(r) ==
    /\ pc[r] = "cleanUp"
    /\ \/ Put(LocalPath(r), "absent") /\ UNCHANGED faults
       \/ files[LocalPath(r)] # "absent" /\ Fault /\ UNCHANGED files
    /\ pc' = [pc EXCEPT ![r] = "over"]
    /\ UNCHANGED <<found, uploads, outcome, objects>>

(* The process dies with all its runs; the file system stays.               *)
Crash ==
    /\ \E r \in Runs : Active(r)
    /\ Fault
    /\ pc' = [r \in Runs |-> IF Active(r) THEN "over" ELSE pc[r]]
    /\ outcome' = [r \in Runs |-> IF Active(r) THEN "failed" ELSE outcome[r]]
    /\ uploads' = [r \in Runs |-> [u \in Uploads |->
         IF uploads[r][u] = "pending" THEN "rejected" ELSE uploads[r][u]]]
    /\ UNCHANGED <<files, found, objects>>

-----------------------------------------------------------------------------
Download(r) == Downloaded(r) \/ DownloadFails(r)
Probe(r) == \/ \E streams \in SUBSET (Tracks \cup {Video}) : Probed(r, streams)
            \/ ProbeFails(r)
Return(r) == ExtractFails(r) \/ ReturnMetadata(r)
Step(r) == Download(r) \/ Probe(r) \/ Return(r) \/ CleanUp(r)

Next == \/ \E r \in Runs : Start(r) \/ Step(r)
        \/ \E r \in Runs, u \in Uploads : UploadSettles(r, u)
        \/ Crash

Spec == Init /\ [][Next]_vars

(* The event loop goes on, and every upload settles (UploadContract).       *)
FairSpec == /\ Spec
            /\ \A r \in Runs : WF_vars(Step(r))
            /\ \A r \in Runs, u \in Uploads : WF_vars(UploadSettles(r, u))

-----------------------------------------------------------------------------
(* Every variable stays in its type.                                        *)
TypeOK ==
    /\ pc \in [Runs -> {"idle", "download", "probe", "extract", "cleanUp",
                        "over"}]
    /\ files \in [Paths -> {"absent", "partial", "complete"}]
    /\ found \in [Runs -> SUBSET Tracks]
    /\ uploads \in [Runs -> [Uploads -> {"none", "pending", "resolved",
                                         "rejected"}]]
    /\ outcome \in [Runs -> {"none", "completed", "failed"}]
    /\ objects \subseteq Uploads
    /\ faults \in 0..MaxFaults

(* Whoever reads the file, ffprobe or the ffmpeg of any upload, finds it    *)
(* there and whole: neither an upload that failed early nor the other run   *)
(* of a stalled job takes it away.                                          *)
ReadersHaveFile ==
    \A r \in Runs :
      (pc[r] = "probe" \/ \E u \in Uploads : uploads[r][u] = "pending")
        => files[LocalPath(r)] = "complete"

(* A returned result names only objects that are stored: every track the    *)
(* probe found and every thumbnail.                                         *)
ResultIsUploaded ==
    \A r \in Runs :
      outcome[r] = "completed" => found[r] \cup Thumbnails \subseteq objects

(* A file outlives its run only through a crash or a failed unlink: every   *)
(* other way out of the run, throws included, has removed it.               *)
LeftoversAreFaults ==
    (\E r \in Runs : pc[r] = "over" /\ files[LocalPath(r)] # "absent")
      => faults > 0

(* Every run ends, and gives its concurrency slot back.                     *)
RunEnds == \A r \in Runs : (pc[r] = "download") ~> (pc[r] = "over")
===============================================================================
