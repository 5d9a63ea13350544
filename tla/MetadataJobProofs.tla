-------------------------- MODULE MetadataJobProofs ---------------------------
(***************************************************************************)
(* Proofs about MetadataJob, for any runs, tracks and thumbnails.          *)
(***************************************************************************)
EXTENDS MetadataJob, TLAPS

(* Uploads are pending only while their run extracts, and none has begun    *)
(* before.                                                                  *)
UploadInv ==
    \A r \in Runs, u \in Uploads :
      /\ uploads[r][u] = "pending" => pc[r] = "extract"
      /\ uploads[r][u] # "none" => u \in found[r] \cup Thumbnails
      /\ pc[r] = "extract" /\ u \in found[r] \cup Thumbnails =>
           uploads[r][u] # "none"
      /\ uploads[r][u] = "resolved" => u \in objects

(* From its download to its clean-up a run has its file whole.              *)
FileInv ==
    \A r \in Runs : pc[r] \in {"probe", "extract"} => files[r] = "complete"

ResultInv ==
    \A r \in Runs :
      /\ outcome[r] = "completed" => pc[r] \in {"cleanUp", "over"}
      /\ outcome[r] = "completed" => found[r] \cup Thumbnails \subseteq objects

LeftInv ==
    \A r \in Runs : pc[r] = "over" /\ files[r] # "absent" => faults > 0

IInv == TypeOK /\ UploadInv /\ FileInv /\ ResultInv /\ LeftInv

(* Every run has a path of its own.                                         *)
LEMMA PathsAreRuns == Paths = Runs /\ \A r \in Runs : LocalPath(r) = r
  BY DEF Paths, LocalPath

LEMMA InitHolds == Init => IInv
  BY PathsAreRuns, JobAssumption
  DEF Init, IInv, TypeOK, UploadInv, FileInv, ResultInv, LeftInv

LEMMA StutterKeeps == IInv /\ UNCHANGED vars => IInv'
  BY DEF vars, IInv, TypeOK, UploadInv, FileInv, ResultInv, LeftInv, Paths

-----------------------------------------------------------------------------
(* Each step keeps the types.                                               *)
LEMMA StepTypes ==
  ASSUME TypeOK, NEW r \in Runs, Start(r) \/ Step(r)
  PROVE  TypeOK'
<1> USE PathsAreRuns
<1>1. CASE Start(r)
  BY <1>1 DEF Start, Put, TypeOK
<1>2. CASE Downloaded(r)
  BY <1>2 DEF Downloaded, Put, TypeOK
<1>3. CASE DownloadFails(r)
  BY <1>3 DEF DownloadFails, Throw, TypeOK
<1>4. CASE ProbeFails(r)
  BY <1>4 DEF ProbeFails, Throw, TypeOK
<1>5. ASSUME NEW streams \in SUBSET (Tracks \cup {Video}), Probed(r, streams)
      PROVE  TypeOK'
  <2>1. ExtractAudioTracks(streams) \in SUBSET Tracks
    BY DEF ExtractAudioTracks
  <2>2. found' \in [Runs -> SUBSET Tracks]
    BY <1>5, <2>1 DEF Probed, TypeOK
  <2>3. uploads' \in [Runs -> [Uploads -> {"none", "pending", "resolved",
                                           "rejected"}]]
    BY <1>5 DEF Probed, TypeOK
  <2> QED BY <1>5, <2>2, <2>3 DEF Probed, TypeOK
<1>6. CASE ExtractFails(r)
  BY <1>6 DEF ExtractFails, Throw, TypeOK
<1>7. CASE ReturnMetadata(r)
  BY <1>7 DEF ReturnMetadata, Throw, TypeOK
<1>8. CASE CleanUp(r)
  BY <1>8, JobAssumption DEF CleanUp, Fault, Put, TypeOK
<1> QED BY <1>1, <1>2, <1>3, <1>4, <1>5, <1>6, <1>7, <1>8
        DEF Step, Download, Probe, Return

LEMMA OtherTypes ==
  ASSUME TypeOK, Crash \/ \E r \in Runs, u \in Uploads : UploadSettles(r, u)
  PROVE  TypeOK'
<1>1. CASE Crash
  BY <1>1, JobAssumption DEF Crash, Fault, Active, TypeOK
<1>2. ASSUME NEW r \in Runs, NEW u \in Uploads, UploadSettles(r, u)
      PROVE  TypeOK'
  BY <1>2 DEF UploadSettles, TypeOK
<1> QED BY <1>1, <1>2

-----------------------------------------------------------------------------
(* waitForAll of both groups: no upload of the run is left.                 *)
LEMMA NonePending ==
  ASSUME IInv, NEW r \in Runs, Extracted(r)
  PROVE  \A u \in Uploads : uploads[r][u] # "pending"
  BY DEF Extracted, GroupDone, IInv, UploadInv

(* ... and when none of them failed, all are stored.                        *)
LEMMA AllStored ==
  ASSUME IInv, NEW r \in Runs, Extracted(r),
         ~GroupFailed(r, found[r]), ~GroupFailed(r, Thumbnails)
  PROVE  found[r] \cup Thumbnails \subseteq objects
<1>1. SUFFICES ASSUME NEW u \in found[r] \cup Thumbnails
               PROVE  u \in objects
  OBVIOUS
<1>2. u \in Uploads
  BY DEF IInv, TypeOK, Uploads
<1>3. uploads[r][u] \notin {"none", "pending", "rejected"}
  BY <1>2, NonePending DEF GroupFailed, Extracted, IInv, UploadInv
<1>4. uploads[r][u] \in {"none", "pending", "resolved", "rejected"}
  BY <1>2 DEF IInv, TypeOK
<1> QED BY <1>2, <1>3, <1>4 DEF IInv, UploadInv

(* The steps of one run keep the invariant.                                 *)
LEMMA StepKeeps ==
  ASSUME IInv, NEW r \in Runs, Start(r) \/ Step(r)
  PROVE  IInv'
<1> USE PathsAreRuns
<1>0. TypeOK' /\ TypeOK
  BY StepTypes DEF IInv
<1>1. CASE Start(r)
  BY <1>0, <1>1 DEF Start, Put, IInv, TypeOK, UploadInv, FileInv, ResultInv,
                    LeftInv
<1>2. CASE Downloaded(r)
  BY <1>0, <1>2 DEF Downloaded, Put, IInv, TypeOK, UploadInv, FileInv,
                    ResultInv, LeftInv
<1>3. CASE DownloadFails(r)
  BY <1>0, <1>3 DEF DownloadFails, Throw, IInv, TypeOK, UploadInv, FileInv,
                    ResultInv, LeftInv
<1>4. CASE ProbeFails(r)
  BY <1>0, <1>4 DEF ProbeFails, Throw, IInv, TypeOK, UploadInv, FileInv,
                    ResultInv, LeftInv
<1>5. ASSUME NEW streams \in SUBSET (Tracks \cup {Video}), Probed(r, streams)
      PROVE  IInv'
  <2>1. UploadInv'
    <3>1. ASSUME NEW q \in Runs, NEW u \in Uploads, q # r
          PROVE  uploads'[q][u] = uploads[q][u] /\ pc'[q] = pc[q]
                 /\ found'[q] = found[q]
      BY <1>0, <1>5, <3>1 DEF Probed, TypeOK
    <3>2. ASSUME NEW u \in Uploads
          PROVE  /\ uploads'[r][u] = IF u \in found'[r] \cup Thumbnails
                                     THEN "pending" ELSE "none"
                 /\ pc'[r] = "extract"
      BY <1>0, <1>5 DEF Probed, TypeOK
    <3> QED BY <1>5, <3>1, <3>2 DEF Probed, IInv, UploadInv
  <2>2. FileInv' /\ LeftInv'
    BY <1>0, <1>5 DEF Probed, IInv, TypeOK, FileInv, LeftInv
  <2>3. ResultInv'
    BY <1>0, <1>5 DEF Probed, IInv, TypeOK, ResultInv
  <2> QED BY <1>0, <2>1, <2>2, <2>3 DEF IInv
<1>6. CASE ExtractFails(r)
  <2>1. UploadInv'
    BY <1>0, <1>6, NonePending DEF ExtractFails, Throw, IInv, TypeOK, UploadInv
  <2>2. FileInv' /\ ResultInv' /\ LeftInv'
    BY <1>0, <1>6 DEF ExtractFails, Throw, IInv, TypeOK, FileInv, ResultInv,
                      LeftInv
  <2> QED BY <1>0, <2>1, <2>2 DEF IInv
<1>7. CASE ReturnMetadata(r)
  <2>1. UploadInv'
    BY <1>0, <1>7, NonePending
    DEF ReturnMetadata, Throw, IInv, TypeOK, UploadInv
  <2>2. FileInv' /\ LeftInv'
    BY <1>0, <1>7 DEF ReturnMetadata, Throw, IInv, TypeOK, FileInv, LeftInv
  <2>3. found[r] \cup Thumbnails \subseteq objects
    BY <1>7, AllStored DEF ReturnMetadata
  <2>4. ResultInv'
    BY <1>0, <1>7, <2>3 DEF ReturnMetadata, Throw, IInv, TypeOK, ResultInv
  <2> QED BY <1>0, <2>1, <2>2, <2>4 DEF IInv
<1>8. CASE CleanUp(r)
  BY <1>0, <1>8 DEF CleanUp, Fault, Put, IInv, TypeOK, UploadInv, FileInv,
                    ResultInv, LeftInv
<1> QED BY <1>1, <1>2, <1>3, <1>4, <1>5, <1>6, <1>7, <1>8
        DEF Step, Download, Probe, Return

LEMMA UploadKeeps ==
  ASSUME IInv, NEW r \in Runs, NEW u \in Uploads, UploadSettles(r, u)
  PROVE  IInv'
<1>1. TypeOK' /\ TypeOK
  BY OtherTypes DEF IInv
<1>2. UploadInv'
  BY <1>1 DEF UploadSettles, IInv, TypeOK, UploadInv
<1>3. FileInv' /\ LeftInv'
  BY DEF UploadSettles, IInv, FileInv, LeftInv
<1>4. ResultInv'
  BY DEF UploadSettles, IInv, ResultInv
<1> QED BY <1>1, <1>2, <1>3, <1>4 DEF IInv

LEMMA CrashKeeps == IInv /\ Crash => IInv'
<1> SUFFICES ASSUME IInv, Crash PROVE IInv'
  OBVIOUS
<1>1. TypeOK' /\ TypeOK
  BY OtherTypes DEF IInv
<1>2. UploadInv'
  BY <1>1 DEF Crash, Active, IInv, TypeOK, UploadInv
<1>3. FileInv' /\ ResultInv'
  BY <1>1 DEF Crash, Active, IInv, TypeOK, FileInv, ResultInv
<1>4. LeftInv'
  BY <1>1, JobAssumption DEF Crash, Fault, IInv, TypeOK, LeftInv
<1> QED BY <1>1, <1>2, <1>3, <1>4 DEF IInv

(* The invariant holds.                                                     *)
LEMMA Invariance == Spec => []IInv
<1>1. IInv /\ [Next]_vars => IInv'
  BY StepKeeps, UploadKeeps, CrashKeeps, StutterKeeps DEF Next
<1> QED BY InitHolds, <1>1, PTL DEF Spec

(* Types, for any number of runs, tracks and faults.                        *)
THEOREM TypeCorrect == Spec => []TypeOK
<1>1. IInv => TypeOK
  BY DEF IInv
<1> QED BY Invariance, <1>1, PTL

(* job.ts: cleanUp() runs only when nobody reads the temporary file.        *)
THEOREM FileOutlivesReaders == Spec => []ReadersHaveFile
<1>1. IInv => ReadersHaveFile
  BY PathsAreRuns DEF IInv, UploadInv, FileInv, ReadersHaveFile
<1> QED BY Invariance, <1>1, PTL

(* job.ts: the returned metadata names only objects that are stored.        *)
THEOREM ResultsAreStored == Spec => []ResultIsUploaded
<1>1. IInv => ResultIsUploaded
  BY DEF IInv, ResultInv, ResultIsUploaded
<1> QED BY Invariance, <1>1, PTL

(* job.ts: the finally block removes the file on every way out.             *)
THEOREM OnlyFaultsLeaveFiles == Spec => []LeftoversAreFaults
<1>1. IInv => LeftoversAreFaults
  BY PathsAreRuns DEF IInv, LeftInv, LeftoversAreFaults
<1> QED BY Invariance, <1>1, PTL
===============================================================================
