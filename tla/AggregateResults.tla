-------------------------- MODULE AggregateResults --------------------------
(***************************************************************************)
(* How the orchestrator turns what its child jobs returned into one        *)
(* pipeline result (processing-service, lib/aggregate-processing-results), *)
(* the contract that result obeys (packages/contracts), and the view the   *)
(* HTTP API derives from a stored result (build-video-result).             *)
(*                                                                         *)
(* The text of an error is abstracted to whether it is blank and to the    *)
(* check that produced it; a list of failures is the set of its members.   *)
(***************************************************************************)
EXTENDS Integers, FiniteSets

CONSTANTS Videos,    \* video ids
          Heights    \* RENDITION_HEIGHTS

ASSUME HeightsAssumption == IsFiniteSet(Heights) /\ Heights # {}

-----------------------------------------------------------------------------
(* Child results: processingChildResultSchema accepts a metadata result or  *)
(* a transcode result of a known height; anything else is "invalid".        *)

MetadataValue(v) == [kind |-> "metadata", video |-> v]
TranscodeValue(v, h) == [kind |-> "transcode", video |-> v, resolution |-> h]
InvalidValue == [kind |-> "invalid"]

MetadataValues == [kind : {"metadata"}, video : Videos]
TranscodeValues ==
    [kind : {"transcode"}, video : Videos, resolution : Heights]
ChildValues == MetadataValues \cup TranscodeValues \cup {InvalidValue}

(* Keys a failure may name besides the keys of the child jobs.              *)
OrchestratorKey == [kind |-> "orchestrator"]
RenditionKey(h) == [kind |-> "transcode", resolution |-> h]

Failure(key, error) == [childKey |-> key, error |-> error]

(* error.trim() || 'Child failed without an error message'                  *)
UntrimmedError(error) == error   \* mutant: no fallback for a blank error
TrimmedError(error) == IF error = "blank" THEN "no message" ELSE error

-----------------------------------------------------------------------------
FailedResult(v, failures) ==
    [status |-> "failed", videoId |-> v, failures |-> failures]

CompletedResult(v, metadata, renditions) ==
    [status |-> "completed", videoId |-> v,
     metadata |-> metadata, renditions |-> renditions]

(***************************************************************************)
(* The checks of aggregateProcessingResults in the order the code makes    *)
(* them.  Each is the set of failures it reports; the first one that       *)
(* reports anything is the verdict.                                        *)
(***************************************************************************)
ChildFailures(failed) ==
    {Failure(k, TrimmedError(failed[k])) : k \in DOMAIN failed}

InvalidKeys(values) == {k \in DOMAIN values : values[k] = InvalidValue}
ParsedKeys(values) == DOMAIN values \ InvalidKeys(values)
KeysOfKind(values, kind) ==
    {k \in ParsedKeys(values) : values[k].kind = kind}
KeysOfHeight(values, h) ==
    {k \in KeysOfKind(values, "transcode") : values[k].resolution = h}

InvalidChildren(values) ==
    {Failure(k, "invalid child result") : k \in InvalidKeys(values)}

(* mutant: results of another video go unnoticed                            *)
MismatchesIgnored(v, values) == {}
MismatchedResults(v, values) ==
    {Failure(OrchestratorKey, "result for another video") :
        k \in {q \in ParsedKeys(values) : values[q].video # v}}

MetadataCount(values) ==
    {Failure(OrchestratorKey, "expected one metadata result") :
        n \in {Cardinality(KeysOfKind(values, "metadata"))} \ {1}}

(* mutant: one bad height blames all of them                                *)
EveryRendition(values) ==
    {Failure(RenditionKey(h), "expected one result of this height") :
        h \in {g \in Heights :
               \E q \in Heights : Cardinality(KeysOfHeight(values, q)) # 1}}

InvalidRenditions(values) ==
    {Failure(RenditionKey(h), "expected one result of this height") :
        h \in {g \in Heights : Cardinality(KeysOfHeight(values, g)) # 1}}

RenditionCount(values) ==
    {Failure(OrchestratorKey, "unexpected number of renditions") :
        n \in {Cardinality(KeysOfKind(values, "transcode"))}
                 \ {Cardinality(Heights)}}

Checks(v, values, failed) ==
    << ChildFailures(failed), InvalidChildren(values),
       MismatchedResults(v, values), MetadataCount(values),
       InvalidRenditions(values), RenditionCount(values) >>

(* The value each selected key holds: results.find(...)                     *)
TheValue(values, keys) == values[CHOOSE k \in keys : TRUE]

(* mutant: any transcode result stands for every height                     *)
AnyRendition(values) ==
    [h \in Heights |-> TheValue(values, KeysOfKind(values, "transcode"))]
Renditions(values) ==
    [h \in Heights |-> TheValue(values, KeysOfHeight(values, h))]

AggregateProcessingResults(v, values, failed) ==
    LET checks == Checks(v, values, failed)
        failing == {n \in 1..6 : checks[n] # {}}
    IN  IF failing = {}
        THEN CompletedResult(v,
               TheValue(values, KeysOfKind(values, "metadata")),
               Renditions(values))
        ELSE FailedResult(v,
               checks[CHOOSE n \in failing : \A m \in failing : n <= m])

-----------------------------------------------------------------------------
(* processingPipelineResultSchema: what a published event and a stored      *)
(* result must parse as.                                                    *)
IsPipelineResult(r) ==
    \/ /\ r.status = "completed"
       /\ r.metadata \in MetadataValues
       /\ DOMAIN r.renditions = Heights
       /\ \A h \in Heights : r.renditions[h] \in TranscodeValues
    \/ /\ r.status = "failed"
       /\ r.failures # {}
       /\ \A f \in r.failures : f.error # "blank"

(***************************************************************************)
(* buildVideoResult: the view of a row of the processing table.  `result'  *)
(* is a stored result or, when the row has none, a record of another       *)
(* status.                                                                 *)
(***************************************************************************)
NoResult == [status |-> "none"]

VideoResult(status, result) ==
    LET completed == result.status = "completed" /\ IsPipelineResult(result)
        rendered == IF completed THEN {g \in Heights :
                           \E h \in Heights : result.renditions[h].resolution = g}
                                 ELSE {}
    IN  [ready |-> status = "completed" /\ completed,
         renditions |-> [h \in Heights |->
             IF h \in rendered THEN "completed" ELSE "pending"]]
=============================================================================
