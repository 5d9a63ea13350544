--------------------------- MODULE AggregateCases ---------------------------
(***************************************************************************)
(* Every bounded input of AggregateResults, aggregated once: the children  *)
(* report, some of them fail, and the orchestrator aggregates.  More keys  *)
(* than the flow has jobs, values of another video and values no schema    *)
(* accepts are all enumerated, because aggregateProcessingResults takes    *)
(* whatever the queue hands it.                                            *)
(***************************************************************************)
EXTENDS AggregateResults, Functions

CONSTANTS Keys,       \* keys the queue may report children under
          Video,      \* the video being aggregated
          MaxFailed   \* bound: children reported as failed at once

ASSUME VideoAssumption == Video \in Videos

PROCESSING_STATUSES == {"pending", "in_progress", "completed", "failed"}

VARIABLES
  childrenValues,  \* getChildrenValues: what the completed children returned
  failedChildren,  \* getIgnoredChildrenFailures: the errors of the others
  pipelineResult   \* what getPipelineResult returns
casesVars == <<childrenValues, failedChildren, pipelineResult>>

Empty == [k \in {} |-> InvalidValue]

CasesInit == /\ childrenValues = Empty /\ failedChildren = Empty
             /\ pipelineResult = NoResult

Extend(f, k, x) == [q \in DOMAIN f \cup {k} |-> IF q = k THEN x ELSE f[q]]

(* getChildrenValues and getIgnoredChildrenFailures come to hold one more    *)
(* entry.                                                                    *)
ChildReports(k, value) ==
    /\ pipelineResult = NoResult
    /\ k \notin DOMAIN childrenValues
    /\ childrenValues' = Extend(childrenValues, k, value)
    /\ UNCHANGED <<failedChildren, pipelineResult>>

FailureReported(k, error) ==
    /\ pipelineResult = NoResult
    /\ k \notin DOMAIN failedChildren
    /\ Cardinality(DOMAIN failedChildren) < MaxFailed
    /\ failedChildren' = Extend(failedChildren, k, error)
    /\ UNCHANGED <<childrenValues, pipelineResult>>

Aggregate == /\ pipelineResult = NoResult
             /\ pipelineResult' = AggregateProcessingResults(
                                     Video, childrenValues, failedChildren)
             /\ UNCHANGED <<childrenValues, failedChildren>>

CasesNext ==
    \/ \E k \in Keys, value \in ChildValues : ChildReports(k, value)
    \/ \E k \in Keys, error \in {"blank", "text"} : FailureReported(k, error)
    \/ Aggregate
CasesSpec == CasesInit /\ [][CasesNext]_casesVars

-----------------------------------------------------------------------------
Aggregated == pipelineResult # NoResult

(* The reference definition, without counting: the children's values are    *)
(* exactly the metadata of this video and one rendition of each height, each *)
(* reported once.                                                           *)
ExpectedValues ==
    {MetadataValue(Video)} \cup {TranscodeValue(Video, h) : h \in Heights}

ExactCover == /\ DOMAIN failedChildren = {}
              /\ Range(childrenValues) = ExpectedValues
              /\ \A k, q \in DOMAIN childrenValues :
                    childrenValues[k] = childrenValues[q] => k = q

(* A video is reported completed exactly when every child delivered its one  *)
(* result and none failed: the ordered counting checks of                    *)
(* aggregateProcessingResults neither accept a surplus, missing, foreign or  *)
(* invalid child nor reject a complete set.                                  *)
CompletedIffExactCover ==
    Aggregated => (pipelineResult.status = "completed" <=> ExactCover)

(* Whatever the queue hands it, the aggregate parses as the pipeline result  *)
(* schema, so finishProcessing can re-read it and publish can send it: no    *)
(* empty list of failures, no blank error, one rendition per height.         *)
ResultSatisfiesContract == Aggregated => IsPipelineResult(pipelineResult)

(* From what the children delivered to what the API shows, whatever status   *)
(* the row carries: the video is ready exactly when its row is completed and *)
(* the children cover it, and a rendition is listed under its height only    *)
(* together with all the others, never for an incomplete set.                *)
ReadyIffEveryRendition ==
    Aggregated =>
      \A status \in PROCESSING_STATUSES :
        LET view == VideoResult(status, pipelineResult)
        IN  /\ view.ready <=> status = "completed" /\ ExactCover
            /\ \A h \in Heights :
                  view.renditions[h] = "completed" <=> ExactCover

(* A failure blames a child that exists or a rendition that is expected, and *)
(* a child that delivered a value of its own video, alone of its kind, is    *)
(* never blamed by its key.                                                  *)
BlameIsJustified ==
    Aggregated /\ pipelineResult.status = "failed" =>
      \A f \in pipelineResult.failures :
        \/ f.childKey = OrchestratorKey
        \/ \E h \in Heights :
             /\ f.childKey = RenditionKey(h)
             /\ ~ \E k \in DOMAIN childrenValues :
                    /\ childrenValues[k] = TranscodeValue(Video, h)
                    /\ \A q \in DOMAIN childrenValues :
                          childrenValues[q] = TranscodeValue(Video, h) => q = k
        \/ f.childKey \in DOMAIN failedChildren
        \/ /\ f.childKey \in DOMAIN childrenValues
           /\ childrenValues[f.childKey] = InvalidValue
=============================================================================
