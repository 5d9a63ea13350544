------------------------ MODULE AggregateCasesProofs ------------------------
(***************************************************************************)
(* What aggregateProcessingResults returns, for any set of heights and     *)
(* whatever the queue reports; then the verdict, its schema, its view and  *)
(* whom it blames, for any keys, videos and heights of AggregateCases.     *)
(***************************************************************************)
EXTENDS AggregateCases, FiniteSetTheorems, TLAPS

(* A child that failed decides alone: the verdict names the failed children, *)
(* whatever the others returned.                                            *)
THEOREM ChildFailureDecides ==
    ASSUME NEW v, NEW values, NEW failed, DOMAIN failed # {}
    PROVE  AggregateProcessingResults(v, values, failed)
             = FailedResult(v, ChildFailures(failed))
<1> DEFINE checks == Checks(v, values, failed)
           failing == {n \in 1..6 : checks[n] # {}}
           first == CHOOSE n \in failing : \A m \in failing : n <= m
<1>1. checks[1] = ChildFailures(failed)
  BY DEF Checks
<1>2. ChildFailures(failed) # {}
  BY DEF ChildFailures
<1>3. 1 \in failing /\ failing \subseteq 1..6
  BY <1>1, <1>2
<1>4. first = 1
  <2>1. \A m \in failing : 1 <= m
    BY <1>3
  <2>2. first \in failing /\ \A m \in failing : first <= m
    BY <1>3, <2>1
  <2>3. first <= 1 /\ first \in 1..6
    BY <1>3, <2>2
  <2>4. QED
    BY <2>3
<1>5. QED
  BY <1>1, <1>3, <1>4 DEF AggregateProcessingResults

(* The verdict is completed exactly when no check reports anything, and     *)
(* otherwise the first check that does.                                     *)
LEMMA CompletedIffNoCheckFails ==
    ASSUME NEW v, NEW values, NEW failed
    PROVE  LET clear == \A n \in 1..6 : Checks(v, values, failed)[n] = {}
               result == AggregateProcessingResults(v, values, failed)
           IN  /\ result.status = "completed" <=> clear
               /\ clear => result = CompletedResult(v,
                             TheValue(values, KeysOfKind(values, "metadata")),
                             Renditions(values))
               /\ ~clear => \E n \in 1..6 :
                              /\ Checks(v, values, failed)[n] # {}
                              /\ \A m \in 1..6 : m < n =>
                                      Checks(v, values, failed)[m] = {}
                              /\ result = FailedResult(v,
                                            Checks(v, values, failed)[n])
<1> DEFINE checks == Checks(v, values, failed)
           failing == {n \in 1..6 : checks[n] # {}}
           first == CHOOSE n \in failing : \A m \in failing : n <= m
           result == AggregateProcessingResults(v, values, failed)
<1>1. CASE failing = {}
  BY <1>1 DEF AggregateProcessingResults, CompletedResult
<1>2. CASE failing # {}
  <2>1. \E n \in failing : \A m \in failing : n <= m
    <3>1. failing \subseteq 1..6
      OBVIOUS
    <3> HIDE DEF failing
    <3>2. PICK a \in failing : TRUE
      BY <1>2
    <3>3. QED
      BY <3>1, <3>2
  <2>2. first \in failing /\ \A m \in failing : first <= m
    BY <2>1
  <2>5. \A m \in 1..6 : m < first => checks[m] = {}
    <3>1. \A m \in 1..6 : m \notin failing => checks[m] = {}
      OBVIOUS
    <3>2. first \in 1..6
      BY <2>2
    <3> HIDE DEF failing, first
    <3>3. QED
      BY <2>2, <3>1, <3>2
  <2>3. result = FailedResult(v, checks[first])
    BY <1>2 DEF AggregateProcessingResults
  <2>4. QED
    BY <2>2, <2>3, <2>5 DEF FailedResult
<1>3. QED
  BY <1>1, <1>2

-----------------------------------------------------------------------------
(* Each child of v delivered its one result.                                *)
Covers(v, values) ==
    /\ {values[k] : k \in DOMAIN values}
         = {MetadataValue(v)} \cup {TranscodeValue(v, h) : h \in Heights}
    /\ \A k, q \in DOMAIN values : values[k] = values[q] => k = q

(* The three kinds of child results are told apart by `kind'.               *)
LEMMA KindOfValue ==
    ASSUME NEW x \in ChildValues
    PROVE  /\ x = InvalidValue <=> x.kind = "invalid"
           /\ x \in MetadataValues <=> x.kind = "metadata"
           /\ x \in TranscodeValues <=> x.kind = "transcode"
  BY DEF ChildValues, MetadataValues, TranscodeValues, InvalidValue

(* When nothing is invalid or of another video, the counts of one kind or    *)
(* one height are those of the values themselves.                           *)
LEMMA ChecksEmpty ==
    ASSUME NEW v, NEW values, NEW failed, IsFiniteSet(DOMAIN values)
    PROVE  (\A n \in 1..6 : Checks(v, values, failed)[n] = {}) <=>
             /\ DOMAIN failed = {}
             /\ InvalidKeys(values) = {}
             /\ \A k \in ParsedKeys(values) : values[k].video = v
             /\ \E k : KeysOfKind(values, "metadata") = {k}
             /\ \A h \in Heights : \E k : KeysOfHeight(values, h) = {k}
             /\ Cardinality(KeysOfKind(values, "transcode"))
                  = Cardinality(Heights)
<1> DEFINE checks == Checks(v, values, failed)
<1>1. /\ KeysOfKind(values, "metadata") \in SUBSET DOMAIN values
      /\ \A h \in Heights : KeysOfHeight(values, h) \in SUBSET DOMAIN values
  BY DEF KeysOfKind, KeysOfHeight, ParsedKeys
<1>2. ChildFailures(failed) = {} <=> DOMAIN failed = {}
  BY DEF ChildFailures
<1>3. InvalidChildren(values) = {} <=> InvalidKeys(values) = {}
  BY DEF InvalidChildren
<1>4. MismatchedResults(v, values) = {}
        <=> \A k \in ParsedKeys(values) : values[k].video = v
  BY DEF MismatchedResults
<1>5. MetadataCount(values) = {}
        <=> \E k : KeysOfKind(values, "metadata") = {k}
  <2>1. MetadataCount(values) = {}
          <=> Cardinality(KeysOfKind(values, "metadata")) = 1
    BY DEF MetadataCount
  <2>2. IsFiniteSet(KeysOfKind(values, "metadata"))
    BY <1>1, FS_Subset
  <2>3. QED
    BY <2>1, <2>2, FS_Singleton
<1>6. InvalidRenditions(values) = {}
        <=> \A h \in Heights : \E k : KeysOfHeight(values, h) = {k}
  <2>1. InvalidRenditions(values) = {}
          <=> \A h \in Heights : Cardinality(KeysOfHeight(values, h)) = 1
    BY DEF InvalidRenditions
  <2>2. \A h \in Heights : IsFiniteSet(KeysOfHeight(values, h))
    BY <1>1, FS_Subset
  <2>3. \A h \in Heights : Cardinality(KeysOfHeight(values, h)) = 1
                             <=> \E k : KeysOfHeight(values, h) = {k}
    BY <2>2, FS_Singleton
  <2>4. QED
    BY <2>1, <2>3
<1>7. RenditionCount(values) = {}
        <=> Cardinality(KeysOfKind(values, "transcode")) = Cardinality(Heights)
  BY DEF RenditionCount
<1>8. (\A n \in 1..6 : checks[n] = {}) <=>
         /\ ChildFailures(failed) = {} /\ InvalidChildren(values) = {}
         /\ MismatchedResults(v, values) = {} /\ MetadataCount(values) = {}
         /\ InvalidRenditions(values) = {} /\ RenditionCount(values) = {}
  <2>1. /\ checks[1] = ChildFailures(failed)
        /\ checks[2] = InvalidChildren(values)
        /\ checks[3] = MismatchedResults(v, values)
        /\ checks[4] = MetadataCount(values)
        /\ checks[5] = InvalidRenditions(values)
        /\ checks[6] = RenditionCount(values)
    BY DEF Checks
  <2>2. \A n : n \in 1..6 <=> n \in {1, 2, 3, 4, 5, 6}
    OBVIOUS
  <2> HIDE DEF checks
  <2>3. QED
    BY <2>1, <2>2
<1>9. QED
  BY <1>2, <1>3, <1>4, <1>5, <1>6, <1>7, <1>8

(* Values that cover the children pass every check, ...                     *)
LEMMA CoverPasses ==
    ASSUME NEW v, NEW values, Covers(v, values), IsFiniteSet(DOMAIN values)
    PROVE  /\ InvalidKeys(values) = {}
           /\ \A k \in ParsedKeys(values) : values[k].video = v
           /\ \E k \in DOMAIN values :
                /\ KeysOfKind(values, "metadata") = {k}
                /\ values[k] = MetadataValue(v)
           /\ \A h \in Heights : \E k \in DOMAIN values :
                /\ KeysOfHeight(values, h) = {k}
                /\ values[k] = TranscodeValue(v, h)
           /\ Cardinality(KeysOfKind(values, "transcode"))
                = Cardinality(Heights)
<1>1. \A k \in DOMAIN values :
        \/ values[k] = MetadataValue(v)
        \/ \E h \in Heights : values[k] = TranscodeValue(v, h)
  BY DEF Covers
<1>2. PICK m \in DOMAIN values : values[m] = MetadataValue(v)
  BY DEF Covers
<1>3. \A h \in Heights : \E k \in DOMAIN values :
         values[k] = TranscodeValue(v, h)
  BY DEF Covers
<1>4. \A k, q \in DOMAIN values : values[k] = values[q] => k = q
  BY DEF Covers
<1>5. InvalidKeys(values) = {}
  BY <1>1 DEF InvalidKeys, InvalidValue, MetadataValue, TranscodeValue
<1>6. ParsedKeys(values) = DOMAIN values
  BY <1>5 DEF ParsedKeys
<1>7. \A k \in ParsedKeys(values) : values[k].video = v
  BY <1>1, <1>6 DEF MetadataValue, TranscodeValue
<1>8. KeysOfKind(values, "metadata") = {m}
  BY <1>1, <1>2, <1>4, <1>6 DEF KeysOfKind, MetadataValue, TranscodeValue
<1>9. \A h \in Heights : \E k \in DOMAIN values :
         KeysOfHeight(values, h) = {k} /\ values[k] = TranscodeValue(v, h)
  BY <1>1, <1>3, <1>4, <1>6
  DEF KeysOfKind, KeysOfHeight, MetadataValue, TranscodeValue
<1>10. Cardinality(KeysOfKind(values, "transcode")) = Cardinality(Heights)
  <2> DEFINE T == KeysOfKind(values, "transcode")
             f == [k \in T |-> values[k].resolution]
  <2>1. \A k \in T : \E h \in Heights : values[k] = TranscodeValue(v, h)
    BY <1>1, <1>6 DEF KeysOfKind, MetadataValue
  <2>2. T \in SUBSET DOMAIN values
    BY <1>6 DEF KeysOfKind
  <2>3. \A k \in T : /\ values[k].resolution \in Heights
                     /\ values[k] = TranscodeValue(v, values[k].resolution)
    <3> TAKE k \in T
    <3>1. PICK h \in Heights : values[k] = TranscodeValue(v, h)
      BY <2>1
    <3>2. values[k].resolution = h
      BY <3>1 DEF TranscodeValue
    <3>3. QED
      BY <3>1, <3>2
  <2>4. /\ f \in [T -> Heights]
        /\ \A k, q \in T : f[k] = f[q] => k = q
    <3> HIDE DEF T
    <3>1. f \in [T -> Heights]
      BY <2>3
    <3>2. ASSUME NEW k \in T, NEW q \in T, f[k] = f[q] PROVE k = q
      <4>1. values[k].resolution = values[q].resolution
        BY <3>2
      <4>2. values[k] = values[q]
        BY <2>3, <4>1
      <4>3. QED
        BY <4>2, <2>2, <1>4
    <3>3. QED
      BY <3>1, <3>2
  <2>5. \A h \in Heights : \E k \in T : f[k] = h
    BY <1>3, <1>6 DEF KeysOfKind, TranscodeValue
  <2> HIDE DEF T, f
  <2>6. f \in Bijection(T, Heights)
    BY <2>4, <2>5 DEF Bijection, Injection, Surjection, IsInjective
  <2>7. ExistsBijection(T, Heights)
    BY <2>6 DEF ExistsBijection
  <2>8. IsFiniteSet(T)
    BY <2>2, FS_Subset
  <2>9. QED
    BY <2>7, <2>8, FS_Bijection DEF T
<1>11. QED
  BY <1>2, <1>5, <1>7, <1>8, <1>9, <1>10

(* ... and values that pass every check cover them.                         *)
LEMMA PassingCovers ==
    ASSUME NEW v, NEW values,
           \A k \in DOMAIN values : values[k] \in ChildValues,
           InvalidKeys(values) = {},
           \A k \in ParsedKeys(values) : values[k].video = v,
           \E k : KeysOfKind(values, "metadata") = {k},
           \A h \in Heights : \E k : KeysOfHeight(values, h) = {k}
    PROVE  Covers(v, values)
<1>1. ParsedKeys(values) = DOMAIN values
  BY DEF ParsedKeys
<1>2. \A k \in DOMAIN values :
        \/ values[k] = MetadataValue(v)
        \/ \E h \in Heights : values[k] = TranscodeValue(v, h)
  <2> SUFFICES ASSUME NEW k \in DOMAIN values
               PROVE  \/ values[k] = MetadataValue(v)
                      \/ \E h \in Heights : values[k] = TranscodeValue(v, h)
    OBVIOUS
  <2>1. values[k] \in MetadataValues \cup TranscodeValues
    BY DEF InvalidKeys, ChildValues
  <2>2. values[k].video = v
    BY <1>1
  <2>3. QED
    BY <2>1, <2>2
    DEF MetadataValues, TranscodeValues, MetadataValue, TranscodeValue
<1>3. PICK m : KeysOfKind(values, "metadata") = {m}
  OBVIOUS
<1>4. m \in DOMAIN values /\ values[m] = MetadataValue(v)
  BY <1>1, <1>2, <1>3 DEF KeysOfKind, MetadataValue, TranscodeValue
<1>5. \A h \in Heights : \E k \in DOMAIN values :
         KeysOfHeight(values, h) = {k} /\ values[k] = TranscodeValue(v, h)
  <2> SUFFICES ASSUME NEW h \in Heights
               PROVE  \E k \in DOMAIN values :
                         /\ KeysOfHeight(values, h) = {k}
                         /\ values[k] = TranscodeValue(v, h)
    OBVIOUS
  <2>1. PICK k : KeysOfHeight(values, h) = {k}
    OBVIOUS
  <2>2. k \in DOMAIN values /\ values[k].kind = "transcode"
        /\ values[k].resolution = h
    BY <1>1, <2>1 DEF KeysOfHeight, KeysOfKind
  <2>3. values[k] = TranscodeValue(v, h)
    BY <1>2, <2>2 DEF MetadataValue, TranscodeValue
  <2>4. QED
    BY <2>1, <2>2, <2>3
<1>6. \A k, q \in DOMAIN values : values[k] = values[q] => k = q
  BY <1>1, <1>2, <1>3, <1>5
  DEF KeysOfKind, KeysOfHeight, MetadataValue, TranscodeValue
<1>7. QED
  BY <1>2, <1>4, <1>5, <1>6 DEF Covers

(* A verdict is completed exactly when no child failed and each delivered    *)
(* its one result, and then it lists them by height: for any heights and any *)
(* finite set of children, known or not.                                    *)
THEOREM CompletedMeansCovered ==
    ASSUME NEW v, NEW values, NEW failed, IsFiniteSet(DOMAIN values),
           \A k \in DOMAIN values : values[k] \in ChildValues
    PROVE  LET result == AggregateProcessingResults(v, values, failed)
               covered == DOMAIN failed = {} /\ Covers(v, values)
           IN  /\ result.status = "completed" <=> covered
               /\ covered => result = CompletedResult(v, MetadataValue(v),
                               [h \in Heights |-> TranscodeValue(v, h)])
<1> DEFINE clear == \A n \in 1..6 : Checks(v, values, failed)[n] = {}
           covered == DOMAIN failed = {} /\ Covers(v, values)
           passes ==
             /\ InvalidKeys(values) = {}
             /\ \A k \in ParsedKeys(values) : values[k].video = v
             /\ \E k : KeysOfKind(values, "metadata") = {k}
             /\ \A h \in Heights : \E k : KeysOfHeight(values, h) = {k}
             /\ Cardinality(KeysOfKind(values, "transcode"))
                  = Cardinality(Heights)
<1>0. clear <=> DOMAIN failed = {} /\ passes
  <2>1. (\A n \in 1..6 : Checks(v, values, failed)[n] = {}) <=>
             /\ DOMAIN failed = {}
             /\ InvalidKeys(values) = {}
             /\ \A k \in ParsedKeys(values) : values[k].video = v
             /\ \E k : KeysOfKind(values, "metadata") = {k}
             /\ \A h \in Heights : \E k : KeysOfHeight(values, h) = {k}
             /\ Cardinality(KeysOfKind(values, "transcode"))
                  = Cardinality(Heights)
    BY ChecksEmpty, Zenon
  <2>2. QED
    BY <2>1, Zenon
<1>1. clear => covered
  BY <1>0, PassingCovers, Zenon
<1>2. covered => clear
  <2>1. ASSUME covered PROVE passes
    <3>1. /\ InvalidKeys(values) = {}
          /\ \A k \in ParsedKeys(values) : values[k].video = v
          /\ \E k : KeysOfKind(values, "metadata") = {k}
          /\ Cardinality(KeysOfKind(values, "transcode"))
               = Cardinality(Heights)
      BY <2>1, CoverPasses
    <3>2. \A h \in Heights : \E k \in DOMAIN values :
             /\ KeysOfHeight(values, h) = {k}
             /\ values[k] = TranscodeValue(v, h)
      BY <2>1, CoverPasses
    <3>3. QED
      BY <3>1, <3>2
  <2>2. QED
    BY <1>0, <2>1, Zenon
<1>3. ASSUME covered
      PROVE  /\ TheValue(values, KeysOfKind(values, "metadata"))
                  = MetadataValue(v)
             /\ Renditions(values) = [h \in Heights |-> TranscodeValue(v, h)]
  BY <1>3, CoverPasses DEF TheValue, Renditions
<1> HIDE DEF clear, covered
<1>4. QED
  BY <1>1, <1>2, <1>3, CompletedIffNoCheckFails DEF clear, covered

-----------------------------------------------------------------------------
(* What the children reported is finite and typed; the result, once there,   *)
(* is the aggregate of it.                                                  *)
CasesInv ==
    /\ IsFiniteSet(DOMAIN childrenValues)
    /\ \A k \in DOMAIN childrenValues : childrenValues[k] \in ChildValues
    /\ \/ pipelineResult = NoResult
       \/ pipelineResult = AggregateProcessingResults(
                              Video, childrenValues, failedChildren)

(* The invariant is inductive.                                              *)
THEOREM CasesInvariance == CasesSpec => []CasesInv
<1>1. CasesInit => CasesInv
  BY FS_EmptySet DEF CasesInit, CasesInv, Empty
<1>2. ASSUME CasesInv, [CasesNext]_casesVars PROVE CasesInv'
  <2>1. ASSUME NEW k \in Keys, NEW value \in ChildValues, ChildReports(k, value)
        PROVE  CasesInv'
    <3>1. DOMAIN childrenValues' = DOMAIN childrenValues \cup {k}
      BY <2>1 DEF ChildReports, Extend
    <3>2. IsFiniteSet(DOMAIN childrenValues')
      BY <1>2, <3>1, FS_AddElement DEF CasesInv
    <3>3. \A q \in DOMAIN childrenValues' : childrenValues'[q] \in ChildValues
      BY <1>2, <2>1 DEF ChildReports, Extend, CasesInv
    <3>4. QED
      BY <2>1, <3>2, <3>3 DEF ChildReports, CasesInv
  <2>2. ASSUME NEW k \in Keys, NEW error \in {"blank", "text"},
               FailureReported(k, error)
        PROVE  CasesInv'
    BY <1>2, <2>2 DEF FailureReported, CasesInv
  <2>3. CASE Aggregate
    BY <1>2, <2>3 DEF Aggregate, CasesInv
  <2>4. CASE UNCHANGED casesVars
    BY <1>2, <2>4 DEF casesVars, CasesInv
  <2>5. QED
    BY <1>2, <2>1, <2>2, <2>3, <2>4 DEF CasesNext
<1>3. QED
  BY <1>1, <1>2, PTL DEF CasesSpec

(* Covers is the reference definition of AggregateCases.                    *)
LEMMA ExactCoverIsCover ==
    ExactCover <=> DOMAIN failedChildren = {} /\ Covers(Video, childrenValues)
  BY DEF ExactCover, ExpectedValues, Covers, Range

(* The invariant gives the counting-free characterisation of completed.     *)
LEMMA InvariantCovers == CasesInv => CompletedIffExactCover
<1> SUFFICES ASSUME CasesInv, pipelineResult # NoResult
             PROVE  pipelineResult.status = "completed" <=> ExactCover
  BY DEF CompletedIffExactCover, Aggregated
<1>1. pipelineResult = AggregateProcessingResults(
                          Video, childrenValues, failedChildren)
  BY DEF CasesInv
<1>2. pipelineResult.status = "completed"
        <=> DOMAIN failedChildren = {} /\ Covers(Video, childrenValues)
  BY <1>1, CompletedMeansCovered DEF CasesInv
<1>3. QED
  BY <1>2, ExactCoverIsCover

(* aggregateProcessingResults reports a video completed exactly when each of *)
(* its children delivered its one result and none failed.                   *)
THEOREM VerdictIsExactCover == CasesSpec => []CompletedIffExactCover
  BY CasesInvariance, InvariantCovers, PTL

-----------------------------------------------------------------------------
(* No check reports a blank error, whatever text a child failed with.       *)
LEMMA NoBlankError ==
    ASSUME NEW v, NEW values, NEW failed, NEW n \in 1..6
    PROVE  \A f \in Checks(v, values, failed)[n] : f.error # "blank"
<1> DEFINE checks == Checks(v, values, failed)
<1>0. \A key, error : Failure(key, error).error = error
  BY DEF Failure
<1>1. \A f \in ChildFailures(failed) : f.error # "blank"
  <2>1. \A e : TrimmedError(e) # "blank"
    BY DEF TrimmedError
  <2>2. \A f \in ChildFailures(failed) :
           \E k \in DOMAIN failed : f.error = TrimmedError(failed[k])
    BY <1>0, Zenon DEF ChildFailures
  <2>3. QED
    BY <2>1, <2>2
<1>2. \A f \in InvalidChildren(values) : f.error # "blank"
  <2>1. \A f \in InvalidChildren(values) : f.error = "invalid child result"
    BY <1>0, Zenon DEF InvalidChildren
  <2>2. QED
    BY <2>1
<1>3. \A f \in MismatchedResults(v, values) : f.error # "blank"
  <2>1. \A f \in MismatchedResults(v, values) :
           f.error = "result for another video"
    BY <1>0, Zenon DEF MismatchedResults
  <2>2. QED
    BY <2>1
<1>4. \A f \in MetadataCount(values) : f.error # "blank"
  <2>1. \A f \in MetadataCount(values) :
           f.error = "expected one metadata result"
    BY <1>0, Zenon DEF MetadataCount
  <2>2. QED
    BY <2>1
<1>5. \A f \in InvalidRenditions(values) : f.error # "blank"
  <2>1. \A f \in InvalidRenditions(values) :
           f.error = "expected one result of this height"
    BY <1>0, Zenon DEF InvalidRenditions
  <2>2. QED
    BY <2>1
<1>6. \A f \in RenditionCount(values) : f.error # "blank"
  <2>1. \A f \in RenditionCount(values) :
           f.error = "unexpected number of renditions"
    BY <1>0, Zenon DEF RenditionCount
  <2>2. QED
    BY <2>1
<1>7. /\ checks[1] = ChildFailures(failed)
      /\ checks[2] = InvalidChildren(values)
      /\ checks[3] = MismatchedResults(v, values)
      /\ checks[4] = MetadataCount(values)
      /\ checks[5] = InvalidRenditions(values)
      /\ checks[6] = RenditionCount(values)
  BY DEF Checks
<1>8. n \in {1, 2, 3, 4, 5, 6}
  OBVIOUS
<1> HIDE DEF checks
<1>9. \A f \in checks[n] : f.error # "blank"
  BY <1>1, <1>2, <1>3, <1>4, <1>5, <1>6, <1>7, <1>8
<1>10. QED
  BY <1>9 DEF checks

(* A completed verdict, written out.                                        *)
LEMMA CompletedResultIs ==
    ASSUME CasesInv, pipelineResult # NoResult,
           pipelineResult.status = "completed"
    PROVE  pipelineResult = CompletedResult(Video, MetadataValue(Video),
                      [h \in Heights |-> TranscodeValue(Video, h)])
<1>1. pipelineResult = AggregateProcessingResults(
                          Video, childrenValues, failedChildren)
  BY DEF CasesInv
<1>2. DOMAIN failedChildren = {} /\ Covers(Video, childrenValues)
  BY <1>1, CompletedMeansCovered DEF CasesInv
<1>3. QED
  BY <1>1, <1>2, CompletedMeansCovered DEF CasesInv

(* The invariant gives the schema, for either verdict.                      *)
LEMMA InvariantSatisfies == CasesInv => ResultSatisfiesContract
<1> SUFFICES ASSUME CasesInv, pipelineResult # NoResult
             PROVE  IsPipelineResult(pipelineResult)
  BY DEF ResultSatisfiesContract, Aggregated
<1>1. CASE pipelineResult.status = "completed"
  BY <1>1, CompletedResultIs, VideoAssumption
  DEF IsPipelineResult, CompletedResult, MetadataValue, MetadataValues,
      TranscodeValue, TranscodeValues
<1>2. CASE pipelineResult.status # "completed"
  <2>1. pipelineResult = AggregateProcessingResults(
                          Video, childrenValues, failedChildren)
    BY DEF CasesInv
  <2> DEFINE checks == Checks(Video, childrenValues, failedChildren)
  <2>2. PICK n \in 1..6 :
           /\ checks[n] # {}
           /\ pipelineResult = FailedResult(Video, checks[n])
    BY <1>2, <2>1, CompletedIffNoCheckFails
  <2>3. \A f \in checks[n] : f.error # "blank"
    BY NoBlankError
  <2>4. QED
    BY <2>2, <2>3 DEF IsPipelineResult, FailedResult
<1>3. QED
  BY <1>1, <1>2

(* Whatever it aggregates, the result parses as the schema under which it    *)
(* is stored, re-read and published.                                        *)
THEOREM AggregateSatisfiesContract == CasesSpec => []ResultSatisfiesContract
  BY CasesInvariance, InvariantSatisfies, PTL

(* The invariant gives the view, by the verdict the result holds.           *)
LEMMA InvariantReady == CasesInv => ReadyIffEveryRendition
<1> SUFFICES ASSUME CasesInv, pipelineResult # NoResult,
                    NEW status \in PROCESSING_STATUSES
             PROVE  LET view == VideoResult(status, pipelineResult)
                    IN  /\ view.ready <=> status = "completed" /\ ExactCover
                        /\ \A h \in Heights :
                              view.renditions[h] = "completed" <=> ExactCover
  BY DEF ReadyIffEveryRendition, Aggregated
<1> DEFINE view == VideoResult(status, pipelineResult)
<1>1. /\ IsPipelineResult(pipelineResult)
      /\ pipelineResult.status = "completed" <=> ExactCover
  BY InvariantSatisfies, InvariantCovers
  DEF ResultSatisfiesContract, CompletedIffExactCover, Aggregated
<1>2. CASE pipelineResult.status = "completed"
  <2>1. \A h \in Heights : pipelineResult.renditions[h].resolution = h
    BY <1>2, CompletedResultIs DEF CompletedResult, TranscodeValue
  <2>2. /\ view.ready <=> status = "completed"
        /\ \A h \in Heights : view.renditions[h] = "completed"
    BY <1>1, <1>2, <2>1 DEF VideoResult
  <2>3. QED
    BY <1>1, <1>2, <2>2
<1>3. CASE pipelineResult.status # "completed"
  <2>1. ~view.ready /\ \A h \in Heights : view.renditions[h] = "pending"
    BY <1>3 DEF VideoResult
  <2>2. QED
    BY <1>1, <1>3, <2>1
<1>4. QED
  BY <1>2, <1>3

(* The API shows renditions exactly when the children cover the video, and   *)
(* calls it ready exactly when its row is completed as well.                *)
THEOREM ReadyMeansRendered == CasesSpec => []ReadyIffEveryRendition
  BY CasesInvariance, InvariantReady, PTL

-----------------------------------------------------------------------------
(* Whom f may blame, when values and failed were reported about v.          *)
Justified(v, values, failed, f) ==
    \/ f.childKey = OrchestratorKey
    \/ \E h \in Heights :
         /\ f.childKey = RenditionKey(h)
         /\ ~ \E k \in DOMAIN values :
                /\ values[k] = TranscodeValue(v, h)
                /\ \A q \in DOMAIN values :
                      values[q] = TranscodeValue(v, h) => q = k
    \/ f.childKey \in DOMAIN failed
    \/ f.childKey \in DOMAIN values /\ values[f.childKey] = InvalidValue

(* A rendition is blamed only after the check for other videos has passed,   *)
(* so that the one value of this height cannot be a foreign one.             *)
LEMMA RenditionBlame ==
    ASSUME NEW v, NEW values, NEW failed,
           \A k \in DOMAIN values : values[k] \in ChildValues,
           MismatchedResults(v, values) = {},
           NEW f \in InvalidRenditions(values)
    PROVE  Justified(v, values, failed, f)
<1>1. PICK h \in Heights : /\ f = Failure(RenditionKey(h),
                                  "expected one result of this height")
                           /\ Cardinality(KeysOfHeight(values, h)) # 1
  BY DEF InvalidRenditions
<1>2. ASSUME NEW k \in DOMAIN values,
             values[k] = TranscodeValue(v, h),
             \A q \in DOMAIN values : values[q] = TranscodeValue(v, h) => q = k
      PROVE  FALSE
  <2>1. k \in KeysOfHeight(values, h)
    BY <1>2 DEF KeysOfHeight, KeysOfKind, ParsedKeys, InvalidKeys,
                TranscodeValue, InvalidValue
  <2>2. ASSUME NEW q \in KeysOfHeight(values, h)
        PROVE  q = k
    <3>1. /\ q \in DOMAIN values /\ values[q] \in ChildValues
          /\ values[q].kind = "transcode" /\ values[q].resolution = h
      BY <2>2 DEF KeysOfHeight, KeysOfKind, ParsedKeys
    <3>2. values[q].video = v
      BY <2>2 DEF MismatchedResults, KeysOfHeight, KeysOfKind
    <3>3. values[q] \in TranscodeValues
      BY <3>1, KindOfValue
    <3>4. values[q] = TranscodeValue(v, h)
      BY <3>1, <3>2, <3>3 DEF TranscodeValues, TranscodeValue
    <3>5. QED
      BY <1>2, <3>1, <3>4
  <2>3. KeysOfHeight(values, h) = {k}
    BY <2>1, <2>2
  <2>4. QED
    BY <1>1, <2>3, FS_Singleton
<1>3. f.childKey = RenditionKey(h)
  BY <1>1 DEF Failure
<1>4. QED
  BY <1>2, <1>3 DEF Justified

(* Each of the other checks blames what it names.                           *)
LEMMA CheckBlame ==
    ASSUME NEW v, NEW values, NEW failed,
           \A k \in DOMAIN values : values[k] \in ChildValues,
           NEW n \in 1..6,
           \A m \in 1..6 : m < n => Checks(v, values, failed)[m] = {},
           NEW f \in Checks(v, values, failed)[n]
    PROVE  Justified(v, values, failed, f)
<1> DEFINE checks == Checks(v, values, failed)
<1>0. \A key, error : Failure(key, error).childKey = key
  BY DEF Failure
<1>1. ASSUME f \in ChildFailures(failed)
      PROVE  Justified(v, values, failed, f)
  <2>1. PICK k \in DOMAIN failed : f = Failure(k, TrimmedError(failed[k]))
    BY <1>1 DEF ChildFailures
  <2>2. QED
    BY <1>0, <2>1 DEF Justified
<1>2. ASSUME f \in InvalidChildren(values)
      PROVE  Justified(v, values, failed, f)
  <2>1. PICK k \in InvalidKeys(values) : f = Failure(k, "invalid child result")
    BY <1>2 DEF InvalidChildren
  <2>2. f.childKey = k
    BY <1>0, <2>1
  <2>3. k \in DOMAIN values /\ values[k] = InvalidValue
    BY DEF InvalidKeys
  <2>4. QED
    BY <2>2, <2>3 DEF Justified
<1>3. ASSUME f \in MismatchedResults(v, values) \cup MetadataCount(values)
                     \cup RenditionCount(values)
      PROVE  Justified(v, values, failed, f)
  <2>1. \E error : f = Failure(OrchestratorKey, error)
    BY <1>3 DEF MismatchedResults, MetadataCount, RenditionCount
  <2>2. QED
    BY <1>0, <2>1 DEF Justified
<1>4. /\ checks[1] = ChildFailures(failed)
      /\ checks[2] = InvalidChildren(values)
      /\ checks[3] = MismatchedResults(v, values)
      /\ checks[4] = MetadataCount(values)
      /\ checks[5] = InvalidRenditions(values)
      /\ checks[6] = RenditionCount(values)
  BY DEF Checks
<1>5. n \in {1, 2, 3, 4, 5, 6}
  OBVIOUS
<1> HIDE DEF checks
<1>6. CASE n = 5
  <2>1. checks[3] = {}
    BY <1>6 DEF checks
  <2>2. MismatchedResults(v, values) = {} /\ f \in InvalidRenditions(values)
    <3>1. f \in checks[n]
      BY DEF checks
    <3>2. QED
      BY <1>4, <1>6, <2>1, <3>1
  <2>3. QED
    BY <2>2, RenditionBlame
<1>7. CASE n # 5
  <2>1. f \in checks[n]
    BY DEF checks
  <2>2. QED
    BY <1>1, <1>2, <1>3, <1>4, <1>5, <1>7, <2>1
<1>8. QED
  BY <1>6, <1>7

(* The invariant gives that every blame is justified.                       *)
LEMMA InvariantBlames == CasesInv => BlameIsJustified
<1> DEFINE checks == Checks(Video, childrenValues, failedChildren)
<1> SUFFICES ASSUME CasesInv, pipelineResult # NoResult,
                    pipelineResult.status = "failed",
                    NEW f \in pipelineResult.failures
             PROVE  Justified(Video, childrenValues, failedChildren, f)
  BY DEF BlameIsJustified, Justified, Aggregated
<1>1. pipelineResult = AggregateProcessingResults(
                          Video, childrenValues, failedChildren)
  BY DEF CasesInv
<1>2. PICK n \in 1..6 :
         /\ \A m \in 1..6 : m < n => checks[m] = {}
         /\ pipelineResult = FailedResult(Video, checks[n])
  BY <1>1, CompletedIffNoCheckFails
<1>3. f \in checks[n]
  BY <1>2 DEF FailedResult
<1>4. QED
  BY <1>2, <1>3, CheckBlame DEF CasesInv

(* A failure blames who is at fault: no child that delivered the only value  *)
(* of its rendition, whichever of the six checks gave the verdict.           *)
THEOREM BlameFallsOnTheGuilty == CasesSpec => []BlameIsJustified
  BY CasesInvariance, InvariantBlames, PTL
=============================================================================
