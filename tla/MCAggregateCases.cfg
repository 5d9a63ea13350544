CONSTANTS
  Videos = {v1, v2}
  Video = v1
  Heights = {h1, h2, h3}
  Keys = {k1, k2, k3, k4, k5}
  MaxFailed = 1
SPECIFICATION CasesSpec
SYMMETRY KeySymmetry
INVARIANTS
  CompletedIffExactCover
  ResultSatisfiesContract
  ReadyIffEveryRendition
  BlameIsJustified
CHECK_DEADLOCK FALSE
