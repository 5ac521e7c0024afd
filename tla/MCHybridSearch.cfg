SPECIFICATION Spec
CONSTANTS
  MaxId = 3
  SemanticScores = {0, 1}
  LexicalScores = {0, 2, 7}
  Distances = {0, 1}
  Limits = {0, 1, 2, 5}
  CandidateFactor = 2
  CandidateFloor = 1
  CandidateCeiling = 3
  ResultCeiling = 2
  MaxInt = 7
INVARIANTS
  TypeOK
  LeftOutWasCrowdedOut
  SameRanking
CHECK_DEADLOCK FALSE
