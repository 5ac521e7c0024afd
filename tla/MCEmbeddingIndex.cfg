CONSTANTS
  Ids = {e1, e2}
  Owners = {w1, w2}
  Spaces = {s1, s2}
  v1 = v1
  v2 = v2
  tail = tail
  Vectors <- MCVectors
  Proj <- MCProj
  NoSignal = NoSignal
  NoRow = NoRow
  Untouched = Untouched
SPECIFICATION FairSpec
INVARIANTS
  TypeOK
  IndexReferencesExact
  ReconciledIsComplete
  NothingToReport
PROPERTIES
  TriggerKeepsCurrent
  ReconcileRepairs
  ReconcileConverges
