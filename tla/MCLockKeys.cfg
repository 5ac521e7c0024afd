SPECIFICATION Spec
CONSTANTS
  p1 = p1
  p2 = p2
  NoRequest = NoRequest
  Processes <- MCProcesses
  Values <- MCValues
  OwnNames <- MCOwnNames
SYMMETRY Symmetry
INVARIANTS
  MutualExclusion
  NoFalseSharing
