CONSTANTS
  Calls = {c1, c2, c3}
  Keys = {k1, k2}
  Actors = {a1, a2}
  Commands = {m1, m2}
  MaxConnections = 2
  NoInput = NoInput
  NoCall = NoCall
SPECIFICATION MCSpec
INVARIANTS
  TypeOK
  OneActionPerKey
  AuditedExactlyOnce
  OkNamesOwnAction
  ConflictIsReal
PROPERTIES
  LedgerSpec
  EveryCallReturns
  EveryConnectionReturns
