SPECIFICATION Spec
CONSTANTS
  web = web
  api = api
  r1 = r1
  s1 = s1
  s2 = s2
  NoRole = NoRole
  NoQuery = NoQuery
  NoSession = NoSession
  ReadContexts <- MCReadContexts
  WriteContexts <- MCWriteContexts
  Roles <- MCRoles
  Queries <- MCQueries
  Slots <- MCSlots
SYMMETRY Symmetry
INVARIANTS
  TypeOK
  RoleIsProved
  ModeIsProved
  PlanesAreSeparate
