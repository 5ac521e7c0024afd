SPECIFICATION Spec
CONSTANT Inputs <- MCInputs
INVARIANTS
  TypeOK
  VerdictsAgree
  RefusalIsExplained
  TextSurvives
\* A message that is refused, or held in Gleam, ends there.
CHECK_DEADLOCK FALSE
