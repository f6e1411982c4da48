CONSTANTS
  Inputs <- SomeInputs
  DefaultLoads <- OneLoad
  MaxArguments = 2
  MaxSurprises = 1
SPECIFICATION Spec
INVARIANTS
  TypeOK
  WholeMatrix
  Interleaved
  UnderItsImpairment
  VerdictFollows
  OwnLog
PROPERTY Ends
