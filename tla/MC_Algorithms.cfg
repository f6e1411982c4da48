CONSTANTS
  SomePercents <- MCPercents
  Bound = 700
  SomeLengths <- MCLengths
  SomeLatencies <- MCLatencies
  MaxRecords = 3
SPECIFICATION Spec
INVARIANTS
  ShareWithinRounding
  SummaryRight
PROPERTY EvenlySpread
CHECK_DEADLOCK FALSE
