CONSTANTS
  Null = Null
  Numerals <- MCNumerals
  Booleans <- MCBooleans
  MaxSliceSize = 1
  Dotted <- MCDotted
  SortedNames <- MCSortedNames
  FreshID <- MCFreshID
  Routes <- MCRoutes
  Messages <- MCMessages
SPECIFICATION Spec
INVARIANTS
  RoundTrip
  NothingIsDropped
  RefusalsAreDeserved
  ResponseKeepsItsSchema
  ValidInputIsReflected
  ExpansionsAreHonoured
  IDsAgree
