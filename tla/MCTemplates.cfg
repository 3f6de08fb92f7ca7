\* Template and options-template sets of up to two records, data sets,
\* reserved and zero-length sets; three datagrams.
CONSTANTS
  TIds <- MCTIds
  Layouts <- MCLayouts
  MaxPerSet = 2
  MaxMsgs = 3
  ZeroSets = TRUE
SPECIFICATION Spec
INVARIANT TypeOK
INVARIANT ConvertedFromSentDefinition
CHECK_DEADLOCK FALSE
INVARIANT PlanMatchesReference
