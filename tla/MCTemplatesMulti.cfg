\* Two datagrams: a template set, then a two-record template set that
\* redefines a template in second position, with data for it.
CONSTANTS
  TIds <- MCTIds
  Layouts <- MCLayouts
  MaxPerSet = 2
  MaxMsgs = 2
  ZeroSets = FALSE
SPECIFICATION Spec
INVARIANT DecodedWithCurrentDefinition
CHECK_DEADLOCK FALSE
