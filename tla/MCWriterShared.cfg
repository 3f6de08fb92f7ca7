\* -p 2055:/t -p 2056:/t/ : both packet threads put to the one writer of
\* /t; no OSErrors.
CONSTANTS
  w1 = w1
  w2 = w2
  Producers <- MCTwoProducers
  NRec = 2
  FailKinds = {}
  MaxFail = 0
SPECIFICATION Spec
PROPERTY RecordsWritten
CHECK_DEADLOCK FALSE
