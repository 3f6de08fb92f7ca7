\* Two packet threads sharing the writer, up to two open, write or close
\* OSErrors; the startup check over every small command line.
CONSTANTS
  w1 = w1
  w2 = w2
  Producers <- MCTwoProducers
  NRec = 3
  FailKinds <- MCFailIO
  MaxFail = 2
SPECIFICATION Spec
INVARIANT TypeOK
PROPERTY RecordsRotated
CHECK_DEADLOCK FALSE
INVARIANT StartupEveryPortHasWriter
