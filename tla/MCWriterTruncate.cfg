\* One packet thread, two records; one os.rename may fail.
CONSTANTS
  w1 = w1
  w2 = w2
  Producers <- MCOneProducer
  NRec = 2
  FailKinds <- MCFailRename
  MaxFail = 1
SPECIFICATION Spec
INVARIANT NoWrittenRecordLost
CHECK_DEADLOCK FALSE
