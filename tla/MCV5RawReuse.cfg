\* NetFlow v5 on a port with ipfix output: the raw pool buffer is queued.
CONSTANTS
  NoBuf = NoBuf
  NBuf = 2
  Formats = {"ipfix"}
  DataListMax = 1
  Kinds <- MCKindsV5
  MaxDgrams = 3
  Signals = {"hup"}
SPECIFICATION Spec
INVARIANT WrittenIntact
CHECK_DEADLOCK FALSE
