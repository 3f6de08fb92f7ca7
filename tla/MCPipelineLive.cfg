\* Both formats, all traffic processed without error; 16 buffers (N // 16 = 1)
\* so that the 2-second socket timeout mode is reachable.
CONSTANTS
  NoBuf = NoBuf
  NBuf = 16
  Formats = {"cflowd", "ipfix"}
  DataListMax = 1
  Kinds <- MCKindsGood
  MaxDgrams = 2
  Signals = {"hup", "term"}
SPECIFICATION Spec
PROPERTY OutputNotStranded
CHECK_DEADLOCK FALSE
