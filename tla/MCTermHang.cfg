\* SIGTERM under NetFlow v5 load: four buffers, four datagrams, cflowd output.
CONSTANTS
  NoBuf = NoBuf
  NBuf = 4
  Formats = {"cflowd"}
  DataListMax = 1
  Kinds <- MCKindsV5
  MaxDgrams = 4
  Signals = {"term"}
SPECIFICATION Spec
PROPERTY StopCompletes
CHECK_DEADLOCK FALSE
