\* Both formats, well-formed traffic of both versions, graceful stop.  Three
\* buffers for three datagrams and the stop datagram: the pool runs out and
\* the reader waits on the free queue (sockets.py:217).
CONSTANTS
  NoBuf = NoBuf
  NBuf = 3
  Formats = {"cflowd", "ipfix"}
  DataListMax = 1
  Kinds <- MCKindsWellFormed
  MaxDgrams = 3
  Signals = {"hup"}
SPECIFICATION Spec
INVARIANTS TypeOK NoBufferLost StopDeliversAll
PROPERTIES DeliversPrefix 
CHECK_DEADLOCK FALSE
