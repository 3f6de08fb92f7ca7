\* Light traffic after a return_buffs whose += lands after the reset.
CONSTANTS
  NoBuf = NoBuf
  NBuf = 2
  Formats = {"cflowd"}
  DataListMax = 1
  Kinds <- MCKindsV5
  MaxDgrams = 2
  Signals = {"hup"}
SPECIFICATION Spec
PROPERTY ReadListHandedOn
CHECK_DEADLOCK FALSE
