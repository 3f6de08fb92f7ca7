\* One exporter sending to two ports; two datagrams of two records per link.
CONSTANTS
  ea = ea
  eb = eb
  p1 = p1
  p2 = p2
  Exporters = {ea}
  Ports = {p1, p2}
  Links <- MCLinksOneExporter
  Cnt = 2
  MaxDg = 2
  LogMissingFull = TRUE
  NoInfo = NoInfo
  NoAddr = NoAddr
SPECIFICATION Spec
INVARIANT RecordsFaithful
CHECK_DEADLOCK FALSE
