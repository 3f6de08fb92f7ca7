\* Two exporters on port p1, one of them also on p2; datagrams of two
\* records, three per link, any of them lost; --log-missing-full on.
CONSTANTS
  ea = ea
  eb = eb
  p1 = p1
  p2 = p2
  Exporters = {ea, eb}
  Ports = {p1, p2}
  Links <- MCLinksMixed
  Cnt = 2
  MaxDg = 3
  LogMissingFull = TRUE
  NoInfo = NoInfo
  NoAddr = NoAddr
SPECIFICATION Spec
INVARIANT TypeOK
INVARIANT GapsGenuine
INVARIANT LossReported
INVARIANT MovedByReferencePlan
CHECK_DEADLOCK FALSE
