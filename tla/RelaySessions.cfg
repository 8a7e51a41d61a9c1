CONSTANTS
  Nodes = {n1, n2}
  Sessions = {s1, s2}
  Streams = {t1}
  NoSession = NoSession
  NoNode = NoNode
SPECIFICATION FairSpec
CHECK_DEADLOCK FALSE
PROPERTIES
  OnlyItsOwnEndTakesANodeOffline
  ImplementsTransport
  ReplacedSessionsEnd
