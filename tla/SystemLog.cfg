\* Two tasks and the forwarder, three lines each, a queue of two.
CONSTANTS
  Loggers = {sensor, mqtt}
  Forwarder = log_fwd
  QueueDepth = 2
  MaxLines = 3
SPECIFICATION Spec
INVARIANTS
  TypeOK
  NoEcho
  RemoteInOrder
PROPERTIES
  LoggingReturns
  LinesLeave
CHECK_DEADLOCK FALSE
