\* Every timeout and period up to a few ticks, with the two degenerate values
\* (a timeout too small to halve, no heartbeat period) among them.
CONSTANTS
  Configs <- ConfigsUpTo
  FallbackMs = 4
  TickMs = 2
  MaxPublish = 3
  Width = 32
SPECIFICATION Spec
INVARIANTS
  TypeOK
  FedInTime
  HeartbeatInTime
