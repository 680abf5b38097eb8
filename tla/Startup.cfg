CONSTANTS
  Health = supervisor
  Telemetry = telemetry
  Forwarder = forwarder
  Publishers = {supervisor, telemetry, forwarder}
SPECIFICATION SysSpec
INVARIANTS
  SysTypeOK
  FlagHasSession
  SessionIsSeen
  NothingUsedEarly
  LedMeansBooted
PROPERTY
  Recovers
