CONSTANTS
  Health = supervisor
  Publishers = {supervisor, telemetry}
SPECIFICATION HealthSpec
INVARIANT RetainedIsLatest
