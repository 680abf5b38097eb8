\* The instance of MCI2cBus.cfg.
CONSTANTS
  sensor = sensor
  display = display
  Main = Main
  NoTask = NoTask
  Workers <- MCWorkers
  DeviceOf <- MCDeviceOf
  NumDevices = 2
  MaxDevices = 2
  RecoveryClocks = 2
  ErrorModulus = 3
SPECIFICATION Spec
INVARIANT HandlesSurviveRecovery
