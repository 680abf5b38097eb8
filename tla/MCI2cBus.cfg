\* Two workers and app_main; SDA may need one pulse more than the budget of 2;
\* an error counter that wraps at 3.
CONSTANTS
  sensor = sensor
  display = display
  Main = Main
  NoTask = NoTask
  Workers <- MCWorkers
  DeviceOf <- MCDeviceOf
  NumDevices = 2
  MaxDevices = 2
  RecoveryClocks = 2
  ErrorModulus = 3
SPECIFICATION Spec
INVARIANTS
  TypeOK
  OneTaskOnTheWire
  UpMeansUsable
  DownMeansTornDown
  RebuiltOnFreeLine
  FailuresAreCounted
PROPERTIES
  KeepsContract
