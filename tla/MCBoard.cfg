\* Two commands and one text fit: the full queue and the drop are everywhere.
\* One voltage is above the threshold, the other just below 0 V.
CONSTANTS
  Volts <- FewVolts
  ActuatorDepth = 2
  DisplayDepth = 1
  NoData = nodata
  Status = status
SPECIFICATION Spec
INVARIANTS
  TypeOK
  LastCommandWins
PROPERTIES
  CommandsInOrder
  SamplingGoesOn
  TelemetryCatchesUp
  PanelCatchesUp
