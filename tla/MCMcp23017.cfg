CONSTANTS
  p1 = p1
  p2 = p2
  Pins <- PinsWired
  Masks <- PortMasks
  Configs <- Wiring
SPECIFICATION Spec
INVARIANTS
  TypeOK
  InSync
PROPERTY
  ReadyMeansConfigured
