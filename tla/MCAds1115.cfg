\* Ticks shorter and longer than the conversions of 2 to 63 ms; the margin covers ticks of
\* 1 and 2 ms.
CONSTANTS
  Rates <- TableRates
  TickSizes = {1, 2, 3, 5}
  ResetMs = 8
  Margin = 2
SPECIFICATION Spec
INVARIANTS
  TypeOK
  FreshWhenCovered
