\* CONFIG_FREERTOS_HZ is 100: a tick is 10 ms.
CONSTANTS
  Rates <- BoardRate
  TickSizes = {10}
  ResetMs = 8
  Margin = 2
SPECIFICATION Spec
INVARIANT
  ReadsItsOwn
