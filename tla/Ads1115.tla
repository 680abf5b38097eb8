------------------------------ MODULE Ads1115 ------------------------------
(***************************************************************************)
(* The converter (drivers/ic/ads1115.c) below its sensor adapter           *)
(* (drivers/sensor/sensor_ads1115.c), against the clock: a read starts a   *)
(* conversion, sleeps a number of FreeRTOS ticks and fetches whatever the  *)
(* result register then holds.  A conversion has a length of its own, and  *)
(* a sleep of n ticks is as long as the phase of the current tick leaves   *)
(* it: the bus, shared with the display, decides when in a tick the        *)
(* conversion starts.  The factory word that init and reset write starts a *)
(* conversion too, of another input.                                       *)
(*                                                                         *)
(* A definition that stands directly above the one it resembles and is     *)
(* used nowhere is a mistake the code might have made, kept to show which  *)
(* property notices it.                                                    *)
(***************************************************************************)
EXTENDS Integers

CONSTANTS
  Rates,     \* the data rates: [table, conversion], in ms (s_conversion_to_ms, datasheet)
  ResetMs,   \* the conversion the factory word starts, in ms (8)
  TickSizes, \* the lengths of a tick the project is built with, in ms
  Margin     \* ADS1115_CONVERSION_MARGIN_MS (2)

ASSUME AdsAssumption ==
  /\ TickSizes \subseteq Nat \ {0} /\ Margin \in Nat /\ ResetMs \in Nat \ {0}
  /\ \A r \in Rates :
       /\ r \in [table : Nat, conversion : Nat \ {0}]
       /\ r.conversion <= r.table          \* "rounded up" (ads1115.c:17-18)

VARIABLES
  rate, tick_ms, \* chosen once
  initialized,   \* dev->initialized, of the driver
  s_initialized, \* of the adapter
  at,            \* the step of ads1115_read that comes next
  phase,         \* ms since the last tick
  sleep,         \* ms until the sleeping task is woken
  left,          \* ms until the running conversion ends, 0 when none runs
  running,       \* whose conversion it is, or was: this call's, an older one's, a reset's
  register,      \* whose result the conversion register holds
  disturbed      \* history: since the chip was last seen idle between calls it has been
                 \* reset, or a trigger that counts as failed may have reached it

flags == <<initialized, s_initialized>>   \* of ads1115_dev_t and of the adapter
chip  == <<left, running, register>>
fixed == <<rate, tick_ms>>
vars  == <<fixed, flags, at, phase, sleep, chip, disturbed>>

Whose == {"mine", "older", "reset"}

\* The board has just started; the chip may be where the last run left it.
Init ==
  /\ rate \in Rates /\ tick_ms \in TickSizes
  /\ initialized = FALSE /\ s_initialized = FALSE
  /\ at = "idle" /\ phase = 0 /\ sleep = 0
  /\ left \in 0 .. rate.conversion /\ running = "older" /\ register = "older"
  /\ disturbed = TRUE

-----------------------------------------------------------------------------
(***************************************************************************)
(* One millisecond.  It passes between calls, while the bus is held by     *)
(* another task, and in the sleep; a conversion that ends in it puts its   *)
(* result into the register.                                               *)
(***************************************************************************)
Ms ==
  /\ phase' = IF phase + 1 = tick_ms THEN 0 ELSE phase + 1
  /\ left' = IF left > 0 THEN left - 1 ELSE 0
  /\ register' = IF left = 1 THEN running ELSE register
  /\ sleep' = IF at = "sleep" THEN sleep - 1 ELSE sleep
  /\ at' = IF at = "sleep" /\ sleep = 1 THEN "fetch" ELSE at
  /\ disturbed' = (disturbed /\ (at \in {"sleep", "fetch"} \/ left' > 0))
  /\ UNCHANGED <<fixed, flags, running>>

(***************************************************************************)
(* The chip takes a word for its config register; the OS bit, set in both  *)
(* words the driver writes, has no effect while a conversion is running.   *)
(***************************************************************************)
config_word  == [of |-> "mine", ms |-> rate.conversion]
CONFIG_RESET == [of |-> "reset", ms |-> ResetMs]

ChipTakes(word, whose) ==
  IF left = 0 THEN left' = word.ms /\ running' = whose
              ELSE UNCHANGED <<left, running>>

\* A call of the bus that returns an error may have reached the chip.
MayHaveTaken(word, whose) == ChipTakes(word, whose) \/ UNCHANGED <<left, running>>

-----------------------------------------------------------------------------
(***************************************************************************)
(* ads1115_sensor_init down to ads1115_init, and ads1115_reset: one write  *)
(* of the factory word.                                                    *)
(***************************************************************************)
SensorInit ==
  /\ at = "idle" /\ ~s_initialized
  /\ ChipTakes(CONFIG_RESET, "reset")
  /\ initialized' = TRUE /\ s_initialized' = TRUE
  /\ disturbed' = TRUE
  /\ UNCHANGED <<fixed, at, phase, sleep, register>>

\* `memset(dev, 0, ...)`, and then the device could not be added or written to.
SensorInitFails ==
  /\ at = "idle" /\ ~s_initialized
  /\ MayHaveTaken(CONFIG_RESET, "reset")
  /\ initialized' = FALSE
  /\ disturbed' = TRUE
  /\ UNCHANGED <<fixed, s_initialized, at, phase, sleep, register>>

Reset ==
  /\ at = "idle" /\ initialized
  /\ MayHaveTaken(CONFIG_RESET, "reset")
  /\ disturbed' = TRUE
  /\ UNCHANGED <<fixed, flags, at, phase, sleep, register>>

\* ads1115_deinit, and ads1115_sensor_deinit above it: the flags, and nothing of the chip.
Deinit == initialized' = FALSE

SensorDeinit ==
  /\ at = "idle" /\ s_initialized
  /\ Deinit /\ s_initialized' = FALSE
  /\ UNCHANGED <<fixed, at, phase, sleep, chip, disturbed>>

-----------------------------------------------------------------------------
\* ads1115_sensor_read starts: what the chip has or is doing is an older call's.
NotMine(whose) == IF whose = "mine" THEN "older" ELSE whose

SensorRead ==
  /\ at = "idle" /\ s_initialized /\ initialized
  /\ at' = "trigger"
  /\ running' = NotMine(running) /\ register' = NotMine(register)
  /\ UNCHANGED <<fixed, flags, phase, sleep, left, disturbed>>

\* delay_ms of line 163, and the number of ticks pdMS_TO_TICKS rounds it down to.
NoTable == Margin
delay_ms == rate.table + Margin

Ticks(ms) == ms \div tick_ms

\* vTaskDelay(n) ends at the n-th tick from now; vTaskDelay(0) returns at once.
AlwaysToTheTick(n) == n * tick_ms - phase
SleepFor(n) == IF n = 0 THEN 0 ELSE n * tick_ms - phase

Trigger ==
  /\ at = "trigger"
  /\ ChipTakes(config_word, "mine")
  /\ sleep' = SleepFor(Ticks(delay_ms))
  /\ at' = IF sleep' = 0 THEN "fetch" ELSE "sleep"
  /\ UNCHANGED <<fixed, flags, phase, register, disturbed>>

\* The call returns the bus's error; a conversion it has started is nobody's.
TriggerFails ==
  /\ at = "trigger"
  /\ at' = "idle"
  /\ MayHaveTaken(config_word, "older")
  /\ disturbed' = TRUE
  /\ UNCHANGED <<fixed, flags, phase, sleep, register>>

\* The register is read, or the bus's error returned: the chip goes on either way.
Fetch ==
  /\ at = "fetch"
  /\ at' = "idle"
  /\ UNCHANGED <<fixed, flags, phase, sleep, chip, disturbed>>

ads1115_read == Trigger \/ TriggerFails \/ Fetch

Next ==
  \/ Ms
  \/ SensorInit \/ SensorInitFails \/ Reset \/ SensorDeinit
  \/ SensorRead \/ ads1115_read

Spec == Init /\ [][Next]_vars

-----------------------------------------------------------------------------
(***************************************************************************)
(* Type correctness; no sleep is longer than what was asked for, and the   *)
(* adapter and the driver agree on whether they are initialized.           *)
(***************************************************************************)
TypeOK ==
  /\ rate \in Rates /\ tick_ms \in TickSizes
  /\ initialized \in BOOLEAN /\ s_initialized = initialized
  /\ at \in {"idle", "trigger", "sleep", "fetch"}
  /\ phase \in 0..(tick_ms - 1)
  /\ sleep \in 0..delay_ms
  /\ left \in Nat /\ (left <= rate.conversion \/ left <= ResetMs)
  /\ running \in Whose /\ register \in Whose
  /\ disturbed \in BOOLEAN

(***************************************************************************)
(* ads1115.h:7-9: "each read() triggers one conversion, blocks for the     *)
(* data-rate-derived conversion period, then retrieves the raw result": a  *)
(* read that nothing has disturbed fetches the result of its own           *)
(* conversion, and not what an older read or the reset has left.           *)
(***************************************************************************)
ReadsItsOwn == at = "fetch" /\ ~disturbed => register = "mine"

(***************************************************************************)
(* The margin has two losses to cover, the rounding to ticks and the phase *)
(* of the tick the sleep starts in.                                        *)
(***************************************************************************)
MarginCovers == Margin >= 2 * tick_ms - 2

(***************************************************************************)
(* With a margin that covers both losses a read returns its own result,    *)
(* however close reads follow each other: each leaves the chip idle for    *)
(* the next (ads1115.c:155-174).                                           *)
(***************************************************************************)
FreshWhenCovered == MarginCovers => ReadsItsOwn
=============================================================================
