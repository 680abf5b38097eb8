------------------------------ MODULE StatusLed ------------------------------
(***************************************************************************)
(* The status LED: its driver (drivers/output/status_led.c) and the task   *)
(* that blinks it (tasks/task_status.c).  Module Startup says when app_main *)
(* initializes the driver and creates the task.                            *)
(***************************************************************************)


VARIABLES
  pin,              \* the level the GPIO carries: "low" or "high", "floating" after a reset
  s_is_initialized,
  s_channel_state,  \* the state last written
  blink             \* the step task_status takes next; "none" before it is created

ledVars == <<pin, s_is_initialized, s_channel_state, blink>>

\* The board's LED lights when the pin is high (main.c:300-303).
active_low == FALSE

status_led_level(state) == IF state # active_low THEN "high" ELSE "low"

\* A reset leaves the pin an input; the LED is dark.
LedInit ==
  pin = "floating" /\ s_is_initialized = FALSE /\ s_channel_state = FALSE /\ blink = "none"

LedReset ==
  pin' = "floating" /\ s_is_initialized' = FALSE /\ s_channel_state' = FALSE /\ blink' = "none"

\* status_led_init; an error of gpio_config restarts the board instead.  The pin
\* is low between gpio_config and gpio_set_level, which is dark with this polarity.
status_led_init ==
  /\ s_is_initialized' = TRUE
  /\ IF s_is_initialized
     THEN UNCHANGED <<pin, s_channel_state>>
     ELSE pin' = status_led_level(FALSE) /\ s_channel_state' = FALSE
  /\ UNCHANGED blink

\* status_led_set of channel 0; gpio_set_level does not fail on a pin init accepted.
status_led_set(state) ==
  /\ IF s_is_initialized
     THEN pin' = status_led_level(state) /\ s_channel_state' = state
     ELSE UNCHANGED <<pin, s_channel_state>>
  /\ UNCHANGED s_is_initialized

task_status_created == blink' = "on" /\ UNCHANGED <<pin, s_is_initialized, s_channel_state>>

\* One flash: on, a short delay, off, and the rest of the period.
task_status ==
  \/ blink = "on" /\ status_led_set(TRUE) /\ blink' = "off"
  \/ blink = "off" /\ status_led_set(FALSE) /\ blink' = "on"

Lit == pin = status_led_level(TRUE)

LedTypeOK ==
  /\ pin \in {"low", "high", "floating"}
  /\ s_is_initialized \in BOOLEAN
  /\ s_channel_state \in BOOLEAN
  /\ blink \in {"none", "on", "off"}

=============================================================================
