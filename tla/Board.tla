------------------------------- MODULE Board -------------------------------
(***************************************************************************)
(* How data crosses the board: the tasks of main/tasks, the telemetry task *)
(* of network_manager.c, the inbound commands of main.c and the status     *)
(* lines of system_ota.c, joined by the three queues app_main creates.     *)
(*                                                                         *)
(* The sensor task never waits for a consumer: it overwrites a mailbox for *)
(* telemetry and drops what does not fit for the actuator and the display. *)
(* Commands come to the actuator from two tasks.  A driver call that may   *)
(* take long (drawing, over the shared bus) is a step of its own.          *)
(*                                                                         *)
(* A definition that stands directly above the one it resembles and is     *)
(* used nowhere is a mistake the code might have made, kept to show which  *)
(* property notices it.                                                    *)
(***************************************************************************)
EXTENDS Sequences, Integers

CONSTANTS
  Volts,         \* the voltages at the pin, in codes of the converter
  ActuatorDepth, \* of g_queue_actuator (5)
  DisplayDepth,  \* of g_queue_display (10)
  NoData,        \* in place of a sample, a text or a command where there is none
  Status         \* any text for row 2; the others are for row 0

States == {"ON", "OFF"}  \* of the actuator: the bool TRUE or FALSE

ASSUME BoardAssumption ==
  /\ \A v \in Volts : v \in Int /\ -32768 <= v /\ v < 32768
  /\ ActuatorDepth \in Nat \ {0}
  /\ DisplayDepth \in Nat \ {0}
  /\ NoData \notin Volts /\ NoData \notin States
  /\ Status \notin Volts /\ Status # NoData

VARIABLES
  input,          \* the voltage at the pin
  sensor,         \* the step task_sensor takes next
  reading,        \* its last sample
  last_led_state, \* the state it last announced
  comm,           \* g_queue_comm: a mailbox of one sample
  commands,       \* g_queue_actuator
  texts,          \* g_queue_display
  actuator,       \* the command task_actuator has received, if any
  led,            \* the output it drives
  accepted,       \* history: the last command the queue accepted
  display,        \* the text task_display has received, if any
  row0,           \* row 0 of the panel
  reported        \* the last sample telemetry published

sensorVars   == <<sensor, reading, last_led_state>>
actuatorVars == <<actuator, led>>
displayVars  == <<display, row0>>
vars == <<input, comm, commands, texts, accepted, reported, sensorVars, actuatorVars, displayVars>>

\* The tasks start; the actuator's driver is initialized and its pin low.
Init ==
  /\ input \in Volts
  /\ sensor = "read"
  /\ reading = NoData
  /\ last_led_state = "OFF"
  /\ comm = NoData
  /\ commands = <<>>
  /\ texts = <<>>
  /\ actuator = NoData
  /\ led = "OFF"
  /\ accepted = "OFF"
  /\ display = NoData
  /\ row0 = NoData
  /\ reported = NoData

InputChanges ==
  /\ input' \in Volts \ {input}
  /\ UNCHANGED <<comm, commands, texts, accepted, reported, sensorVars, actuatorVars, displayVars>>

-----------------------------------------------------------------------------
(***************************************************************************)
(* xQueueSend with no wait: what does not fit is dropped, and nobody looks *)
(* at the result.                                                          *)
(***************************************************************************)
SendToFront(c) ==
  IF Len(commands) < ActuatorDepth
  THEN commands' = <<c>> \o commands /\ accepted' = c
  ELSE UNCHANGED <<commands, accepted>>
SendCommand(c) ==
  IF Len(commands) < ActuatorDepth
  THEN commands' = Append(commands, c) /\ accepted' = c
  ELSE UNCHANGED <<commands, accepted>>

OneTooMany(text) ==
  texts' = IF Len(texts) <= DisplayDepth THEN Append(texts, text) ELSE texts
WaitForRoom(text) ==
  Len(texts) < DisplayDepth /\ texts' = Append(texts, text)
SendText(text) ==
  texts' = IF Len(texts) < DisplayDepth THEN Append(texts, text) ELSE texts

-----------------------------------------------------------------------------
(***************************************************************************)
(* The 16 bits the converter sends for a voltage (external), what the      *)
(* adapter makes of them, and the output they call for: more than 2.5 V,   *)
(* 20000 steps of the 4.096 V range.                                       *)
(***************************************************************************)
Bits(v) == v % 65536

SignedCode(raw) == IF raw < 32768 THEN raw ELSE raw - 65536

VOLTAGE_THRESHOLD == 20000
LedState(v) == IF v > VOLTAGE_THRESHOLD THEN "ON" ELSE "OFF"

(***************************************************************************)
(* task_sensor: one turn of its loop.                                      *)
(***************************************************************************)
Read ==
  /\ sensor = "read"
  /\ \/ reading' = SignedCode(Bits(input)) /\ sensor' = "mailbox"
     \/ UNCHANGED reading /\ sensor' = "delay"           \* drv->read failed
  /\ UNCHANGED <<input, last_led_state, comm, commands, texts, accepted, reported, actuatorVars,
                 displayVars>>

FillOnce  == comm' = IF comm = NoData THEN reading ELSE comm
Overwrite == comm' = reading

Mailbox ==
  /\ sensor = "mailbox"
  /\ Overwrite
  /\ sensor' = "volt"
  /\ UNCHANGED <<input, reading, last_led_state, commands, texts, accepted, reported,
                 actuatorVars, displayVars>>

SendVolt ==
  /\ sensor = "volt"
  /\ SendText(reading)
  /\ sensor' = "compare"
  /\ UNCHANGED <<input, reading, last_led_state, comm, commands, accepted, reported,
                 actuatorVars, displayVars>>

\* Only a change is announced, and it counts as announced whether or not it fitted.
Compare ==
  /\ sensor = "compare"
  /\ last_led_state' = LedState(reading)
  /\ IF LedState(reading) # last_led_state
     THEN SendCommand(LedState(reading)) /\ sensor' = "status"
     ELSE UNCHANGED <<commands, accepted>> /\ sensor' = "delay"
  /\ UNCHANGED <<input, reading, comm, texts, reported, actuatorVars, displayVars>>

SendStatus ==
  /\ sensor = "status"
  /\ SendText(Status)
  /\ sensor' = "delay"
  /\ UNCHANGED <<input, reading, last_led_state, comm, commands, accepted, reported,
                 actuatorVars, displayVars>>

Delay ==
  /\ sensor = "delay"
  /\ sensor' = "read"
  /\ UNCHANGED <<input, reading, last_led_state, comm, commands, texts, accepted, reported,
                 actuatorVars, displayVars>>

TaskSensor == Read \/ Mailbox \/ SendVolt \/ Compare \/ SendStatus \/ Delay

-----------------------------------------------------------------------------
\* app_transport_command, in the MQTT client's task: "ON" or "OFF" is forwarded,
\* any other payload ignored.
RemoteCommand(c) ==
  /\ SendCommand(c)
  /\ UNCHANGED <<input, comm, texts, reported, sensorVars, actuatorVars, displayVars>>

\* update_display_status, in the task that runs an OTA update.
OtaStatus ==
  /\ SendText(Status)
  /\ UNCHANGED <<input, comm, commands, accepted, reported, sensorVars, actuatorVars, displayVars>>

\* task_network_telemetry, when connected: peek the newest sample and publish it.
Telemetry ==
  /\ comm # NoData
  /\ reported' = comm
  /\ UNCHANGED <<input, comm, commands, texts, accepted, sensorVars, actuatorVars, displayVars>>

-----------------------------------------------------------------------------
(***************************************************************************)
(* task_actuator and task_display.                                         *)
(***************************************************************************)
PeekCommand == UNCHANGED commands
TakeCommand == commands' = Tail(commands)

ReceiveCommand ==
  /\ actuator = NoData /\ commands # <<>>
  /\ actuator' = Head(commands)
  /\ TakeCommand
  /\ UNCHANGED <<input, comm, texts, accepted, reported, sensorVars, led, displayVars>>

\* dummy_output_set: gpio_set_level does not fail on a pin its init accepted.
dummy_output_set(state) == led' = state

Drive ==
  /\ actuator # NoData
  /\ dummy_output_set(actuator)
  /\ actuator' = NoData
  /\ UNCHANGED <<input, comm, commands, texts, accepted, reported, sensorVars, displayVars>>

PeekText == UNCHANGED texts
TakeText == texts' = Tail(texts)

ReceiveText ==
  /\ display = NoData /\ texts # <<>>
  /\ display' = Head(texts)
  /\ TakeText
  /\ UNCHANGED <<input, comm, commands, accepted, reported, sensorVars, actuatorVars, row0>>

Show ==
  /\ display # NoData
  /\ row0' = IF display = Status THEN row0 ELSE display
  /\ display' = NoData
  /\ UNCHANGED <<input, comm, commands, texts, accepted, reported, sensorVars, actuatorVars>>

\* show_text returned an error, which nobody looks at.
ShowFails ==
  /\ display # NoData
  /\ display' = NoData
  /\ UNCHANGED <<input, comm, commands, texts, accepted, reported, sensorVars, actuatorVars, row0>>

TaskActuator == ReceiveCommand \/ Drive

TaskDisplay == ReceiveText \/ Show \/ ShowFails

-----------------------------------------------------------------------------
Next ==
  \/ InputChanges
  \/ TaskSensor
  \/ \E c \in States : RemoteCommand(c)
  \/ OtaStatus
  \/ Telemetry
  \/ TaskActuator
  \/ TaskDisplay

\* Every task is scheduled.  Drawing is left out: the panel may take for ever.
Fairness ==
  /\ WF_vars(TaskSensor)
  /\ WF_vars(Telemetry)
  /\ WF_vars(TaskActuator)
  /\ WF_vars(ReceiveText)

Spec == Init /\ [][Next]_vars /\ Fairness

-----------------------------------------------------------------------------
(***************************************************************************)
(* Type correctness; neither queue outgrows its depth.                     *)
(***************************************************************************)
TypeOK ==
  /\ input \in Volts
  /\ sensor \in {"read", "mailbox", "volt", "compare", "status", "delay"}
  /\ reading \in Volts \union {NoData}
  /\ last_led_state \in States
  /\ comm \in Volts \union {NoData}
  /\ commands \in Seq(States) /\ Len(commands) <= ActuatorDepth
  /\ texts \in Seq(Volts \union {Status}) /\ Len(texts) <= DisplayDepth
  /\ actuator \in States \union {NoData}
  /\ led \in States
  /\ accepted \in States
  /\ display \in Volts \union {Status, NoData}
  /\ row0 \in Volts \union {NoData}
  /\ reported \in Volts \union {NoData}

(***************************************************************************)
(* The actuator's two masters share one line of command: what the sensor   *)
(* and the broker sent and the queue accepted last is what the output is   *)
(* or is going to be, so no older command overtakes it (task_actuator.c,   *)
(* main.c:180, 184).                                                       *)
(***************************************************************************)
LastCommandWins ==
  accepted = IF commands # <<>> THEN commands[Len(commands)]
             ELSE IF actuator # NoData THEN actuator
             ELSE led

(***************************************************************************)
(* The command queue and the task behind it are one line of command        *)
(* (CommandLine), with room for the queue and the command in hand: every   *)
(* accepted command reaches the pin, once and in the order of acceptance,  *)
(* whichever task it came from (task_actuator.c:27-33).                    *)
(***************************************************************************)
InHand == IF actuator = NoData THEN <<>> ELSE <<actuator>>

Line == INSTANCE CommandLine WITH
  Initial <- "OFF", Room <- ActuatorDepth + 1, pending <- InHand \o commands, output <- led

CommandsInOrder == Line!Spec

(***************************************************************************)
(* Sampling is never held up by a consumer: task_sensor starts a new turn  *)
(* for ever, even when the display has hung in a drawing (task_sensor.c:   *)
(* every send there has a zero wait).                                      *)
(***************************************************************************)
SamplingGoesOn == []<>(sensor = "read")

(***************************************************************************)
(* "A slow reader sees the newest sample instead of a backlog"             *)
(* (app_types.h:34-37): whatever telemetry reported before, once the input *)
(* is steady and can be read it reports that input and nothing older, a    *)
(* voltage just below 0 included (sensor_ads1115.c:136).                   *)
(***************************************************************************)
TelemetryCatchesUp ==
  \A v \in Volts :
    <>[](input = v) /\ []<>(sensor = "mailbox") => <>[](reported = v)

(***************************************************************************)
(* The panel catches up in spite of dropped texts: when the input is       *)
(* steady, OTA is silent and the panel still draws, row 0 ends at the      *)
(* voltage (every turn of task_sensor sends it again).                     *)
(***************************************************************************)
PanelCatchesUp ==
  \A v \in Volts :
    /\ <>[](input = v) /\ []<>(sensor = "mailbox")
    /\ <>[][~OtaStatus]_vars
    /\ []<><<Show>>_vars
    => <>[](row0 = v)

=============================================================================
