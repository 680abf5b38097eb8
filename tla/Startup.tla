------------------------------ MODULE Startup ------------------------------
(***************************************************************************)
(* The second half of app_main (main.c:241-374), from the queues to the    *)
(* last task, while what it has started already runs: from esp_wifi_start  *)
(* on the event loop's task, the MQTT client's and the telemetry task are  *)
(* at work, and from the registration of the sink the log forwarder is.    *)
(* The board may restart at any moment; the access point and the broker    *)
(* stay.                                                                   *)
(*                                                                         *)
(* An order that stands above app_main and is used nowhere is a mistake it *)
(* might have made, kept to show which property notices it.                *)
(***************************************************************************)
EXTENDS NetworkManager, StatusLed

CONSTANTS
  Telemetry, \* task_network_telemetry
  Forwarder  \* task_log_forwarder

ASSUME StartupAssumption ==
  /\ Publishers = {Health, Telemetry, Forwarder}
  /\ Health # Telemetry /\ Health # Forwarder /\ Telemetry # Forwarder

VARIABLES
  at,     \* the number of the step app_main takes next
  missing \* tasks that could not be created, which nobody noticed

mainVars  == <<at, missing>>
boardVars == <<vars, ledVars, mainVars>>

-----------------------------------------------------------------------------
(***************************************************************************)
(* The steps and their order: the queues; the drivers; the steps of        *)
(* transport_mqtt_init, those of network_manager_init and _start among     *)
(* them; the topic and the sink of the log; the supervisor; the tasks.     *)
(***************************************************************************)
RadioFirst ==
  [queues |-> 1, sensor |-> 2, actuator |-> 3, led |-> 4, panel |-> 5, callback |-> 6,
   mutex |-> 7, stack |-> 8, handlers |-> 9, topics |-> 11, client |-> 12, mqtt_events |-> 13,
   radio |-> 10, telemetry |-> 14, log_topic |-> 15, sink |-> 16, supervisor |-> 17,
   tasks |-> 18, status |-> 19]
SinkBeforeTopic ==
  [queues |-> 1, sensor |-> 2, actuator |-> 3, led |-> 4, panel |-> 5, callback |-> 6,
   mutex |-> 7, stack |-> 8, handlers |-> 9, topics |-> 10, client |-> 11, mqtt_events |-> 12,
   radio |-> 13, telemetry |-> 14, log_topic |-> 16, sink |-> 15, supervisor |-> 17,
   tasks |-> 18, status |-> 19]
StatusBeforeSupervisor ==
  [queues |-> 1, sensor |-> 2, actuator |-> 3, led |-> 4, panel |-> 5, callback |-> 6,
   mutex |-> 7, stack |-> 8, handlers |-> 9, topics |-> 10, client |-> 11, mqtt_events |-> 12,
   radio |-> 13, telemetry |-> 14, log_topic |-> 15, sink |-> 16, supervisor |-> 18,
   tasks |-> 19, status |-> 17]
app_main ==
  [queues |-> 1, sensor |-> 2, actuator |-> 3, led |-> 4, panel |-> 5, callback |-> 6,
   mutex |-> 7, stack |-> 8, handlers |-> 9, topics |-> 10, client |-> 11, mqtt_events |-> 12,
   radio |-> 13, telemetry |-> 14, log_topic |-> 15, sink |-> 16, supervisor |-> 17,
   tasks |-> 18, status |-> 19]

Steps == DOMAIN app_main
Done  == 20

\* The result of xTaskCreate is not looked at in these: the task may not exist.
Unchecked == {"tasks", "status"}

Made(step) == app_main[step] < at /\ step \notin missing

SysInit ==
  /\ apUp \in BOOLEAN /\ brokerUp \in BOOLEAN
  /\ sta = "idle" /\ events = <<>> /\ handler = "none"
  /\ wifi_connected = FALSE /\ mqtt_connected = FALSE
  /\ client = "none" /\ alive = FALSE /\ callback = "none" /\ subscription = "no"
  /\ joinRefused = FALSE
  /\ sending = {} /\ outbox = {}
  /\ LedInit
  /\ at = 1 /\ missing = {}

-----------------------------------------------------------------------------
Reaches(step) == at = app_main[step] /\ at' = at + 1

\* What these steps make is told by at alone.
PlainStep ==
  /\ \E s \in Steps \ {"led", "client", "radio", "tasks", "status"} : Reaches(s)
  /\ UNCHANGED <<vars, ledVars, missing>>

InitLed == Reaches("led") /\ status_led_init /\ UNCHANGED <<vars, missing>>

\* esp_mqtt_client_init.
BuildClient ==
  /\ Reaches("client")
  /\ client' = "init"
  /\ UNCHANGED <<apUp, brokerUp, mqtt_connected, joinRefused, wifiVars, alive, callback,
                 subscription, pubVars, ledVars, missing>>

\* esp_wifi_start: the driver posts WIFI_EVENT_STA_START.
StartRadio ==
  /\ Reaches("radio")
  /\ events' = Append(events, "START")
  /\ UNCHANGED <<apUp, brokerUp, mqtt_connected, joinRefused, sta, handler, wifi_connected,
                 sessionVars, pubVars, ledVars, missing>>

SpawnTasks == Reaches("tasks") /\ UNCHANGED <<vars, ledVars, missing>>

SpawnStatus == Reaches("status") /\ task_status_created /\ UNCHANGED <<vars, missing>>

SpawnFails ==
  /\ \E s \in Unchecked : Reaches(s) /\ missing' = missing \union {s}
  /\ UNCHANGED <<vars, ledVars>>

AppMain ==
  PlainStep \/ InitLed \/ BuildClient \/ StartRadio \/ SpawnTasks \/ SpawnStatus \/ SpawnFails

\* A step fails and ESP_ERROR_CHECK aborts, the watchdog or an update restarts the
\* chip, or the power does: all but the world outside is as after a reset.
Restart ==
  /\ sta' = "idle" /\ events' = <<>> /\ handler' = "none"
  /\ wifi_connected' = FALSE /\ mqtt_connected' = FALSE
  /\ client' = "none" /\ alive' = FALSE /\ callback' = "none" /\ subscription' = "no"
  /\ joinRefused' = FALSE
  /\ sending' = {} /\ outbox' = {}
  /\ LedReset
  /\ at' = 1 /\ missing' = {}
  /\ UNCHANGED <<apUp, brokerUp>>

-----------------------------------------------------------------------------
(***************************************************************************)
(* What runs beside app_main.  A publisher is at work once its step is     *)
(* made: the supervisor's task, the telemetry task, and the log forwarder, *)
(* which has waited since system_log_init for a sink to call.              *)
(***************************************************************************)
RunsFrom(p) ==
  CASE p = Health -> "tasks" [] p = Telemetry -> "telemetry" [] p = Forwarder -> "sink"

Network ==
  /\ \/ Weather \/ WifiDriver \/ EventLoop \/ MqttTask
     \/ \E p \in Publishers : (Made(RunsFrom(p)) /\ FindsConnected(p)) \/ Publish(p) \/ Resend(p)
  /\ UNCHANGED <<ledVars, mainVars>>

Blink == task_status /\ UNCHANGED <<vars, mainVars>>

SysNext == AppMain \/ Restart \/ Network \/ Blink

\* app_main and the tasks go on; restarts and the weather are nobody's duty.
SysFairness == WF_boardVars(AppMain) /\ Fairness

SysSpec == SysInit /\ [][SysNext]_boardVars /\ SysFairness

-----------------------------------------------------------------------------
(***************************************************************************)
(* Type correctness of everything above, the network's variables included. *)
(***************************************************************************)
SysTypeOK == TypeOK /\ LedTypeOK /\ at \in 1 .. Done /\ missing \subseteq Unchecked

(***************************************************************************)
(* No task meets a thing app_main has not made yet, in whatever order the  *)
(* access point, the broker and the tasks are ready: the handlers find     *)
(* their mutex, the client and the topics, a command its callback and its  *)
(* queue, and each publisher its topic and its data (main.c:241-357).      *)
(***************************************************************************)
Needs(p) ==
  CASE p = Health    -> {"topics", "client", "supervisor"}
    [] p = Telemetry -> {"queues", "mutex", "topics", "client"}
    [] p = Forwarder -> {"mutex", "client", "log_topic"}

CommandMayArrive == client = "connected" /\ alive /\ subscription = "yes"

NothingUsedEarly ==
  /\ handler # "none" => Made("mutex") /\ Made("handlers") /\ Made("client")
  /\ callback # "none" => Made("mutex") /\ Made("topics") /\ Made("mqtt_events")
  /\ CommandMayArrive => Made("callback") /\ Made("queues")
  /\ \A p \in sending : \A s \in Needs(p) : Made(s)

(***************************************************************************)
(* "The heartbeat starting at all is the signal that the flash succeeded:  *)
(* [task_status] only ever runs once every driver init returned ESP_OK"    *)
(* (task_status.c:9-11): a lit LED tells that every step that can restart  *)
(* the board is behind.  The driver's own state agrees with the pin.       *)
(***************************************************************************)
LedMeansBooted ==
  /\ Lit => \A s \in Steps \ Unchecked : Made(s)
  /\ Lit <=> s_channel_state

(***************************************************************************)
(* The inductive invariant.  Until the radio is on nothing of the network  *)
(* moves.  Of the radio's last attempt the event loop has still what       *)
(* RadioAndEvents says, so a session carries data only while no handler is *)
(* about to clear the flags; and the client's own handler runs in step     *)
(* with the client.                                                        *)
(***************************************************************************)
BootInStep ==
  /\ at <= app_main["radio"] =>
       sta = "idle" /\ events = <<>> /\ handler = "none" /\ client \in {"none", "init"}
  /\ client = "none" <=> at <= app_main["client"]
  /\ client \in {"none", "init"} =>
       ~alive /\ callback = "none" /\ ~mqtt_connected /\ subscription = "no"
  /\ \A p \in sending : Made(RunsFrom(p))

RadioAndEvents ==
  /\ sta = "joining" => events = <<>> /\ handler = "none"
  /\ sta = "ip" => \/ events = <<"GOT_IP">> /\ handler = "none"
                   \/ events = <<>> /\ handler \in {"none", "flag", "start"}
  /\ sta = "idle" => \/ events = <<>> /\ handler \in {"none", "clear", "join"}
                     \/ events \in {<<"START">>, <<"GOT_IP", "DISCONNECTED">>} /\ handler = "none"
                     \/ events = <<"DISCONNECTED">> /\ handler \in {"none", "flag", "start"}

ClientAndHandler ==
  /\ alive => sta = "ip" /\ client = "connected"
  /\ callback \in {"set", "subscribe"} => client = "connected"
  /\ callback = "clear" => client = "waiting"
  /\ callback = "subscribe" /\ alive => mqtt_connected

LedInStep ==
  /\ s_is_initialized <=> app_main["led"] < at
  /\ blink # "none" => at = Done
  /\ s_channel_state => blink # "none"
  /\ s_channel_state <=> Lit

IInv ==
  /\ SysTypeOK /\ FlagHasSession /\ SessionIsSeen
  /\ BootInStep /\ RadioAndEvents /\ ClientAndHandler /\ LedInStep

(***************************************************************************)
(* However often the board restarted, and at whichever step: once restarts *)
(* and outages end it is connected to stay, although the broker may still  *)
(* hold the session of before, and delivers what its client has stored.    *)
(***************************************************************************)
Recovers ==
  <>[](apUp /\ brokerUp) /\ <>[]~joinRefused /\ <>[][~Restart]_boardVars
    => <>[](mqtt_connected /\ outbox = {})

=============================================================================
