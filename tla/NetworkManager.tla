--------------------------- MODULE NetworkManager ---------------------------
(***************************************************************************)
(* main/network/network_manager.c: the WiFi station, the MQTT client and   *)
(* the two flags that tell the rest of the firmware about them.            *)
(*                                                                         *)
(* Four kinds of task meet here: the event loop's, which runs              *)
(* wifi_event_handler for each event the WiFi driver posts; the MQTT       *)
(* client's, which runs mqtt_event_handler; the publishers, which test     *)
(* s_mqtt_connected and then call the client; and, outside the board, an   *)
(* access point and a broker that come and go.  The WiFi driver, lwIP, the *)
(* client and the broker are external: modelled from how this file uses    *)
(* them.  A handler is cut at each call that another task can race with;   *)
(* what it does under s_status_mutex is one step.                          *)
(*                                                                         *)
(* A step table above WifiSteps or MqttSteps that is used nowhere is a     *)
(* mistake the handler might have made, kept to show which property        *)
(* notices it.                                                             *)
(*                                                                         *)
(* The actions are put together in module Startup, beside the rest of the  *)
(* boot, and in module HealthTopic, beside the broker's memory.            *)
(***************************************************************************)
EXTENDS Sequences, Naturals

CONSTANTS
  Publishers, \* the tasks that publish
  Health      \* the one that publishes on the health topic: the supervisor

ASSUME NetAssumption == Health \in Publishers

VARIABLES
  apUp,           \* is the access point there?
  brokerUp,       \* can the broker be reached from it?
  sta,            \* the WiFi station: "idle", "joining" or "ip"
  events,         \* events posted and not yet taken by the event loop
  handler,        \* the step wifi_event_handler takes next
  wifi_connected, \* s_wifi_connected
  mqtt_connected, \* s_mqtt_connected
  client,         \* the MQTT client: "none" before it is built, then "init", "waiting"
                  \* (to connect) or "connected"
  alive,          \* does the TCP connection of its session still carry data?
  callback,       \* the step mqtt_event_handler takes next
  subscription,   \* of the session to the command topic: "no", "yes", "refused"
  joinRefused,    \* history: esp_wifi_connect returned an error, which nothing reads
  sending,        \* publishers that have found the flag set and not yet published
  outbox          \* publishers with QoS 1 messages stored in the client

wifiVars    == <<sta, events, handler, wifi_connected>>
sessionVars == <<client, alive, callback, subscription>>
pubVars     == <<sending, outbox>>
vars == <<apUp, brokerUp, mqtt_connected, joinRefused, wifiVars, sessionVars, pubVars>>

Reachable == sta = "ip" /\ brokerUp

\* network_manager_init and network_manager_start have returned: the client is
\* built, the radio is on, and the driver has posted WIFI_EVENT_STA_START.  Module
\* Startup has the steps that lead here.
Init ==
  /\ apUp \in BOOLEAN
  /\ brokerUp \in BOOLEAN
  /\ sta = "idle"
  /\ events = <<"START">>
  /\ handler = "none"
  /\ wifi_connected = FALSE
  /\ mqtt_connected = FALSE
  /\ client = "init"
  /\ alive = FALSE
  /\ callback = "none"
  /\ subscription = "no"
  /\ joinRefused = FALSE
  /\ sending = {}
  /\ outbox = {}

-----------------------------------------------------------------------------
(***************************************************************************)
(* The weather: the router or the broker is switched off or on.            *)
(***************************************************************************)
ApSwitches ==
  /\ apUp' = ~apUp
  /\ UNCHANGED <<brokerUp, mqtt_connected, joinRefused, wifiVars, sessionVars, pubVars>>

BrokerSwitches ==
  /\ brokerUp' = ~brokerUp
  /\ UNCHANGED <<apUp, mqtt_connected, joinRefused, wifiVars, sessionVars, pubVars>>

-----------------------------------------------------------------------------
(***************************************************************************)
(* The WiFi driver (external).  It posts one event for each outcome, and   *)
(* makes no attempt that esp_wifi_connect did not ask for.                 *)
(***************************************************************************)
Joined ==
  /\ sta = "joining" /\ apUp
  /\ sta' = "ip"
  /\ events' = Append(events, "GOT_IP")
  /\ UNCHANGED <<apUp, brokerUp, handler, wifi_connected, mqtt_connected, joinRefused,
                 sessionVars, pubVars>>

JoinFails ==
  /\ sta = "joining" /\ ~apUp
  /\ sta' = "idle"
  /\ events' = Append(events, "DISCONNECTED")
  /\ UNCHANGED <<apUp, brokerUp, handler, wifi_connected, mqtt_connected, joinRefused,
                 sessionVars, pubVars>>

\* The network interface goes down with the link and takes its connections along.
LinkLost ==
  /\ sta = "ip" /\ ~apUp
  /\ sta' = "idle"
  /\ events' = Append(events, "DISCONNECTED")
  /\ alive' = FALSE
  /\ UNCHANGED <<apUp, brokerUp, handler, wifi_connected, mqtt_connected, joinRefused, client,
                 callback, subscription, pubVars>>

BrokerLost ==
  /\ alive /\ ~brokerUp
  /\ alive' = FALSE
  /\ UNCHANGED <<apUp, brokerUp, mqtt_connected, joinRefused, wifiVars, client, callback,
                 subscription, pubVars>>

-----------------------------------------------------------------------------
(***************************************************************************)
(* wifi_event_handler, in the event loop's task: for each event the steps  *)
(* it takes, in order.  After a drop both flags are cleared, under the     *)
(* mutex, before the reconnection is asked for.                            *)
(***************************************************************************)
JoinThenClear ==
  [START |-> "join", GOT_IP |-> "flag", flag |-> "start", start |-> "none",
   DISCONNECTED |-> "join", join |-> "clear", clear |-> "none"]
NoRejoin ==
  [START |-> "join", GOT_IP |-> "flag", flag |-> "start", start |-> "none",
   DISCONNECTED |-> "clear", clear |-> "none", join |-> "none"]
NeverStarts ==
  [START |-> "join", GOT_IP |-> "flag", flag |-> "none", start |-> "none",
   DISCONNECTED |-> "clear", clear |-> "join", join |-> "none"]
RejoinsOnIp ==
  [START |-> "join", GOT_IP |-> "flag", flag |-> "start", start |-> "join",
   DISCONNECTED |-> "clear", clear |-> "join", join |-> "none"]
WifiSteps ==
  [START |-> "join", GOT_IP |-> "flag", flag |-> "start", start |-> "none",
   DISCONNECTED |-> "clear", clear |-> "join", join |-> "none"]

OnWifiEvent ==
  /\ handler = "none" /\ events # <<>>
  /\ events' = Tail(events)
  /\ handler' = WifiSteps[Head(events)]
  /\ UNCHANGED <<apUp, brokerUp, sta, wifi_connected, mqtt_connected, joinRefused, sessionVars,
                 pubVars>>

ClearBoth ==
  /\ handler = "clear"
  /\ wifi_connected' = FALSE
  /\ mqtt_connected' = FALSE
  /\ handler' = WifiSteps["clear"]
  /\ UNCHANGED <<apUp, brokerUp, sta, events, joinRefused, sessionVars, pubVars>>

\* esp_wifi_connect: its result is not looked at.
Join ==
  /\ handler = "join"
  /\ handler' = WifiSteps["join"]
  /\ \/ sta' = "joining" /\ UNCHANGED joinRefused
     \/ UNCHANGED sta /\ joinRefused' = TRUE
  /\ UNCHANGED <<apUp, brokerUp, events, wifi_connected, mqtt_connected, sessionVars, pubVars>>

SetWifi ==
  /\ handler = "flag"
  /\ wifi_connected' = TRUE
  /\ handler' = WifiSteps["flag"]
  /\ UNCHANGED <<apUp, brokerUp, sta, events, mqtt_connected, joinRefused, sessionVars, pubVars>>

\* esp_mqtt_client_start, if there is a client: an error without effect on one
\* already started.
StartClient ==
  /\ handler = "start"
  /\ handler' = WifiSteps["start"]
  /\ client' = IF client = "init" THEN "waiting" ELSE client
  /\ UNCHANGED <<apUp, brokerUp, sta, events, wifi_connected, mqtt_connected, joinRefused, alive,
                 callback, subscription, pubVars>>

-----------------------------------------------------------------------------
(***************************************************************************)
(* The MQTT client's task (external) and mqtt_event_handler, which it runs *)
(* to the end before it does anything else.  Sessions are clean: a new one *)
(* has no subscriptions, and the broker ends the one it replaces.          *)
(***************************************************************************)
DeafHandler ==
  [CONNECTED |-> "set", set |-> "none", subscribe |-> "none",
   DISCONNECTED |-> "clear", clear |-> "none"]
IgnoresTheEnd ==
  [CONNECTED |-> "set", set |-> "subscribe", subscribe |-> "none",
   DISCONNECTED |-> "none", clear |-> "none"]
MqttSteps ==
  [CONNECTED |-> "set", set |-> "subscribe", subscribe |-> "none",
   DISCONNECTED |-> "clear", clear |-> "none"]

SessionOpens ==
  /\ client = "waiting" /\ callback = "none" /\ Reachable
  /\ client' = "connected"
  /\ alive' = TRUE
  /\ subscription' = "no"
  /\ callback' = MqttSteps["CONNECTED"]
  /\ UNCHANGED <<apUp, brokerUp, mqtt_connected, joinRefused, wifiVars, pubVars>>

\* A failed attempt is reported like the end of a session.
SessionRefused ==
  /\ client = "waiting" /\ callback = "none" /\ ~Reachable
  /\ callback' = MqttSteps["DISCONNECTED"]
  /\ UNCHANGED <<apUp, brokerUp, mqtt_connected, joinRefused, wifiVars, client, alive,
                 subscription, pubVars>>

SessionEnds ==
  /\ client = "connected" /\ callback = "none" /\ ~alive
  /\ client' = "waiting"
  /\ subscription' = "no"
  /\ callback' = MqttSteps["DISCONNECTED"]
  /\ UNCHANGED <<apUp, brokerUp, mqtt_connected, joinRefused, wifiVars, alive, pubVars>>

\* MQTT_EVENT_CONNECTED sets the flag under the mutex, and MQTT_EVENT_DISCONNECTED
\* clears it.
SetMqtt ==
  /\ callback \in {"set", "clear"}
  /\ mqtt_connected' = (callback = "set")
  /\ callback' = MqttSteps[callback]
  /\ UNCHANGED <<apUp, brokerUp, joinRefused, wifiVars, client, alive, subscription, pubVars>>

\* esp_mqtt_client_subscribe: its result is only logged.
Subscribe ==
  /\ callback = "subscribe"
  /\ subscription' \in {"yes", "refused"}
  /\ callback' = MqttSteps["subscribe"]
  /\ UNCHANGED <<apUp, brokerUp, mqtt_connected, joinRefused, wifiVars, client, alive, pubVars>>

-----------------------------------------------------------------------------
(***************************************************************************)
(* The publishers: task_network_telemetry (which reads the flag under the  *)
(* mutex), network_manager_publish and network_manager_publish_health      *)
(* (which do not).  Between the test and the call the session may end: the *)
(* client then stores the message, which is QoS 1, for the next one.       *)
(***************************************************************************)
FindsConnected(p) ==
  /\ p \notin sending /\ mqtt_connected
  /\ sending' = sending \union {p}
  /\ UNCHANGED <<apUp, brokerUp, mqtt_connected, joinRefused, wifiVars, sessionVars, outbox>>

NetworkUnchanged ==
  UNCHANGED <<apUp, brokerUp, mqtt_connected, joinRefused, wifiVars, sessionVars>>

Sent(p) ==
  /\ p \in sending /\ client = "connected" /\ alive
  /\ sending' = sending \ {p}
  /\ NetworkUnchanged /\ UNCHANGED outbox

Stored(p) ==
  /\ p \in sending /\ ~alive
  /\ sending' = sending \ {p}
  /\ outbox' = outbox \union {p}
  /\ NetworkUnchanged

\* The client is out of memory.
NotTaken(p) ==
  /\ p \in sending
  /\ sending' = sending \ {p}
  /\ NetworkUnchanged /\ UNCHANGED outbox

Publish(p) == Sent(p) \/ Stored(p) \/ NotTaken(p)

\* The client's task sends what it has stored (external).
Resend(p) ==
  /\ p \in outbox /\ client = "connected" /\ alive
  /\ outbox' = outbox \ {p}
  /\ NetworkUnchanged /\ UNCHANGED sending

-----------------------------------------------------------------------------
WifiDriver == Joined \/ JoinFails \/ LinkLost
EventLoop  == OnWifiEvent \/ ClearBoth \/ Join \/ SetWifi \/ StartClient
MqttTask   == SessionOpens \/ SessionRefused \/ SessionEnds \/ SetMqtt \/ Subscribe

Weather    == ApSwitches \/ BrokerSwitches \/ BrokerLost

\* The tasks and the driver go on; nothing says the weather ever changes.
Fairness ==
  /\ WF_vars(WifiDriver) /\ WF_vars(EventLoop) /\ WF_vars(MqttTask)
  /\ \A p \in Publishers : WF_vars(Publish(p)) /\ WF_vars(Resend(p))

-----------------------------------------------------------------------------
(***************************************************************************)
(* Type correctness.  The event queue holds at most the address and the    *)
(* loss of one attempt: the driver makes one attempt per request.          *)
(***************************************************************************)
TypeOK ==
  /\ apUp \in BOOLEAN /\ brokerUp \in BOOLEAN /\ alive \in BOOLEAN
  /\ wifi_connected \in BOOLEAN /\ mqtt_connected \in BOOLEAN /\ joinRefused \in BOOLEAN
  /\ sta \in {"idle", "joining", "ip"}
  /\ events \in {<<>>, <<"START">>, <<"GOT_IP">>, <<"DISCONNECTED">>, <<"GOT_IP", "DISCONNECTED">>}
  /\ handler \in {"none", "clear", "join", "flag", "start"}
  /\ client \in {"none", "init", "waiting", "connected"}
  /\ callback \in {"none", "set", "subscribe", "clear"}
  /\ subscription \in {"no", "yes", "refused"}
  /\ sending \subseteq Publishers
  /\ outbox \subseteq Publishers

(***************************************************************************)
(* The firmware never publishes as if connected without a session to       *)
(* account for: while s_mqtt_connected is set, the client has a session or *)
(* is about to clear the flag (network_manager.c:114-119).                 *)
(***************************************************************************)
FlagHasSession ==
  mqtt_connected => client = "connected" \/ callback = "clear"

(***************************************************************************)
(* A working session is never hidden and never deaf: whatever order the    *)
(* two event tasks run in, a session that carries data and whose handler   *)
(* has finished is seen as connected and has asked for the command topic.  *)
(* It would otherwise stay hidden, since the client reports a session once *)
(* (network_manager.c:62-68 against 102-111; "subscribed on connect",      *)
(* network_manager.h:14).                                                  *)
(***************************************************************************)
SessionIsSeen ==
  client = "connected" /\ alive /\ callback = "none" =>
    mqtt_connected /\ subscription \in {"yes", "refused"}

=============================================================================
