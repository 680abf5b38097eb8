--------------------------- MODULE StartupProofs ---------------------------
(***************************************************************************)
(* Proofs about Startup: for any names of the publishers, any number of    *)
(* restarts and outages, and every interleaving of app_main, the event     *)
(* loop, the client's task and the publishers.                             *)
(***************************************************************************)
EXTENDS Startup, TLAPS, SequenceTheorems

(***************************************************************************)
(* The numbers of the steps that matter, and that no checked step comes    *)
(* after the last one.                                                     *)
(***************************************************************************)
LEMMA StepNumbers ==
  /\ app_main["client"] = 11 /\ app_main["radio"] = 13 /\ app_main["led"] = 4
  /\ app_main["telemetry"] = 14 /\ app_main["sink"] = 16
  /\ app_main["tasks"] = 18 /\ app_main["status"] = 19
  /\ app_main["queues"] = 1 /\ app_main["callback"] = 6 /\ app_main["mutex"] = 7
  /\ app_main["handlers"] = 9 /\ app_main["topics"] = 10 /\ app_main["mqtt_events"] = 12
  /\ app_main["log_topic"] = 15 /\ app_main["supervisor"] = 17
  /\ \A s \in Steps : app_main[s] \in 1 .. 19
BY DEF app_main, Steps

(***************************************************************************)
(* The event queue's few values under Append, Head and Tail.               *)
(***************************************************************************)
LEMMA AppendToOne ==
  ASSUME NEW e, NEW f
  PROVE  Append(<<e>>, f) = <<e, f>>
<1> DEFINE s == Append(<<e>>, f)
           t == <<e, f>>
           S == {e, f}
<1>1. s \in Seq(S) /\ Len(s) = 2 /\ s[1] = e /\ s[2] = f
  <2>1. <<e>> \in Seq(S) /\ Len(<<e>>) = 1 /\ <<e>>[1] = e
    OBVIOUS
  <2>2. QED
    BY <2>1, AppendProperties
<1>2. t \in Seq(S) /\ Len(t) = 2 /\ t[1] = e /\ t[2] = f
  OBVIOUS
<1>3. \A i \in 1 .. Len(s) : s[i] = t[i]
  BY <1>1, <1>2
<1> HIDE DEF s, t, S
<1>4. s = t
  BY <1>1, <1>2, <1>3, SeqEqual
<1>5. QED
  BY <1>4 DEF s, t

LEMMA HeadTail ==
  ASSUME NEW e, NEW f
  PROVE  /\ Append(<<>>, e) = <<e>> /\ Head(<<e>>) = e /\ Tail(<<e>>) = <<>>
         /\ Head(<<e, f>>) = e /\ Tail(<<e, f>>) = <<f>>
<1>1. Append(<<>>, e) = <<e>>
  OBVIOUS
<1>2. Head(<<e>>) = e /\ Head(<<e, f>>) = e
  OBVIOUS
<1>3. Tail(<<e>>) = <<>>
  OBVIOUS
<1>4. Tail(<<e, f>>) = <<f>>
  OBVIOUS
<1>5. QED
  BY <1>1, <1>2, <1>3, <1>4

LEMMA EventQueue ==
  /\ Append(<<>>, "START") = <<"START">>
  /\ Append(<<>>, "GOT_IP") = <<"GOT_IP">>
  /\ Append(<<>>, "DISCONNECTED") = <<"DISCONNECTED">>
  /\ Append(<<"GOT_IP">>, "DISCONNECTED") = <<"GOT_IP", "DISCONNECTED">>
  /\ Head(<<"START">>) = "START" /\ Tail(<<"START">>) = <<>>
  /\ Head(<<"GOT_IP">>) = "GOT_IP" /\ Tail(<<"GOT_IP">>) = <<>>
  /\ Head(<<"DISCONNECTED">>) = "DISCONNECTED" /\ Tail(<<"DISCONNECTED">>) = <<>>
  /\ Head(<<"GOT_IP", "DISCONNECTED">>) = "GOT_IP"
  /\ Tail(<<"GOT_IP", "DISCONNECTED">>) = <<"DISCONNECTED">>
BY AppendToOne, HeadTail, Zenon

(***************************************************************************)
(* What the handlers do after each of their steps.                         *)
(***************************************************************************)
LEMMA HandlerSteps ==
  /\ WifiSteps["START"] = "join" /\ WifiSteps["GOT_IP"] = "flag"
  /\ WifiSteps["DISCONNECTED"] = "clear" /\ WifiSteps["flag"] = "start"
  /\ WifiSteps["start"] = "none" /\ WifiSteps["clear"] = "join" /\ WifiSteps["join"] = "none"
  /\ MqttSteps["CONNECTED"] = "set" /\ MqttSteps["set"] = "subscribe"
  /\ MqttSteps["subscribe"] = "none"
  /\ MqttSteps["DISCONNECTED"] = "clear" /\ MqttSteps["clear"] = "none"
BY DEF WifiSteps, MqttSteps

-----------------------------------------------------------------------------
(***************************************************************************)
(* The initial states satisfy the invariant.                               *)
(***************************************************************************)
LEMMA InvInit == SysInit => IInv
<1> SUFFICES ASSUME SysInit PROVE IInv
  OBVIOUS
<1>1. SysTypeOK
  <2>1. TypeOK
    BY DEF SysInit, TypeOK
  <2>2. LedTypeOK
    BY DEF SysInit, LedInit, LedTypeOK
  <2>3. at \in 1 .. Done /\ missing \subseteq Unchecked
    BY DEF SysInit, Done
  <2>4. QED
    BY <2>1, <2>2, <2>3 DEF SysTypeOK
<1>2. BootInStep
  BY StepNumbers DEF SysInit, BootInStep
<1>3. LedInStep
  BY StepNumbers DEF SysInit, LedInit, LedInStep, Lit, status_led_level, active_low
<1>4. FlagHasSession /\ SessionIsSeen /\ RadioAndEvents /\ ClientAndHandler
  BY DEF SysInit, FlagHasSession, SessionIsSeen, RadioAndEvents, ClientAndHandler
<1>5. QED
  BY <1>1, <1>2, <1>3, <1>4 DEF IInv

(***************************************************************************)
(* A step of the radio or of the event loop keeps their variables in step. *)
(***************************************************************************)
LEMMA RadioStep ==
  ASSUME TypeOK, RadioAndEvents, WifiDriver \/ EventLoop
  PROVE  RadioAndEvents' /\ sta' \in {"idle", "joining", "ip"}
<1> USE DEF TypeOK, RadioAndEvents
<1>1. CASE Joined
  BY <1>1, EventQueue DEF Joined
<1>2. CASE JoinFails
  BY <1>2, EventQueue DEF JoinFails
<1>3. CASE LinkLost
  BY <1>3, EventQueue DEF LinkLost
<1>4. CASE OnWifiEvent
  <2>1. /\ events \in {<<"START">>, <<"GOT_IP">>, <<"DISCONNECTED">>, <<"GOT_IP", "DISCONNECTED">>}
        /\ events' = Tail(events) /\ handler' = WifiSteps[Head(events)] /\ sta' = sta
        /\ handler = "none"
    BY <1>4 DEF OnWifiEvent, wifiVars
  <2>2. CASE events = <<"START">>
    BY <2>1, <2>2, EventQueue, HandlerSteps
  <2>3. CASE events = <<"GOT_IP">>
    BY <2>1, <2>3, EventQueue, HandlerSteps
  <2>4. CASE events = <<"DISCONNECTED">>
    BY <2>1, <2>4, EventQueue, HandlerSteps
  <2>5. CASE events = <<"GOT_IP", "DISCONNECTED">>
    BY <2>1, <2>5, EventQueue, HandlerSteps
  <2>6. QED
    BY <2>1, <2>2, <2>3, <2>4, <2>5
<1>5. CASE ClearBoth
  BY <1>5, HandlerSteps DEF ClearBoth
<1>6. CASE Join
  BY <1>6, HandlerSteps DEF Join
<1>7. CASE SetWifi
  BY <1>7, HandlerSteps DEF SetWifi
<1>8. CASE StartClient
  BY <1>8, HandlerSteps DEF StartClient
<1>9. QED
  BY <1>1, <1>2, <1>3, <1>4, <1>5, <1>6, <1>7, <1>8 DEF WifiDriver, EventLoop

(***************************************************************************)
(* Their steps keep everything's type.                                     *)
(***************************************************************************)
LEMMA RadioTypes ==
  ASSUME TypeOK, RadioAndEvents, WifiDriver \/ EventLoop
  PROVE  TypeOK'
<1>1. /\ sta' \in {"idle", "joining", "ip"}
      /\ events' \in {<<>>, <<"START">>, <<"GOT_IP">>, <<"DISCONNECTED">>, <<"GOT_IP", "DISCONNECTED">>}
      /\ handler' \in {"none", "clear", "join", "flag", "start"}
  BY RadioStep DEF RadioAndEvents
<1>2. /\ apUp' \in BOOLEAN /\ brokerUp' \in BOOLEAN /\ alive' \in BOOLEAN
      /\ wifi_connected' \in BOOLEAN /\ mqtt_connected' \in BOOLEAN /\ joinRefused' \in BOOLEAN
      /\ client' \in {"none", "init", "waiting", "connected"}
      /\ callback' = callback /\ subscription' = subscription
      /\ sending' = sending /\ outbox' = outbox
  BY DEF WifiDriver, EventLoop, Joined, JoinFails, LinkLost, OnWifiEvent, ClearBoth, Join, SetWifi,
         StartClient, TypeOK, sessionVars, pubVars, wifiVars
<1>3. QED
  BY <1>1, <1>2 DEF TypeOK

(***************************************************************************)
(* A session is seen and never announced without being there, whatever the *)
(* radio and the event loop do.                                            *)
(***************************************************************************)
Session == FlagHasSession /\ SessionIsSeen /\ ClientAndHandler

LEMMA RadioSession ==
  ASSUME TypeOK, RadioAndEvents, Session, WifiDriver \/ EventLoop
  PROVE  Session'
<1> USE DEF TypeOK, Session, FlagHasSession, SessionIsSeen, ClientAndHandler, sessionVars, wifiVars,
            pubVars
<1>1. CASE Joined \/ JoinFails
  BY <1>1 DEF Joined, JoinFails
<1>2. CASE LinkLost
  BY <1>2 DEF LinkLost
<1>3. CASE OnWifiEvent
  BY <1>3 DEF OnWifiEvent
<1>4. CASE ClearBoth
  BY <1>4 DEF ClearBoth, RadioAndEvents
<1>5. CASE Join
  BY <1>5 DEF Join, RadioAndEvents
<1>6. CASE SetWifi
  BY <1>6 DEF SetWifi
<1>7. CASE StartClient
  BY <1>7 DEF StartClient
<1>8. QED
  BY <1>1, <1>2, <1>3, <1>4, <1>5, <1>6, <1>7 DEF WifiDriver, EventLoop

LEMMA MqttSession ==
  ASSUME TypeOK, Session, MqttTask \/ BrokerLost
  PROVE  Session' /\ TypeOK' /\ UNCHANGED <<sta, events, handler>>
<1> USE HandlerSteps
    DEF TypeOK, Session, FlagHasSession, SessionIsSeen, ClientAndHandler, sessionVars, wifiVars,
        pubVars
<1>1. CASE SessionOpens
  BY <1>1 DEF SessionOpens, Reachable
<1>2. CASE SessionRefused
  BY <1>2 DEF SessionRefused
<1>3. CASE SessionEnds
  BY <1>3 DEF SessionEnds
<1>4. CASE SetMqtt
  BY <1>4 DEF SetMqtt
<1>5. CASE Subscribe
  BY <1>5 DEF Subscribe
<1>6. CASE BrokerLost
  BY <1>6 DEF BrokerLost
<1>7. QED
  BY <1>1, <1>2, <1>3, <1>4, <1>5, <1>6 DEF MqttTask

(***************************************************************************)
(* Before the radio is on, neither it nor the client's task takes a step;  *)
(* afterwards a client that has not been started says nothing.             *)
(***************************************************************************)
LEMMA NotBeforeRadio ==
  ASSUME BootInStep, WifiDriver \/ EventLoop \/ MqttTask \/ BrokerLost
  PROVE  ~(at <= app_main["radio"])
<1> SUFFICES ASSUME at <= app_main["radio"] PROVE FALSE
  OBVIOUS
<1>1. /\ sta = "idle" /\ events = <<>> /\ handler = "none" /\ client \in {"none", "init"}
      /\ callback = "none" /\ ~alive
  BY DEF BootInStep
<1>2. QED
  BY <1>1 DEF WifiDriver, EventLoop, MqttTask, BrokerLost, Joined, JoinFails, LinkLost, OnWifiEvent,
              ClearBoth, Join, SetWifi, StartClient, SessionOpens, SessionRefused, SessionEnds,
              SetMqtt, Subscribe

LEMMA BootNetwork ==
  ASSUME SysTypeOK, BootInStep, WifiDriver \/ EventLoop \/ MqttTask \/ BrokerLost,
         UNCHANGED mainVars
  PROVE  BootInStep'
<1>1. ~(at <= app_main["radio"]) /\ ~(at <= app_main["client"])
  BY NotBeforeRadio, StepNumbers DEF SysTypeOK, Done
<1>2. client' # "none" /\ sending' = sending
  BY <1>1 DEF BootInStep, WifiDriver, EventLoop, MqttTask, BrokerLost, Joined, JoinFails, LinkLost,
              OnWifiEvent, ClearBoth, Join, SetWifi, StartClient, SessionOpens, SessionRefused,
              SessionEnds, SetMqtt, Subscribe, sessionVars, pubVars
<1>3. client' = "init" => /\ client = "init" /\ callback' = "none" /\ ~alive'
                          /\ ~mqtt_connected' /\ subscription' = "no"
  BY <1>1 DEF BootInStep, WifiDriver, EventLoop, MqttTask, BrokerLost, Joined, JoinFails, LinkLost,
              OnWifiEvent, ClearBoth, Join, SetWifi, StartClient, SessionOpens, SessionRefused,
              SessionEnds, SetMqtt, Subscribe, sessionVars
<1>4. at' = at /\ missing' = missing
  BY DEF mainVars
<1>5. \A p \in sending' : Made(RunsFrom(p))'
  BY <1>2, <1>4 DEF BootInStep, Made, RunsFrom
<1>6. QED
  BY <1>1, <1>2, <1>3, <1>4, <1>5 DEF BootInStep

(***************************************************************************)
(* The publishers change only what is theirs, and start once their step of *)
(* app_main is made.                                                       *)
(***************************************************************************)
LEMMA PublisherStep ==
  ASSUME IInv, UNCHANGED <<ledVars, mainVars>>,
         NEW p \in Publishers,
         (Made(RunsFrom(p)) /\ FindsConnected(p)) \/ Publish(p) \/ Resend(p)
  PROVE  IInv'
<1>1. /\ UNCHANGED <<apUp, brokerUp, mqtt_connected, joinRefused, wifiVars, sessionVars>>
      /\ sending' \subseteq Publishers /\ outbox' \subseteq Publishers
      /\ sending' \subseteq sending \/ (sending' = sending \union {p} /\ Made(RunsFrom(p)))
  BY DEF FindsConnected, Publish, Sent, Stored, NotTaken, Resend, NetworkUnchanged, IInv, SysTypeOK,
         TypeOK
<1>2. at' = at /\ missing' = missing /\ UNCHANGED ledVars
  BY DEF mainVars
<1>3. SysTypeOK'
  BY <1>1, <1>2 DEF IInv, SysTypeOK, TypeOK, LedTypeOK, wifiVars, sessionVars, ledVars
<1>4. \A q \in sending' : Made(RunsFrom(q))'
  <2>1. \A q \in sending' : Made(RunsFrom(q))
    BY <1>1 DEF IInv, BootInStep
  <2>2. QED
    BY <1>2, <2>1 DEF Made, RunsFrom
<1>5. BootInStep'
  BY <1>1, <1>2, <1>4 DEF IInv, BootInStep, wifiVars, sessionVars
<1>6. FlagHasSession' /\ SessionIsSeen' /\ RadioAndEvents' /\ ClientAndHandler'
  BY <1>1 DEF IInv, FlagHasSession, SessionIsSeen, RadioAndEvents, ClientAndHandler, wifiVars,
              sessionVars
<1>7. LedInStep'
  BY <1>2 DEF IInv, LedInStep, ledVars, Lit, status_led_level, active_low
<1>8. QED
  BY <1>3, <1>5, <1>6, <1>7 DEF IInv

LEMMA NetworkNext ==
  ASSUME IInv, Network
  PROVE  IInv'
<1>1. UNCHANGED <<ledVars, mainVars>>
  BY DEF Network
<1>2. LedInStep' /\ LedTypeOK' /\ (at \in 1 .. Done /\ missing \subseteq Unchecked)'
  BY <1>1 DEF IInv, SysTypeOK, LedTypeOK, LedInStep, Lit, status_led_level, active_low, ledVars, mainVars
<1>3. CASE ApSwitches \/ BrokerSwitches
  <2>1. UNCHANGED <<mqtt_connected, joinRefused, wifiVars, sessionVars, pubVars, at, missing>>
        /\ apUp' \in BOOLEAN /\ brokerUp' \in BOOLEAN
    BY <1>1, <1>3 DEF ApSwitches, BrokerSwitches, IInv, SysTypeOK, TypeOK, mainVars
  <2>2. TypeOK'
    BY <2>1 DEF IInv, SysTypeOK, TypeOK, wifiVars, sessionVars, pubVars
  <2>3. FlagHasSession' /\ SessionIsSeen' /\ RadioAndEvents' /\ ClientAndHandler'
    BY <2>1 DEF IInv, FlagHasSession, SessionIsSeen, RadioAndEvents, ClientAndHandler, wifiVars,
                sessionVars
  <2>4. BootInStep'
    BY <2>1 DEF IInv, BootInStep, Made, RunsFrom, wifiVars, sessionVars, pubVars
  <2>5. QED
    BY <1>2, <2>2, <2>3, <2>4 DEF IInv, SysTypeOK
<1>4. CASE WifiDriver \/ EventLoop
  BY <1>1, <1>2, <1>4, RadioStep, RadioTypes, RadioSession, BootNetwork DEF IInv, SysTypeOK, Session
<1>5. CASE MqttTask \/ BrokerLost
  <2>1. Session' /\ TypeOK' /\ UNCHANGED <<sta, events, handler>>
    BY <1>5, MqttSession DEF IInv, SysTypeOK, Session
  <2>2. RadioAndEvents'
    BY <2>1 DEF IInv, RadioAndEvents
  <2>3. BootInStep'
    BY <1>1, <1>5, BootNetwork DEF IInv
  <2>4. QED
    BY <1>2, <2>1, <2>2, <2>3 DEF IInv, SysTypeOK, Session
<1>6. CASE \E p \in Publishers :
             (Made(RunsFrom(p)) /\ FindsConnected(p)) \/ Publish(p) \/ Resend(p)
  BY <1>1, <1>6, PublisherStep
<1>7. QED
  BY <1>3, <1>4, <1>5, <1>6 DEF Network, Weather
(***************************************************************************)
(* A step of app_main takes the next number, so whatever was made stays    *)
(* made: a step that could not be made is noted before it is passed.       *)
(***************************************************************************)
LEMMA StaysMade ==
  ASSUME SysTypeOK, NEW s \in Steps, AppMain, Made(s)
  PROVE  Made(s)'
<1>1. at \in Nat /\ app_main[s] \in Nat /\ app_main[s] < at
  BY StepNumbers DEF SysTypeOK, Done, Made
<1>2. at' = at + 1 /\ s \notin missing'
  BY <1>1 DEF AppMain, PlainStep, InitLed, BuildClient, StartRadio, SpawnTasks, SpawnStatus, SpawnFails,
              Reaches, Made
<1>3. QED
  BY <1>1, <1>2 DEF Made

LEMMA AppMainTakesNext ==
  ASSUME SysTypeOK, AppMain
  PROVE  /\ \E s \in Steps : at = app_main[s]
         /\ at' = at + 1 /\ at' \in 1 .. Done /\ missing' \subseteq Unchecked
<1>1. at \in 1 .. Done /\ missing \subseteq Unchecked
  BY DEF SysTypeOK
<1>2. /\ \E s \in Steps : at = app_main[s]
      /\ at' = at + 1 /\ missing' \subseteq Unchecked
  BY <1>1 DEF AppMain, PlainStep, InitLed, BuildClient, StartRadio, SpawnTasks, SpawnStatus, SpawnFails,
              Reaches, Unchecked, Steps, app_main
<1>3. QED
  BY <1>1, <1>2, StepNumbers DEF Done

\* What the LED's driver and the network's variables have in common with a step of
\* app_main that leaves the network alone.
LEMMA QuietStep ==
  ASSUME IInv, AppMain, UNCHANGED vars, at # app_main["client"]
  PROVE  /\ TypeOK' /\ FlagHasSession' /\ SessionIsSeen' /\ BootInStep'
         /\ RadioAndEvents' /\ ClientAndHandler'
<1>1. at \in 1 .. Done /\ at' = at + 1
  BY AppMainTakesNext DEF IInv, SysTypeOK
<1>2. TypeOK' /\ FlagHasSession' /\ SessionIsSeen' /\ RadioAndEvents' /\ ClientAndHandler'
  BY DEF IInv, SysTypeOK, TypeOK, FlagHasSession, SessionIsSeen, RadioAndEvents, ClientAndHandler, vars,
         wifiVars, sessionVars, pubVars
<1>3. \A p \in sending' : Made(RunsFrom(p))'
  <2>1. \A p \in sending' : p \in Publishers /\ Made(RunsFrom(p))
    BY DEF IInv, SysTypeOK, TypeOK, BootInStep, vars, pubVars
  <2>2. \A p \in Publishers : RunsFrom(p) \in Steps /\ RunsFrom(p)' = RunsFrom(p)
    BY StartupAssumption DEF RunsFrom, Steps, app_main
  <2>3. QED
    BY <2>1, <2>2, StaysMade DEF IInv
<1>4. BootInStep'
  BY <1>1, <1>3, StepNumbers DEF IInv, BootInStep, vars, wifiVars, sessionVars, pubVars, Done
<1>5. QED
  BY <1>2, <1>4

LEMMA AppMainNext ==
  ASSUME IInv, AppMain
  PROVE  IInv'
<1>1. /\ at \in 1 .. Done /\ at' = at + 1 /\ at' \in 1 .. Done /\ missing' \subseteq Unchecked
      /\ at # Done
  BY AppMainTakesNext, StepNumbers DEF IInv, SysTypeOK, Done
<1>2. CASE PlainStep \/ SpawnTasks \/ SpawnFails
  <2>1. UNCHANGED vars /\ UNCHANGED ledVars /\ at # app_main["client"] /\ at # app_main["led"]
    BY <1>2 DEF PlainStep, SpawnTasks, SpawnFails, Reaches, Steps, app_main, Unchecked
  <2>2. LedTypeOK'
    BY <2>1 DEF IInv, SysTypeOK, LedTypeOK, ledVars
  <2>3. LedInStep'
    BY <1>1, <2>1, StepNumbers DEF IInv, LedInStep, Lit, status_led_level, active_low, ledVars
  <2>4. QED
    BY <1>1, <2>1, <2>2, <2>3, QuietStep DEF IInv, SysTypeOK
<1>3. CASE InitLed
  <2>1. UNCHANGED vars /\ at = app_main["led"] /\ at # app_main["client"]
    BY <1>3, StepNumbers DEF InitLed, Reaches
  <2>2. LedTypeOK'
    BY <1>3 DEF InitLed, status_led_init, IInv, SysTypeOK, LedTypeOK, status_led_level, active_low
  <2>3. LedInStep'
    BY <1>1, <1>3, <2>1, StepNumbers DEF InitLed, status_led_init, IInv, LedInStep, Lit,
                                         status_led_level, active_low
  <2>4. QED
    BY <1>1, <2>1, <2>2, <2>3, QuietStep DEF IInv, SysTypeOK
<1>4. CASE SpawnStatus
  <2>1. UNCHANGED vars /\ at = app_main["status"] /\ at # app_main["client"]
    BY <1>4, StepNumbers DEF SpawnStatus, Reaches
  <2>2. LedTypeOK'
    BY <1>4 DEF SpawnStatus, task_status_created, IInv, SysTypeOK, LedTypeOK
  <2>3. LedInStep'
    BY <1>1, <1>4, <2>1, StepNumbers DEF SpawnStatus, task_status_created, IInv, LedInStep, Lit, Done,
                                         status_led_level, active_low
  <2>4. QED
    BY <1>1, <2>1, <2>2, <2>3, QuietStep DEF IInv, SysTypeOK
<1>5. CASE BuildClient \/ StartRadio
  <2>1. UNCHANGED ledVars /\ at \in {app_main["client"], app_main["radio"]} /\ UNCHANGED missing
    BY <1>5, StepNumbers DEF BuildClient, StartRadio, Reaches
  <2>2. LedTypeOK'
    BY <2>1 DEF IInv, SysTypeOK, LedTypeOK, ledVars
  <2>3. LedInStep'
    BY <1>1, <2>1, StepNumbers DEF IInv, LedInStep, Lit, status_led_level, active_low, ledVars, Done
  <2>4. sta = "idle" /\ events = <<>> /\ handler = "none" /\ client \in {"none", "init"}
        /\ callback = "none" /\ ~alive /\ ~mqtt_connected /\ subscription = "no"
    BY <2>1, StepNumbers DEF IInv, BootInStep
  <2>5. sending = {}
    <3>1. \A p \in sending : p \in Publishers /\ Made(RunsFrom(p))
      BY DEF IInv, SysTypeOK, TypeOK, BootInStep
    <3>2. \A p \in Publishers : app_main[RunsFrom(p)] \in {14, 16, 18}
      BY StartupAssumption, StepNumbers DEF RunsFrom
    <3>3. QED
      BY <1>1, <2>1, <3>1, <3>2, StepNumbers DEF Made
  <2>6. CASE BuildClient
    <3>1. TypeOK' /\ FlagHasSession' /\ SessionIsSeen' /\ RadioAndEvents' /\ ClientAndHandler'
      BY <2>4, <2>6 DEF BuildClient, IInv, SysTypeOK, TypeOK, FlagHasSession, SessionIsSeen,
                        RadioAndEvents, ClientAndHandler, wifiVars, pubVars
    <3>2. BootInStep'
      BY <1>1, <2>4, <2>5, <2>6, StepNumbers DEF BuildClient, Reaches, BootInStep, wifiVars, pubVars
    <3>3. QED
      BY <1>1, <2>2, <2>3, <3>1, <3>2 DEF IInv, SysTypeOK
  <2>7. CASE StartRadio
    <3>1. events' = <<"START">> /\ UNCHANGED <<sta, handler, sessionVars, pubVars, mqtt_connected>>
      BY <2>4, <2>7, EventQueue DEF StartRadio
    <3>2. TypeOK' /\ FlagHasSession' /\ SessionIsSeen' /\ RadioAndEvents' /\ ClientAndHandler'
      BY <2>4, <2>7, <3>1 DEF StartRadio, IInv, SysTypeOK, TypeOK, FlagHasSession, SessionIsSeen,
                        RadioAndEvents, ClientAndHandler, sessionVars, pubVars
    <3>3. BootInStep'
      BY <1>1, <2>4, <2>5, <2>7, <3>1, StepNumbers DEF StartRadio, Reaches, IInv, BootInStep,
                                                       sessionVars, pubVars
    <3>4. QED
      BY <1>1, <2>2, <2>3, <3>2, <3>3 DEF IInv, SysTypeOK
  <2>8. QED
    BY <1>5, <2>6, <2>7
<1>6. QED
  BY <1>2, <1>3, <1>4, <1>5 DEF AppMain

(***************************************************************************)
(* Every step of the board keeps the invariant.                            *)
(***************************************************************************)
LEMMA InvNext == IInv /\ [SysNext]_boardVars => IInv'
<1> SUFFICES ASSUME IInv, [SysNext]_boardVars PROVE IInv'
  OBVIOUS
<1>1. CASE AppMain
  BY <1>1, AppMainNext
<1>2. CASE Restart
  <2>1. SysTypeOK'
    <3>1. TypeOK'
      BY <1>2 DEF Restart, IInv, SysTypeOK, TypeOK
    <3>2. LedTypeOK'
      BY <1>2 DEF Restart, LedReset, LedTypeOK
    <3>3. at' \in 1 .. Done /\ missing' \subseteq Unchecked
      BY <1>2 DEF Restart, Done
    <3>4. QED
      BY <3>1, <3>2, <3>3 DEF SysTypeOK
  <2>2. BootInStep'
    BY <1>2, StepNumbers DEF Restart, BootInStep
  <2>3. LedInStep'
    BY <1>2, StepNumbers DEF Restart, LedReset, LedInStep, Lit, status_led_level, active_low
  <2>4. FlagHasSession' /\ SessionIsSeen' /\ RadioAndEvents' /\ ClientAndHandler'
    BY <1>2 DEF Restart, FlagHasSession, SessionIsSeen, RadioAndEvents, ClientAndHandler
  <2>5. QED
    BY <2>1, <2>2, <2>3, <2>4 DEF IInv
<1>3. CASE Network
  BY <1>3, NetworkNext
<1>4. CASE Blink
  <2>1. UNCHANGED <<vars, at, missing>>
    BY <1>4 DEF Blink, mainVars
  <2>2. TypeOK' /\ FlagHasSession' /\ SessionIsSeen' /\ RadioAndEvents' /\ ClientAndHandler'
    BY <2>1 DEF IInv, SysTypeOK, TypeOK, FlagHasSession, SessionIsSeen, RadioAndEvents,
                ClientAndHandler, vars, wifiVars, sessionVars, pubVars
  <2>3. BootInStep'
    BY <2>1 DEF IInv, BootInStep, Made, RunsFrom, vars, wifiVars, sessionVars, pubVars
  <2>4. LedTypeOK' /\ LedInStep'
    BY <1>4, <2>1, StepNumbers DEF Blink, task_status, status_led_set, IInv, SysTypeOK, LedTypeOK,
           LedInStep, Lit, status_led_level, active_low, Done
  <2>5. QED
    BY <2>1, <2>2, <2>3, <2>4 DEF IInv, SysTypeOK
<1>5. CASE UNCHANGED boardVars
  <2>1. UNCHANGED <<vars, ledVars, at, missing>>
    BY <1>5 DEF boardVars, mainVars
  <2>2. TypeOK' /\ FlagHasSession' /\ SessionIsSeen' /\ RadioAndEvents' /\ ClientAndHandler'
    BY <2>1 DEF IInv, SysTypeOK, TypeOK, FlagHasSession, SessionIsSeen, RadioAndEvents,
                ClientAndHandler, vars, wifiVars, sessionVars, pubVars
  <2>3. BootInStep'
    BY <2>1 DEF IInv, BootInStep, Made, RunsFrom, vars, wifiVars, sessionVars, pubVars
  <2>4. LedTypeOK' /\ LedInStep'
    BY <2>1 DEF IInv, SysTypeOK, LedTypeOK, LedInStep, Lit, status_led_level, active_low, ledVars
  <2>5. QED
    BY <2>1, <2>2, <2>3, <2>4 DEF IInv, SysTypeOK
<1>6. QED
  BY <1>1, <1>2, <1>3, <1>4, <1>5 DEF SysNext

(***************************************************************************)
(* The invariant that the results below are read off holds from reset on,  *)
(* through every outage and restart.                                       *)
(***************************************************************************)
THEOREM Invariance == SysSpec => []IInv
BY InvInit, InvNext, PTL DEF SysSpec

-----------------------------------------------------------------------------
(***************************************************************************)
(* Type correctness (SysTypeOK): in particular the event queue never holds *)
(* more than the two events of one attempt (network_manager.c:47-88).      *)
(***************************************************************************)
THEOREM TypeCorrect == SysSpec => []SysTypeOK
<1>1. IInv => SysTypeOK
  BY DEF IInv
<1>2. QED
  BY <1>1, Invariance, PTL

(***************************************************************************)
(* The connected flag stands for a session (FlagHasSession), through every *)
(* boot, restart and outage (network_manager.c:114-119).                   *)
(***************************************************************************)
THEOREM FlagStandsForSession == SysSpec => []FlagHasSession
<1>1. IInv => FlagHasSession
  BY DEF IInv
<1>2. QED
  BY <1>1, Invariance, PTL

(***************************************************************************)
(* A session that carries data is neither hidden nor deaf (SessionIsSeen), *)
(* in whatever order the two event tasks run (network_manager.c:62-68).    *)
(***************************************************************************)
THEOREM NoHiddenSession == SysSpec => []SessionIsSeen
<1>1. IInv => SessionIsSeen
  BY DEF IInv
<1>2. QED
  BY <1>1, Invariance, PTL

(***************************************************************************)
(* A checked step is made as soon as app_main stands behind it.            *)
(***************************************************************************)
LEMMA MadeBefore ==
  ASSUME SysTypeOK, NEW s \in Steps \ Unchecked
  PROVE  Made(s) <=> app_main[s] < at
BY DEF SysTypeOK, Made

(***************************************************************************)
(* No task uses what app_main has not made (NothingUsedEarly), although    *)
(* the handlers and the forwarder run before app_main is over              *)
(* (main.c:339-357).                                                       *)
(***************************************************************************)
THEOREM BootOrderIsSafe == SysSpec => []NothingUsedEarly
<1>1. IInv => NothingUsedEarly
  <2> SUFFICES ASSUME IInv PROVE NothingUsedEarly
    OBVIOUS
  <2>1. at \in 1 .. Done /\ SysTypeOK
    BY DEF IInv, SysTypeOK
  <2>2. {"queues", "callback", "mutex", "handlers", "topics", "client", "mqtt_events", "log_topic",
         "supervisor"} \subseteq Steps \ Unchecked
    BY DEF Steps, app_main, Unchecked
  <2>3. handler # "none" => Made("mutex") /\ Made("handlers") /\ Made("client")
    <3>1. handler # "none" => ~(at <= app_main["radio"])
      BY DEF IInv, BootInStep
    <3>2. QED
      BY <2>1, <2>2, <3>1, MadeBefore, StepNumbers DEF Done
  <2>4. callback # "none" => Made("mutex") /\ Made("topics") /\ Made("mqtt_events")
    <3>1. callback # "none" => ~(at <= app_main["radio"])
      BY DEF IInv, BootInStep
    <3>2. QED
      BY <2>1, <2>2, <3>1, MadeBefore, StepNumbers DEF Done
  <2>5. CommandMayArrive => Made("callback") /\ Made("queues")
    <3>1. CommandMayArrive => ~(at <= app_main["radio"])
      BY DEF IInv, BootInStep, CommandMayArrive
    <3>2. QED
      BY <2>1, <2>2, <3>1, MadeBefore, StepNumbers DEF Done
  <2>6. ASSUME NEW p \in sending, NEW s \in Needs(p) PROVE Made(s)
    <3>1. p \in {Health, Telemetry, Forwarder} /\ app_main[RunsFrom(p)] < at
      BY StartupAssumption DEF IInv, SysTypeOK, TypeOK, BootInStep, Made
    <3>2. s \in Steps \ Unchecked /\ app_main[s] < app_main[RunsFrom(p)]
      BY <2>2, <3>1, StartupAssumption, StepNumbers DEF Needs, RunsFrom
    <3>3. app_main[s] \in Nat /\ app_main[RunsFrom(p)] \in Nat
      BY <3>1, <3>2, StartupAssumption, StepNumbers DEF RunsFrom
    <3>4. QED
      BY <2>1, <3>1, <3>2, <3>3, MadeBefore DEF Done
  <2>7. QED
    BY <2>3, <2>4, <2>5, <2>6 DEF NothingUsedEarly
<1>2. QED
  BY <1>1, Invariance, PTL

(***************************************************************************)
(* A lit status LED means that every checked step of the boot is made      *)
(* (LedMeansBooted; task_status.c:9-11, main.c:241-372).                   *)
(***************************************************************************)
THEOREM LitMeansBooted == SysSpec => []LedMeansBooted
<1>1. IInv => LedMeansBooted
  <2> SUFFICES ASSUME IInv PROVE LedMeansBooted
    OBVIOUS
  <2>1. Lit <=> s_channel_state
    BY DEF IInv, LedInStep
  <2>2. Lit => at = Done
    BY DEF IInv, LedInStep
  <2>3. ASSUME Lit, NEW s \in Steps \ Unchecked PROVE Made(s)
    BY <2>2, <2>3, MadeBefore, StepNumbers DEF IInv, Done
  <2>4. QED
    BY <2>1, <2>3 DEF LedMeansBooted
<1>2. QED
  BY <1>1, Invariance, PTL

=============================================================================
