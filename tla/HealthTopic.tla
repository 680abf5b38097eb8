----------------------------- MODULE HealthTopic -----------------------------
(***************************************************************************)
(* What the broker keeps of the health topic, on which the supervisor      *)
(* publishes its heartbeats (network_manager_publish_health) and the       *)
(* broker the last will that network_manager_init registered.  The broker  *)
(* publishes the will of a session it gives up, and of one that a new      *)
(* session of the board replaces (external).                               *)
(***************************************************************************)
EXTENDS NetworkManager

VARIABLES
  willDue,  \* the broker holds a dead session whose last will is due
  retained, \* the status it retains on the topic
  latest    \* the last status it received there

topicVars  == <<willDue, retained, latest>>
healthVars == <<vars, topicVars>>

HealthInit == Init /\ willDue = FALSE /\ retained = "nothing" /\ latest = "nothing"

\* The last will of a session that dies unnoticed by the client is due.
SessionDies ==
  /\ LinkLost \/ BrokerLost
  /\ willDue' = (willDue \/ alive)
  /\ UNCHANGED <<retained, latest>>

\* .topic = s_topic_health, .retain = 1
WillPublished == retained' = "OFFLINE" /\ latest' = "OFFLINE" /\ willDue' = FALSE

LastWill == willDue /\ WillPublished /\ UNCHANGED vars

SessionReplaces ==
  /\ SessionOpens
  /\ IF willDue THEN WillPublished ELSE UNCHANGED topicVars

\* network_manager_publish_health publishes with retain = 0.
Heartbeat ==
  /\ Sent(Health) \/ Resend(Health)
  /\ latest' = "ONLINE"
  /\ UNCHANGED <<willDue, retained>>

Others ==
  /\ \/ ApSwitches \/ BrokerSwitches
     \/ Joined \/ JoinFails \/ EventLoop
     \/ SessionRefused \/ SessionEnds \/ SetMqtt \/ Subscribe
     \/ Stored(Health) \/ NotTaken(Health)
     \/ \E p \in Publishers : FindsConnected(p) \/ (p # Health /\ (Publish(p) \/ Resend(p)))
  /\ UNCHANGED topicVars

HealthNext == SessionDies \/ LastWill \/ SessionReplaces \/ Heartbeat \/ Others

HealthSpec == HealthInit /\ [][HealthNext]_healthVars

(***************************************************************************)
(* "Retain 1 so that broker holds the last known status of the device for  *)
(* new subscribers" (network_manager.c:272-273): what the broker retains   *)
(* on the health topic is the last status it received there.               *)
(***************************************************************************)
RetainedIsLatest == retained # "nothing" => retained = latest

=============================================================================
