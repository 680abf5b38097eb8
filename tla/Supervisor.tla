----------------------------- MODULE Supervisor -----------------------------
(***************************************************************************)
(* task_supervisor (system/system_supervisor.c): one task feeds the task   *)
(* watchdog and, in the same loop, publishes the heartbeat.  The length of *)
(* a publish is the network's, not the task's, so feeding and publishing   *)
(* share one budget of time.                                               *)
(*                                                                         *)
(* Time is counted, in the milliseconds of the configuration, by two       *)
(* clocks that run while the task is blocked: fed since the last feed,     *)
(* quiet since the last heartbeat (or since the boot).                     *)
(***************************************************************************)
EXTENDS Integers

CONSTANTS
  Configs,     \* the configurations: [wdt_timeout_ms, heartbeat_period_ms]
  FallbackMs,  \* the feed period of line 115 (1000 in the source)
  TickMs,      \* length of a FreeRTOS tick (10: CONFIG_FREERTOS_HZ = 100)
  MaxPublish,  \* the longest a publish blocks
  Width        \* a uint32_t counts modulo Width

(***************************************************************************)
(* Lines 111-115: half the timeout, no longer than the heartbeat period;   *)
(* what is left of that when one of them is too small to be used.          *)
(***************************************************************************)
Half(c) == c.wdt_timeout_ms \div 2
HalfOrPeriod(c) ==
  IF Half(c) = 0 \/ Half(c) > c.heartbeat_period_ms
  THEN c.heartbeat_period_ms ELSE Half(c)
TickOf(c) == IF HalfOrPeriod(c) = 0 THEN FallbackMs ELSE HalfOrPeriod(c)

(***************************************************************************)
(* Every configuration system_supervisor_init accepts, but for periods so  *)
(* long (49 days) that the loop's counter would wrap.                      *)
(***************************************************************************)
ASSUME ConfigAssumption ==
  /\ FallbackMs \in Nat \ {0} /\ TickMs \in Nat \ {0} /\ MaxPublish \in Nat /\ Width \in Nat
  /\ \A c \in Configs :
       /\ c \in [wdt_timeout_ms : Nat \ {0}, heartbeat_period_ms : Nat]
       /\ c.heartbeat_period_ms + TickOf(c) < Width

VARIABLES
  s_cfg,             \* the stored copy of the configuration
  since_publish_ms,  \* the loop's own count
  at,                \* where the task is
  fed, quiet         \* the two clocks

vars == <<s_cfg, since_publish_ms, at, fed, quiet>>

tick_ms == TickOf(s_cfg)

Plus(a, b) == IF a + b < Width THEN a + b ELSE a + b - Width

\* system_supervisor_init, then the task up to its loop: registering with the
\* watchdog starts its clock, and the count starts at a full period.
Init ==
  /\ s_cfg \in Configs
  /\ since_publish_ms = s_cfg.heartbeat_period_ms
  /\ at = "loop" /\ fed = 0 /\ quiet = 0

\* Time passes while the task is blocked.  The watchdog fires in the middle of
\* it when the feed is due, and with trigger_panic set that is a reboot.
Block(d, then) ==
  /\ fed' = fed + d /\ quiet' = quiet + d
  /\ at' = IF fed + d < s_cfg.wdt_timeout_ms THEN then ELSE "panic"

Count == Plus(since_publish_ms, tick_ms)

\* Slips in the loop, for the mutants: one period late, a feed with each
\* heartbeat only, a count never reset.
LatePublish(since) == since > s_cfg.heartbeat_period_ms
FeedWithHeartbeat == fed' = IF Count >= s_cfg.heartbeat_period_ms THEN 0 ELSE fed
NeverReset == Count

Due(since) == since >= s_cfg.heartbeat_period_ms
Feed == fed' = 0
Reset == 0

(***************************************************************************)
(* build_heartbeat: the payload is 58 characters of JSON around the device *)
(* id and three numbers, of 64, 32 and 32 bits; one that would not fit in  *)
(* the buffer is not published, though the count starts over.              *)
(***************************************************************************)
SYSTEM_SUP_HEARTBEAT_MAX == 160
SYSTEM_SUP_DEVICE_ID_MAX == 32

HeartbeatLengths == 58 + 3 .. 58 + (SYSTEM_SUP_DEVICE_ID_MAX - 1) + 20 + 10 + 10

build_heartbeat(len) == IF len > 0 /\ len < SYSTEM_SUP_HEARTBEAT_MAX THEN len ELSE -1

Loop ==
  /\ at = "loop"
  /\ Feed
  /\ IF Due(Count)
     THEN /\ since_publish_ms' = Reset
          /\ \E len \in HeartbeatLengths :
               IF build_heartbeat(len) > 0
               THEN quiet' = 0 /\ at' = "publish"
               ELSE at' = "delay" /\ UNCHANGED quiet
     ELSE since_publish_ms' = Count /\ at' = "delay" /\ UNCHANGED quiet
  /\ UNCHANGED s_cfg

Publish ==
  /\ at = "publish"
  /\ \E d \in 0..MaxPublish : Block(d, "delay")
  /\ UNCHANGED <<s_cfg, since_publish_ms>>

\* pdMS_TO_TICKS rounds down, and a delay of n ticks ends at the n-th tick from
\* now: after more than n - 1 ticks' time and at most n.
Delays(ms) ==
  LET n == ms \div TickMs
  IN  {d \in 0..ms : IF n = 0 THEN d = 0 ELSE (n - 1) * TickMs < d /\ d <= n * TickMs}

Delay ==
  /\ at = "delay"
  /\ \E d \in Delays(tick_ms) : Block(d, "loop")
  /\ UNCHANGED <<s_cfg, since_publish_ms>>

\* The panic handler restarts the board, which boots with the same configuration.
Reboot ==
  /\ at = "panic"
  /\ since_publish_ms' = s_cfg.heartbeat_period_ms
  /\ at' = "loop" /\ fed' = 0 /\ quiet' = 0
  /\ UNCHANGED s_cfg

Next == Loop \/ Publish \/ Delay \/ Reboot

Spec == Init /\ [][Next]_vars

-----------------------------------------------------------------------------
\* The variables of task_supervisor keep their types, and its count stays
\* within one period, and so within a uint32_t.
TypeOK ==
  /\ s_cfg \in Configs
  /\ since_publish_ms \in 0..s_cfg.heartbeat_period_ms
  /\ at \in {"loop", "publish", "delay", "panic"}
  /\ fed \in Nat /\ quiet \in Nat

\* A publish leaves room for the delay that follows it.
Roomy == MaxPublish + tick_ms < s_cfg.wdt_timeout_ms

\* The supervisor never trips the watchdog itself, whatever the heartbeat
\* period, as long as the longest publish and one delay fit in the timeout:
\* loops that do not publish must feed too (lines 122-139).
FedInTime == Roomy => at # "panic" /\ fed < s_cfg.wdt_timeout_ms

\* Heartbeats start no further apart than the period, rounded up to whole
\* delays, plus one publish: the count of nominal delays does not drift away
\* from the time that passes (lines 124-127).
HeartbeatInTime ==
  quiet <= MaxPublish + tick_ms
           + (IF s_cfg.heartbeat_period_ms = 0 THEN 0 ELSE s_cfg.heartbeat_period_ms - 1)

=============================================================================
