-------------------------- MODULE SupervisorProofs --------------------------
(***************************************************************************)
(* Proofs about Supervisor, for every configuration, tick, fallback period *)
(* and longest publish that ConfigAssumption allows.                       *)
(***************************************************************************)
EXTENDS Supervisor, TLAPS

(***************************************************************************)
(* The feed period is a positive number of milliseconds.                   *)
(***************************************************************************)
LEMMA TickType ==
  ASSUME NEW c \in Configs
  PROVE  /\ c.wdt_timeout_ms \in Nat \ {0} /\ c.heartbeat_period_ms \in Nat
         /\ TickOf(c) \in Nat \ {0}
         /\ c.heartbeat_period_ms + TickOf(c) < Width
<1>1. /\ c.wdt_timeout_ms \in Nat \ {0} /\ c.heartbeat_period_ms \in Nat
      /\ c.heartbeat_period_ms + TickOf(c) < Width
  BY ConfigAssumption
<1>2. Half(c) \in Nat
  BY <1>1 DEF Half
<1>3. QED
  BY <1>1, <1>2, ConfigAssumption DEF TickOf, HalfOrPeriod

(***************************************************************************)
(* task_supervisor's comment at line 109: whenever the timeout can be      *)
(* halved and there is a heartbeat period, the task feeds at least twice   *)
(* per timeout and at least once per heartbeat.                            *)
(***************************************************************************)
THEOREM SafeCadence ==
  ASSUME NEW c \in Configs, c.wdt_timeout_ms >= 2, c.heartbeat_period_ms > 0
  PROVE  2 * TickOf(c) <= c.wdt_timeout_ms /\ TickOf(c) <= c.heartbeat_period_ms
<1>1. c.wdt_timeout_ms \in Nat /\ c.heartbeat_period_ms \in Nat
  BY TickType
<1>2. Half(c) \in Nat /\ Half(c) # 0 /\ 2 * Half(c) <= c.wdt_timeout_ms
  BY <1>1 DEF Half
<1>3. QED
  BY <1>1, <1>2 DEF TickOf, HalfOrPeriod

(***************************************************************************)
(* The payload fits in its buffer, however long the id and the numbers.    *)
(***************************************************************************)
LEMMA HeartbeatFits ==
  ASSUME NEW len \in HeartbeatLengths
  PROVE  build_heartbeat(len) > 0
BY DEF HeartbeatLengths, build_heartbeat, SYSTEM_SUP_HEARTBEAT_MAX, SYSTEM_SUP_DEVICE_ID_MAX

(***************************************************************************)
(* How much of the time budgets is used where: at most one publish when    *)
(* the delay starts, one publish and a delay when the loop starts over; on *)
(* top of that, quiet has the delays the loop has counted.                 *)
(***************************************************************************)
Used(p) == IF p = "publish" THEN 0
           ELSE IF p = "delay" THEN MaxPublish ELSE MaxPublish + tick_ms

FedBudget == fed <= Used(at)
QuietBudget == quiet <= Used(at) + (IF at = "publish" \/ quiet = 0 THEN 0 ELSE since_publish_ms)
CountBudget == \/ since_publish_ms = 0
               \/ since_publish_ms < s_cfg.heartbeat_period_ms
               \/ quiet = 0 /\ at = "loop"

IInv == TypeOK /\ FedBudget /\ QuietBudget /\ CountBudget
        /\ (Roomy => at # "panic")

(***************************************************************************)
(* The initial states satisfy the invariant.                               *)
(***************************************************************************)
LEMMA InvInit == Init => IInv
<1>1. SUFFICES ASSUME Init PROVE IInv
  OBVIOUS
<1>2. /\ s_cfg.heartbeat_period_ms \in Nat /\ tick_ms \in Nat
  BY <1>1, TickType DEF Init, tick_ms
<1>3. QED
  BY <1>1, <1>2, ConfigAssumption
     DEF Init, IInv, TypeOK, FedBudget, QuietBudget, CountBudget, Used

(***************************************************************************)
(* Every step preserves the invariant.                                     *)
(***************************************************************************)
LEMMA InvNext == IInv /\ [Next]_vars => IInv'
<1> SUFFICES ASSUME IInv, [Next]_vars PROVE IInv'
  OBVIOUS
<1> DEFINE H == s_cfg.heartbeat_period_ms
           W == s_cfg.wdt_timeout_ms
<1>1. /\ H \in Nat /\ W \in Nat \ {0} /\ tick_ms \in Nat \ {0} /\ H + tick_ms < Width
  BY TickType DEF IInv, TypeOK, tick_ms
<1>2. since_publish_ms \in Nat /\ since_publish_ms <= H
  BY <1>1 DEF IInv, TypeOK
<1>3. MaxPublish \in Nat /\ Width \in Nat
  BY ConfigAssumption
<1>4. CASE Loop
  <2>1. Count = since_publish_ms + tick_ms
    BY <1>1, <1>2, <1>3 DEF Count, Plus
  <2>2. s_cfg' = s_cfg /\ fed' = 0 /\ tick_ms' = tick_ms
    BY <1>4 DEF Loop, Feed, tick_ms
  <2>3. CASE Due(Count)
    <3>1. since_publish_ms' = 0 /\ quiet' = 0 /\ at' = "publish"
      BY <1>4, <2>3, HeartbeatFits DEF Loop, Reset
    <3>2. QED
      BY <3>1, <2>2, <1>1
         DEF IInv, TypeOK, FedBudget, QuietBudget, CountBudget, Used, Roomy
  <2>4. CASE ~Due(Count)
    <3>1. since_publish_ms' = since_publish_ms + tick_ms /\ quiet' = quiet /\ at' = "delay"
      BY <1>4, <2>1, <2>4 DEF Loop
    <3>2. since_publish_ms + tick_ms < H
      BY <2>1, <2>4, <1>1, <1>2 DEF Due
    <3>3. quiet <= MaxPublish + tick_ms + since_publish_ms
      BY <1>1, <1>2, <1>3, <1>4 DEF IInv, TypeOK, QuietBudget, Used, Loop
    <3>4. QED
      BY <3>1, <3>2, <3>3, <2>2, <1>1, <1>2, <1>3
         DEF IInv, TypeOK, FedBudget, QuietBudget, CountBudget, Used, Roomy
  <2>5. QED
    BY <2>3, <2>4
<1>5. CASE Publish
  <2>1. PICK d \in 0 .. MaxPublish : Block(d, "delay")
    BY <1>5 DEF Publish
  <2>2. /\ at = "publish" /\ s_cfg' = s_cfg /\ since_publish_ms' = since_publish_ms
        /\ tick_ms' = tick_ms
    BY <1>5 DEF Publish, tick_ms
  <2>3. d \in Nat /\ d <= MaxPublish
    BY <1>3
  <2>4. fed = 0 /\ quiet = 0
    BY <2>2, <1>1 DEF IInv, TypeOK, FedBudget, QuietBudget, Used
  <2>5. since_publish_ms = 0 \/ since_publish_ms < H
    BY <2>2 DEF IInv, CountBudget
  <2>6. /\ fed' = d /\ quiet' = d
        /\ at' = IF d < W THEN "delay" ELSE "panic"
    BY <2>1, <2>3, <2>4 DEF Block
  <2>7. Roomy => d < W
    BY <2>3, <1>1, <1>3 DEF Roomy
  <2>8. QED
    BY <2>2, <2>3, <2>5, <2>6, <2>7, <1>1, <1>2, <1>3
       DEF IInv, TypeOK, FedBudget, QuietBudget, CountBudget, Used, Roomy
<1>6. CASE Delay
  <2>1. PICK d \in Delays(tick_ms) : Block(d, "loop")
    BY <1>6 DEF Delay
  <2>2. /\ at = "delay" /\ s_cfg' = s_cfg /\ since_publish_ms' = since_publish_ms
        /\ tick_ms' = tick_ms
    BY <1>6 DEF Delay, tick_ms
  <2>3. d \in Nat /\ d <= tick_ms
    BY <1>1 DEF Delays
  <2>4. /\ fed \in Nat /\ fed <= MaxPublish
        /\ quiet \in Nat /\ quiet <= MaxPublish + since_publish_ms
    BY <2>2, <1>2, <1>3 DEF IInv, TypeOK, FedBudget, QuietBudget, Used
  <2>5. since_publish_ms = 0 \/ since_publish_ms < H
    BY <2>2 DEF IInv, CountBudget
  <2>6. /\ fed' = fed + d /\ quiet' = quiet + d
        /\ at' = IF fed + d < W THEN "loop" ELSE "panic"
    BY <2>1 DEF Block
  <2>7. Roomy => fed + d < W
    BY <2>3, <2>4, <1>1, <1>3 DEF Roomy
  <2>8. QED
    BY <2>2, <2>3, <2>4, <2>5, <2>6, <2>7, <1>1, <1>2, <1>3
       DEF IInv, TypeOK, FedBudget, QuietBudget, CountBudget, Used, Roomy
<1>7. CASE Reboot
  BY <1>1, <1>3, <1>7
     DEF IInv, TypeOK, FedBudget, QuietBudget, CountBudget, Used, Reboot, Roomy, tick_ms
<1>8. CASE UNCHANGED vars
  BY <1>8 DEF vars, IInv, TypeOK, FedBudget, QuietBudget, CountBudget, Used, Roomy, tick_ms
<1>9. QED
  BY <1>4, <1>5, <1>6, <1>7, <1>8 DEF Next

(***************************************************************************)
(* The invariant holds in every reachable state.                           *)
(***************************************************************************)
THEOREM Invariance == Spec => []IInv
  BY InvInit, InvNext, PTL DEF Spec

(***************************************************************************)
(* The loop's count stays within one period, whatever the configuration.   *)
(***************************************************************************)
THEOREM TypeCorrect == Spec => []TypeOK
<1>1. IInv => TypeOK
  BY DEF IInv
<1>2. QED
  BY <1>1, Invariance, PTL

(***************************************************************************)
(* The supervisor never trips the watchdog when a publish and a delay fit  *)
(* in the timeout: no configuration makes the loop itself too slow.        *)
(***************************************************************************)
THEOREM NeverTripsItself == Spec => []FedInTime
<1>1. IInv => FedInTime
  <2>1. SUFFICES ASSUME IInv, Roomy PROVE at # "panic" /\ fed < s_cfg.wdt_timeout_ms
    BY DEF FedInTime
  <2>2. s_cfg.wdt_timeout_ms \in Nat /\ tick_ms \in Nat /\ MaxPublish \in Nat
    BY <2>1, TickType, ConfigAssumption DEF IInv, TypeOK, tick_ms
  <2>3. fed \in Nat /\ fed <= MaxPublish + tick_ms
    BY <2>1, <2>2 DEF IInv, TypeOK, FedBudget, Used
  <2>4. QED
    BY <2>1, <2>2, <2>3 DEF IInv, Roomy
<1>2. QED
  BY <1>1, Invariance, PTL

(***************************************************************************)
(* Heartbeats keep their period, however long each publish takes.          *)
(***************************************************************************)
THEOREM HeartbeatsKeepTheirPeriod == Spec => []HeartbeatInTime
<1>1. IInv => HeartbeatInTime
  <2>1. SUFFICES ASSUME IInv PROVE HeartbeatInTime
    OBVIOUS
  <2>2. s_cfg.heartbeat_period_ms \in Nat /\ tick_ms \in Nat /\ MaxPublish \in Nat
    BY <2>1, TickType, ConfigAssumption DEF IInv, TypeOK, tick_ms
  <2>3. QED
    BY <2>1, <2>2
       DEF IInv, TypeOK, QuietBudget, CountBudget, Used, HeartbeatInTime
<1>2. QED
  BY <1>1, Invariance, PTL
=============================================================================
