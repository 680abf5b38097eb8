---------------------------- MODULE I2cBusProofs ----------------------------
(***************************************************************************)
(* Proofs about I2cBus, for every set of workers, every number of devices  *)
(* up to the size of the registry, every pulse budget and every width of   *)
(* the error counter.                                                      *)
(***************************************************************************)
EXTENDS I2cBus, TLAPS

(***************************************************************************)
(* A counter that wraps stays below its modulus.                           *)
(***************************************************************************)
LEMMA ModRange ==
  ASSUME NEW a \in Nat, NEW m \in Nat \ {0}
  PROVE  a % m \in 0 .. m - 1
  OBVIOUS

(***************************************************************************)
(* What a failure leaves in the tally.  The counter is behind by that one  *)
(* failure, if it was not behind and nobody else is at an increment.       *)
(***************************************************************************)
LEMMA FailureTally ==
  ASSUME TypeOK, NEW t \in Tasks, Failure(t)
  PROVE  /\ failures' \in 0 .. ErrorModulus - 1
         /\ collided' \in BOOLEAN
         /\ ~collided' => ~collided /\ \A u \in Tasks \ {t} : pc[u] \notin Counting
         /\ errorCount = failures => failures' = (errorCount + 1) % ErrorModulus
<1>1. failures' \in 0 .. ErrorModulus - 1
  BY BusAssumption, ModRange DEF Failure, TypeOK
<1>2. collided' \in BOOLEAN
  BY DEF Failure, TypeOK
<1>3. QED
  BY <1>1, <1>2 DEF Failure

(***************************************************************************)
(* The invariant holds initially.                                          *)
(***************************************************************************)
LEMMA InvInit == Init => IInv
<1> SUFFICES ASSUME Init PROVE IInv
  OBVIOUS
<1>1. 0 \in 0 .. ErrorModulus - 1 /\ 0 \in 0 .. RecoveryClocks + 1
  BY BusAssumption
<1>2. TypeOK
  <2>1. failures \in 0 .. ErrorModulus - 1 /\ errorCount \in 0 .. ErrorModulus - 1
    BY <1>1 DEF Init
  <2>2. deviceCount \in 0 .. NumDevices /\ sda \in 0 .. RecoveryClocks + 1
    BY BusAssumption DEF Init
  <2>3. collided \in BOOLEAN /\ initialized \in BOOLEAN /\ busHandle \in BOOLEAN
    BY DEF Init
  <2>4. QED
    BY <2>1, <2>2, <2>3 DEF Init, TypeOK, Places, Results, Nothing
<1>3. OneTaskOnTheWire /\ BootIsAlone /\ BusByPlace /\ RebuiltOnFreeLine
  BY BusAssumption DEF Init, OneTaskOnTheWire, BootIsAlone, BusByPlace, RebuiltOnFreeLine, Tasks,
     Critical, Recovering, Registered
<1>4. CountByPlace /\ FailuresAreCounted
  BY DEF Init, CountByPlace, FailuresAreCounted, Counting
<1>5. QED
  BY <1>2, <1>3, <1>4 DEF IInv

(***************************************************************************)
(* Every step preserves the invariant.                                     *)
(***************************************************************************)
LEMMA InvNext == IInv /\ [Next]_vars => IInv'
<1> SUFFICES ASSUME IInv, [Next]_vars PROVE IInv'
  OBVIOUS
<1> USE BusAssumption DEF IInv, busVars, callVars, tally
<1>1. CASE AddDevice
  BY <1>1 DEF AddDevice, TypeOK, OneTaskOnTheWire, BootIsAlone, BusByPlace,
     RebuiltOnFreeLine, CountByPlace, FailuresAreCounted, Tasks, Places, Critical, Recovering,
     Results, Errors, Nothing, Registered
<1>2. CASE Abort
  <2>1. \A t \in Tasks : pc'[t] = "idle"
    BY <1>2 DEF Abort, BootIsAlone, Tasks
  <2>2. 0 \in 0 .. ErrorModulus - 1
    OBVIOUS
  <2>3. TypeOK'
    <3>1. failures' \in 0 .. ErrorModulus - 1 /\ errorCount' \in 0 .. ErrorModulus - 1
      BY <1>2, <2>2 DEF Abort
    <3>2. deviceCount' \in 0 .. NumDevices
      BY <1>2 DEF Abort
    <3>3. collided' \in BOOLEAN /\ initialized' \in BOOLEAN /\ busHandle' \in BOOLEAN
      BY <1>2 DEF Abort
    <3>4. QED
      BY <1>2, <3>1, <3>2, <3>3 DEF Abort, TypeOK, Results
  <2>4. OneTaskOnTheWire' /\ BootIsAlone' /\ BusByPlace' /\ RebuiltOnFreeLine'
    BY <1>2, <2>1 DEF Abort, OneTaskOnTheWire, BootIsAlone, BusByPlace, RebuiltOnFreeLine, Registered,
       Tasks, Critical, Recovering
  <2>5. CountByPlace' /\ FailuresAreCounted'
    BY <1>2, <2>1 DEF Abort, CountByPlace, FailuresAreCounted, Counting
  <2>6. QED
    BY <2>3, <2>4, <2>5
<1>3. CASE Spawn
  BY <1>3 DEF Spawn, TypeOK, OneTaskOnTheWire, BootIsAlone, BusByPlace,
     RebuiltOnFreeLine, CountByPlace, FailuresAreCounted, Tasks, Places, Critical, Recovering,
     Results, Errors, Nothing, Registered
<1>4. ASSUME NEW t \in Tasks, Enter(t) PROVE IInv'
  <2>1. TypeOK'
    BY <1>4 DEF Enter, Guard, MayCall, Return, Goto, TypeOK, Places, Counting, Critical,
       Recovering, Results, Errors, Nothing, Registered
  <2>2. OneTaskOnTheWire'
    BY <1>4 DEF Enter, Guard, MayCall, Return, Goto, TypeOK, OneTaskOnTheWire, Counting,
       Critical, Recovering
  <2>3. BootIsAlone'
    BY <1>4 DEF Enter, Guard, MayCall, Return, Goto, TypeOK, BootIsAlone, Tasks, Counting
  <2>4. BusByPlace'
    BY <1>4 DEF Enter, Guard, MayCall, Return, Goto, TypeOK, OneTaskOnTheWire, BusByPlace,
       Counting, Critical, Recovering, Registered
  <2>5. RebuiltOnFreeLine'
    BY <1>4 DEF Enter, Guard, MayCall, Return, Goto, TypeOK, OneTaskOnTheWire,
       RebuiltOnFreeLine, Counting, Critical, Recovering
  <2>6. CountByPlace'
    BY <1>4 DEF Enter, Guard, MayCall, Return, Goto, TypeOK, CountByPlace, Counting,
       Recovering, Results, Errors
  <2>7. FailuresAreCounted'
    BY <1>4 DEF Enter, Guard, MayCall, Return, Goto, TypeOK, CountByPlace,
       FailuresAreCounted, Counting, Recovering, Results, Errors
  <2>8. QED
    BY <2>1, <2>2, <2>3, <2>4, <2>5, <2>6, <2>7
<1>5. ASSUME NEW t \in Tasks, Take(t) PROVE IInv'
  <2>1. TypeOK'
    BY <1>5 DEF Take, Goto, TypeOK, Places, Counting, Critical, Recovering, Results,
       Errors, Nothing, Registered
  <2>2. OneTaskOnTheWire'
    BY <1>5 DEF Take, Goto, TypeOK, OneTaskOnTheWire, Counting, Critical, Recovering
  <2>3. BootIsAlone'
    BY <1>5 DEF Take, Goto, TypeOK, BootIsAlone, Tasks, Counting
  <2>4. BusByPlace'
    BY <1>5 DEF Take, Goto, TypeOK, OneTaskOnTheWire, BusByPlace, Counting, Critical,
       Recovering, Registered
  <2>5. RebuiltOnFreeLine'
    BY <1>5 DEF Take, Goto, TypeOK, OneTaskOnTheWire, RebuiltOnFreeLine, Counting,
       Critical, Recovering
  <2>6. CountByPlace'
    BY <1>5 DEF Take, Goto, TypeOK, CountByPlace, Counting, Recovering, Results, Errors
  <2>7. FailuresAreCounted'
    BY <1>5 DEF Take, Goto, TypeOK, CountByPlace, FailuresAreCounted, Counting,
       Recovering, Results, Errors
  <2>8. QED
    BY <2>1, <2>2, <2>3, <2>4, <2>5, <2>6, <2>7
<1>6. ASSUME NEW t \in Tasks, TakeTimeout(t) PROVE IInv'
  <2>1. TypeOK'
    BY <1>6, FailureTally DEF TakeTimeout, AfterTakeTimeout, Return, Goto, TypeOK, Places, Counting,
       Critical, Recovering, Results, Errors, Nothing, Registered
  <2>2. OneTaskOnTheWire'
    BY <1>6 DEF TakeTimeout, AfterTakeTimeout, Return, Goto, TypeOK, OneTaskOnTheWire,
       Counting, Critical, Recovering
  <2>3. BootIsAlone'
    BY <1>6 DEF TakeTimeout, AfterTakeTimeout, Return, Goto, TypeOK, BootIsAlone, Tasks,
       Counting
  <2>4. BusByPlace'
    BY <1>6 DEF TakeTimeout, AfterTakeTimeout, Return, Goto, TypeOK, OneTaskOnTheWire,
       BusByPlace, Counting, Critical, Recovering, Registered
  <2>5. RebuiltOnFreeLine'
    BY <1>6 DEF TakeTimeout, AfterTakeTimeout, Return, Goto, TypeOK, OneTaskOnTheWire,
       RebuiltOnFreeLine, Counting, Critical, Recovering
  <2>6. CountByPlace'
    <3>1. loaded' = loaded /\ errorCount' = errorCount /\ loaded[t] = Nothing
      BY <1>6 DEF TakeTimeout, AfterTakeTimeout, CountByPlace, Counting
    <3>2. \A u \in Tasks \ {t} : pc'[u] = pc[u]
      BY <1>6 DEF TakeTimeout, AfterTakeTimeout, Return, Goto, TypeOK
    <3>3. pc'[t] \in Counting => Failure(t)
      BY <1>6 DEF TakeTimeout, AfterTakeTimeout, Return, Goto, TypeOK, Counting
    <3>4. pc'[t] \notin Counting => UNCHANGED tally
      BY <1>6 DEF TakeTimeout, AfterTakeTimeout, Return, Goto, TypeOK, Counting
    <3>5. \A u \in Tasks : pc'[u] \notin Counting => loaded'[u] = Nothing
      BY <3>1, <3>2 DEF CountByPlace
    <3>6. CASE pc'[t] \in Counting
      <4>1. ~collided' => ~collided /\ \A u \in Tasks : pc[u] \notin Counting
        BY <3>3, <3>6, <1>6, FailureTally DEF Counting, TakeTimeout
      <4>2. ~collided' => \A u \in Tasks : pc'[u] \in Counting => u = t
        BY <3>2, <4>1
      <4>3. ~collided' => failures' = (errorCount' + 1) % ErrorModulus
        BY <3>1, <3>3, <3>6, <4>1, FailureTally DEF FailuresAreCounted
      <4>4. QED
        BY <3>1, <3>5, <4>2, <4>3 DEF CountByPlace
    <3>7. CASE pc'[t] \notin Counting
      BY <3>1, <3>2, <3>4, <3>5, <3>7 DEF CountByPlace
    <3>8. QED
      BY <3>6, <3>7
  <2>7. FailuresAreCounted'
    BY <1>6, FailureTally DEF TakeTimeout, AfterTakeTimeout, Return, Goto, TypeOK, CountByPlace,
       FailuresAreCounted, Counting, Recovering, Results, Errors
  <2>8. QED
    BY <2>1, <2>2, <2>3, <2>4, <2>5, <2>6, <2>7
<1>7. ASSUME NEW t \in Tasks, Transfer(t) PROVE IInv'
  <2>1. TypeOK'
    BY <1>7, FailureTally DEF Transfer, Answer, WireAfter, Return, Goto, TypeOK, Places, Counting,
       Critical, Recovering, Results, Errors, Nothing, Registered
  <2>2. OneTaskOnTheWire'
    BY <1>7 DEF Transfer, Answer, WireAfter, Return, Goto, TypeOK, OneTaskOnTheWire,
       Counting, Critical, Recovering
  <2>3. BootIsAlone'
    BY <1>7 DEF Transfer, Answer, WireAfter, Return, Goto, TypeOK, BootIsAlone, Tasks,
       Counting
  <2>4. BusByPlace'
    BY <1>7 DEF Transfer, Answer, WireAfter, Return, Goto, TypeOK, OneTaskOnTheWire,
       BusByPlace, Counting, Critical, Recovering, Registered
  <2>5. RebuiltOnFreeLine'
    BY <1>7 DEF Transfer, Answer, WireAfter, Return, Goto, TypeOK, OneTaskOnTheWire,
       RebuiltOnFreeLine, Counting, Critical, Recovering
  <2>6. CountByPlace'
    <3>1. loaded' = loaded /\ errorCount' = errorCount /\ loaded[t] = Nothing
      BY <1>7 DEF Transfer, CountByPlace, Counting
    <3>2. \A u \in Tasks \ {t} : pc'[u] = pc[u]
      BY <1>7 DEF Transfer, Return, Goto, TypeOK
    <3>3. pc'[t] \in Counting => Failure(t)
      BY <1>7 DEF Transfer, Return, Goto, TypeOK, Counting
    <3>4. pc'[t] \notin Counting => UNCHANGED tally
      BY <1>7 DEF Transfer, Return, Goto, TypeOK, Counting
    <3>5. \A u \in Tasks : pc'[u] \notin Counting => loaded'[u] = Nothing
      BY <3>1, <3>2 DEF CountByPlace
    <3>6. CASE pc'[t] \in Counting
      <4>1. ~collided' => ~collided /\ \A u \in Tasks : pc[u] \notin Counting
        BY <3>3, <3>6, <1>7, FailureTally DEF Counting, Transfer
      <4>2. ~collided' => \A u \in Tasks : pc'[u] \in Counting => u = t
        BY <3>2, <4>1
      <4>3. ~collided' => failures' = (errorCount' + 1) % ErrorModulus
        BY <3>1, <3>3, <3>6, <4>1, FailureTally DEF FailuresAreCounted
      <4>4. QED
        BY <3>1, <3>5, <4>2, <4>3 DEF CountByPlace
    <3>7. CASE pc'[t] \notin Counting
      BY <3>1, <3>2, <3>4, <3>5, <3>7 DEF CountByPlace
    <3>8. QED
      BY <3>6, <3>7
  <2>7. FailuresAreCounted'
    BY <1>7, FailureTally DEF Transfer, Answer, WireAfter, Return, Goto, TypeOK, CountByPlace,
       FailuresAreCounted, Counting, Recovering, Results, Errors
  <2>8. QED
    BY <2>1, <2>2, <2>3, <2>4, <2>5, <2>6, <2>7
<1>8. ASSUME NEW t \in Tasks, Retry(t) PROVE IInv'
  <2>1. TypeOK'
    BY <1>8 DEF Retry, Answer, WireAfter, Return, Goto, TypeOK, Places, Counting,
       Critical, Recovering, Results, Errors, Nothing, Registered
  <2>2. OneTaskOnTheWire'
    BY <1>8 DEF Retry, Answer, WireAfter, Return, Goto, TypeOK, OneTaskOnTheWire,
       Counting, Critical, Recovering
  <2>3. BootIsAlone'
    BY <1>8 DEF Retry, Answer, WireAfter, Return, Goto, TypeOK, BootIsAlone, Tasks,
       Counting
  <2>4. BusByPlace'
    BY <1>8 DEF Retry, Answer, WireAfter, Return, Goto, TypeOK, OneTaskOnTheWire,
       BusByPlace, Counting, Critical, Recovering, Registered
  <2>5. RebuiltOnFreeLine'
    BY <1>8 DEF Retry, Answer, WireAfter, Return, Goto, TypeOK, OneTaskOnTheWire,
       RebuiltOnFreeLine, Counting, Critical, Recovering
  <2>6. CountByPlace'
    BY <1>8 DEF Retry, Answer, WireAfter, Return, Goto, TypeOK, CountByPlace, Counting,
       Recovering, Results, Errors
  <2>7. FailuresAreCounted'
    BY <1>8 DEF Retry, Answer, WireAfter, Return, Goto, TypeOK, CountByPlace,
       FailuresAreCounted, Counting, Recovering, Results, Errors
  <2>8. QED
    BY <2>1, <2>2, <2>3, <2>4, <2>5, <2>6, <2>7
<1>9. ASSUME NEW t \in Tasks, Scan(t) PROVE IInv'
  <2>1. TypeOK'
    BY <1>9 DEF Scan, Return, Goto, TypeOK, Places, Counting, Critical, Recovering,
       Results, Errors, Nothing, Registered
  <2>2. OneTaskOnTheWire'
    BY <1>9 DEF Scan, Return, Goto, TypeOK, OneTaskOnTheWire, Counting, Critical,
       Recovering
  <2>3. BootIsAlone'
    BY <1>9 DEF Scan, Return, Goto, TypeOK, BootIsAlone, Tasks, Counting
  <2>4. BusByPlace'
    BY <1>9 DEF Scan, Return, Goto, TypeOK, OneTaskOnTheWire, BusByPlace, Counting,
       Critical, Recovering, Registered
  <2>5. RebuiltOnFreeLine'
    BY <1>9 DEF Scan, Return, Goto, TypeOK, OneTaskOnTheWire, RebuiltOnFreeLine, Counting,
       Critical, Recovering
  <2>6. CountByPlace'
    BY <1>9 DEF Scan, Return, Goto, TypeOK, CountByPlace, Counting, Recovering, Results,
       Errors
  <2>7. FailuresAreCounted'
    BY <1>9 DEF Scan, Return, Goto, TypeOK, CountByPlace, FailuresAreCounted, Counting,
       Recovering, Results, Errors
  <2>8. QED
    BY <2>1, <2>2, <2>3, <2>4, <2>5, <2>6, <2>7
<1>10. ASSUME NEW t \in Tasks, Give(t) PROVE IInv'
  <2>1. TypeOK'
    BY <1>10, FailureTally DEF Give, AfterGive, Goto, TypeOK, Places, Counting, Critical, Recovering,
       Results, Errors, Nothing, Registered
  <2>2. OneTaskOnTheWire'
    BY <1>10 DEF Give, AfterGive, Goto, TypeOK, OneTaskOnTheWire, Counting, Critical,
       Recovering
  <2>3. BootIsAlone'
    BY <1>10 DEF Give, AfterGive, Goto, TypeOK, BootIsAlone, Tasks, Counting
  <2>4. BusByPlace'
    BY <1>10 DEF Give, AfterGive, Goto, TypeOK, OneTaskOnTheWire, BusByPlace, Counting,
       Critical, Recovering, Registered
  <2>5. RebuiltOnFreeLine'
    BY <1>10 DEF Give, AfterGive, Goto, TypeOK, OneTaskOnTheWire, RebuiltOnFreeLine,
       Counting, Critical, Recovering
  <2>6. CountByPlace'
    <3>1. loaded' = loaded /\ errorCount' = errorCount /\ loaded[t] = Nothing
      BY <1>10 DEF Give, AfterGive, CountByPlace, Counting
    <3>2. \A u \in Tasks \ {t} : pc'[u] = pc[u]
      BY <1>10 DEF Give, AfterGive, Return, Goto, TypeOK
    <3>3. pc'[t] \in Counting => Failure(t)
      BY <1>10 DEF Give, AfterGive, Return, Goto, TypeOK, Counting
    <3>4. pc'[t] \notin Counting => UNCHANGED tally
      BY <1>10 DEF Give, AfterGive, Return, Goto, TypeOK, Counting
    <3>5. \A u \in Tasks : pc'[u] \notin Counting => loaded'[u] = Nothing
      BY <3>1, <3>2 DEF CountByPlace
    <3>6. CASE pc'[t] \in Counting
      <4>1. ~collided' => ~collided /\ \A u \in Tasks : pc[u] \notin Counting
        BY <3>3, <3>6, <1>10, FailureTally DEF Counting, Give
      <4>2. ~collided' => \A u \in Tasks : pc'[u] \in Counting => u = t
        BY <3>2, <4>1
      <4>3. ~collided' => failures' = (errorCount' + 1) % ErrorModulus
        BY <3>1, <3>3, <3>6, <4>1, FailureTally DEF FailuresAreCounted
      <4>4. QED
        BY <3>1, <3>5, <4>2, <4>3 DEF CountByPlace
    <3>7. CASE pc'[t] \notin Counting
      BY <3>1, <3>2, <3>4, <3>5, <3>7 DEF CountByPlace
    <3>8. QED
      BY <3>6, <3>7
  <2>7. FailuresAreCounted'
    BY <1>10, FailureTally DEF Give, AfterGive, Goto, TypeOK, CountByPlace, FailuresAreCounted,
       Counting, Recovering, Results, Errors
  <2>8. QED
    BY <2>1, <2>2, <2>3, <2>4, <2>5, <2>6, <2>7
<1>11. ASSUME NEW t \in Tasks, CountLoad(t) PROVE IInv'
  <2>1. TypeOK'
    BY <1>11 DEF CountLoad, Counting, TypeOK, Places, Critical, Recovering, Results,
       Errors, Nothing, Registered
  <2>2. OneTaskOnTheWire'
    BY <1>11 DEF CountLoad, Counting, TypeOK, OneTaskOnTheWire, Critical, Recovering
  <2>3. BootIsAlone'
    BY <1>11 DEF CountLoad, Counting, TypeOK, BootIsAlone, Tasks
  <2>4. BusByPlace'
    BY <1>11 DEF CountLoad, Counting, TypeOK, OneTaskOnTheWire, BusByPlace, Critical,
       Recovering, Registered
  <2>5. RebuiltOnFreeLine'
    BY <1>11 DEF CountLoad, Counting, TypeOK, OneTaskOnTheWire, RebuiltOnFreeLine,
       Critical, Recovering
  <2>6. CountByPlace'
    BY <1>11 DEF CountLoad, Counting, TypeOK, CountByPlace, Recovering, Results, Errors
  <2>7. FailuresAreCounted'
    BY <1>11 DEF CountLoad, Counting, TypeOK, CountByPlace, FailuresAreCounted,
       Recovering, Results, Errors
  <2>8. QED
    BY <2>1, <2>2, <2>3, <2>4, <2>5, <2>6, <2>7
<1>12. ASSUME NEW t \in Tasks, CountStore(t) PROVE IInv'
  <2>1. (loaded[t] + 1) % ErrorModulus \in 0 .. ErrorModulus - 1
    <3>1. loaded[t] + 1 \in Nat
      BY <1>12 DEF CountStore, TypeOK, Nothing
    <3>2. QED
      BY <3>1, ModRange
  <2>2. TypeOK'
    BY <1>12, <2>1 DEF CountStore, Goto, TypeOK, Places, Counting, Critical, Recovering,
       Results, Errors, Nothing, Registered
  <2>3. OneTaskOnTheWire'
    BY <1>12 DEF CountStore, Goto, TypeOK, OneTaskOnTheWire, Counting, Critical,
       Recovering
  <2>4. BootIsAlone'
    BY <1>12 DEF CountStore, Goto, TypeOK, BootIsAlone, Tasks, Counting
  <2>5. BusByPlace'
    BY <1>12 DEF CountStore, Goto, TypeOK, OneTaskOnTheWire, BusByPlace, Counting,
       Critical, Recovering, Registered
  <2>6. RebuiltOnFreeLine'
    BY <1>12 DEF CountStore, Goto, TypeOK, OneTaskOnTheWire, RebuiltOnFreeLine, Counting,
       Critical, Recovering
  <2>7. CountByPlace'
    BY <1>12 DEF CountStore, Goto, TypeOK, CountByPlace, Counting, Recovering, Results,
       Errors
  <2>8. FailuresAreCounted'
    BY <1>12 DEF CountStore, Goto, TypeOK, CountByPlace, FailuresAreCounted, Counting,
       Recovering, Results, Errors
  <2>9. QED
    BY <2>2, <2>3, <2>4, <2>5, <2>6, <2>7, <2>8
<1>13. ASSUME NEW t \in Tasks, Teardown(t) PROVE IInv'
  <2>1. TypeOK'
    BY <1>13 DEF Teardown, Goto, TypeOK, Places, Counting, Critical, Recovering, Results,
       Errors, Nothing, Registered
  <2>2. OneTaskOnTheWire'
    BY <1>13 DEF Teardown, Goto, TypeOK, OneTaskOnTheWire, Counting, Critical, Recovering
  <2>3. BootIsAlone'
    BY <1>13 DEF Teardown, Goto, TypeOK, BootIsAlone, Tasks, Counting
  <2>4. BusByPlace'
    BY <1>13 DEF Teardown, Goto, TypeOK, OneTaskOnTheWire, BusByPlace, Counting, Critical,
       Recovering, Registered
  <2>5. RebuiltOnFreeLine'
    BY <1>13 DEF Teardown, Goto, TypeOK, OneTaskOnTheWire, RebuiltOnFreeLine, Counting,
       Critical, Recovering
  <2>6. CountByPlace'
    BY <1>13 DEF Teardown, Goto, TypeOK, CountByPlace, Counting, Recovering, Results,
       Errors
  <2>7. FailuresAreCounted'
    BY <1>13 DEF Teardown, Goto, TypeOK, CountByPlace, FailuresAreCounted, Counting,
       Recovering, Results, Errors
  <2>8. QED
    BY <2>1, <2>2, <2>3, <2>4, <2>5, <2>6, <2>7
<1>14. ASSUME NEW t \in Tasks, Lower(t) PROVE IInv'
  <2>1. TypeOK'
    BY <1>14 DEF Lower, Goto, TypeOK, Places, Counting, Critical, Recovering, Results,
       Errors, Nothing, Registered
  <2>2. OneTaskOnTheWire'
    BY <1>14 DEF Lower, Goto, TypeOK, OneTaskOnTheWire, Counting, Critical, Recovering
  <2>3. BootIsAlone'
    BY <1>14 DEF Lower, Goto, TypeOK, BootIsAlone, Tasks, Counting
  <2>4. BusByPlace'
    BY <1>14 DEF Lower, Goto, TypeOK, OneTaskOnTheWire, BusByPlace, Counting, Critical,
       Recovering, Registered
  <2>5. RebuiltOnFreeLine'
    BY <1>14 DEF Lower, Goto, TypeOK, OneTaskOnTheWire, RebuiltOnFreeLine, Counting,
       Critical, Recovering
  <2>6. CountByPlace'
    BY <1>14 DEF Lower, Goto, TypeOK, CountByPlace, Counting, Recovering, Results, Errors
  <2>7. FailuresAreCounted'
    BY <1>14 DEF Lower, Goto, TypeOK, CountByPlace, FailuresAreCounted, Counting,
       Recovering, Results, Errors
  <2>8. QED
    BY <2>1, <2>2, <2>3, <2>4, <2>5, <2>6, <2>7
<1>15. ASSUME NEW t \in Tasks, Clock(t) PROVE IInv'
  <2>1. TypeOK'
    BY <1>15 DEF Clock, AfterClock, Goto, TypeOK, Places, Counting, Critical, Recovering,
       Results, Errors, Nothing, Registered
  <2>2. OneTaskOnTheWire'
    BY <1>15 DEF Clock, AfterClock, Goto, TypeOK, OneTaskOnTheWire, Counting, Critical,
       Recovering
  <2>3. BootIsAlone'
    BY <1>15 DEF Clock, AfterClock, Goto, TypeOK, BootIsAlone, Tasks, Counting
  <2>4. BusByPlace'
    BY <1>15 DEF Clock, AfterClock, Goto, TypeOK, OneTaskOnTheWire, BusByPlace, Counting,
       Critical, Recovering, Registered
  <2>5. RebuiltOnFreeLine'
    BY <1>15 DEF Clock, AfterClock, Goto, TypeOK, OneTaskOnTheWire, RebuiltOnFreeLine,
       Counting, Critical, Recovering
  <2>6. CountByPlace'
    BY <1>15 DEF Clock, AfterClock, Goto, TypeOK, CountByPlace, Counting, Recovering,
       Results, Errors
  <2>7. FailuresAreCounted'
    BY <1>15 DEF Clock, AfterClock, Goto, TypeOK, CountByPlace, FailuresAreCounted,
       Counting, Recovering, Results, Errors
  <2>8. QED
    BY <2>1, <2>2, <2>3, <2>4, <2>5, <2>6, <2>7
<1>16. ASSUME NEW t \in Tasks, Rebuild(t) PROVE IInv'
  <2>1. TypeOK'
    BY <1>16 DEF Rebuild, Goto, TypeOK, Places, Counting, Critical, Recovering, Results,
       Errors, Nothing, Registered
  <2>2. OneTaskOnTheWire'
    BY <1>16 DEF Rebuild, Goto, TypeOK, OneTaskOnTheWire, Counting, Critical, Recovering
  <2>3. BootIsAlone'
    BY <1>16 DEF Rebuild, Goto, TypeOK, BootIsAlone, Tasks, Counting
  <2>4. BusByPlace'
    BY <1>16 DEF Rebuild, Goto, TypeOK, OneTaskOnTheWire, BusByPlace, Counting, Critical,
       Recovering, Registered
  <2>5. RebuiltOnFreeLine'
    BY <1>16 DEF Rebuild, Goto, TypeOK, OneTaskOnTheWire, RebuiltOnFreeLine, Counting,
       Critical, Recovering
  <2>6. CountByPlace'
    BY <1>16 DEF Rebuild, Goto, TypeOK, CountByPlace, Counting, Recovering, Results,
       Errors
  <2>7. FailuresAreCounted'
    BY <1>16 DEF Rebuild, Goto, TypeOK, CountByPlace, FailuresAreCounted, Counting,
       Recovering, Results, Errors
  <2>8. QED
    BY <2>1, <2>2, <2>3, <2>4, <2>5, <2>6, <2>7
<1>17. ASSUME NEW t \in Tasks, Reattach(t) PROVE IInv'
  <2>1. TypeOK'
    BY <1>17 DEF Reattach, ReattachFails, EntriesInUse, Goto, TypeOK, Places, Counting,
       Critical, Recovering, Results, Errors, Nothing, Registered
  <2>2. OneTaskOnTheWire'
    BY <1>17 DEF Reattach, ReattachFails, EntriesInUse, Goto, TypeOK, OneTaskOnTheWire,
       Counting, Critical, Recovering
  <2>3. BootIsAlone'
    BY <1>17 DEF Reattach, ReattachFails, EntriesInUse, Goto, TypeOK, BootIsAlone, Tasks,
       Counting
  <2>4. BusByPlace'
    BY <1>17 DEF Reattach, ReattachFails, EntriesInUse, Goto, TypeOK, OneTaskOnTheWire,
       BusByPlace, Counting, Critical, Recovering, Registered
  <2>5. RebuiltOnFreeLine'
    BY <1>17 DEF Reattach, ReattachFails, EntriesInUse, Goto, TypeOK, OneTaskOnTheWire,
       RebuiltOnFreeLine, Counting, Critical, Recovering
  <2>6. CountByPlace'
    BY <1>17 DEF Reattach, ReattachFails, EntriesInUse, Goto, TypeOK, CountByPlace,
       Counting, Recovering, Results, Errors
  <2>7. FailuresAreCounted'
    BY <1>17 DEF Reattach, ReattachFails, EntriesInUse, Goto, TypeOK, CountByPlace,
       FailuresAreCounted, Counting, Recovering, Results, Errors
  <2>8. QED
    BY <2>1, <2>2, <2>3, <2>4, <2>5, <2>6, <2>7
<1>18. ASSUME NEW t \in Tasks, Raise(t) PROVE IInv'
  <2>1. TypeOK'
    BY <1>18 DEF Raise, Goto, TypeOK, Places, Counting, Critical, Recovering, Results,
       Errors, Nothing, Registered
  <2>2. OneTaskOnTheWire'
    BY <1>18 DEF Raise, Goto, TypeOK, OneTaskOnTheWire, Counting, Critical, Recovering
  <2>3. BootIsAlone'
    BY <1>18 DEF Raise, Goto, TypeOK, BootIsAlone, Tasks, Counting
  <2>4. BusByPlace'
    BY <1>18 DEF Raise, Goto, TypeOK, OneTaskOnTheWire, BusByPlace, Counting, Critical,
       Recovering, Registered
  <2>5. RebuiltOnFreeLine'
    BY <1>18 DEF Raise, Goto, TypeOK, OneTaskOnTheWire, RebuiltOnFreeLine, Counting,
       Critical, Recovering
  <2>6. CountByPlace'
    BY <1>18 DEF Raise, Goto, TypeOK, CountByPlace, Counting, Recovering, Results, Errors
  <2>7. FailuresAreCounted'
    BY <1>18 DEF Raise, Goto, TypeOK, CountByPlace, FailuresAreCounted, Counting,
       Recovering, Results, Errors
  <2>8. QED
    BY <2>1, <2>2, <2>3, <2>4, <2>5, <2>6, <2>7
<1>19. CASE UNCHANGED vars
  BY <1>19 DEF vars, TypeOK, OneTaskOnTheWire, BootIsAlone, BusByPlace,
     RebuiltOnFreeLine, CountByPlace, FailuresAreCounted, Tasks, Places, Critical, Recovering,
     Results, Errors, Nothing, Registered
<1>20. QED
  BY <1>1, <1>2, <1>3, <1>4, <1>5, <1>6, <1>7, <1>8, <1>9, <1>10, <1>11, <1>12, <1>13, <1>14,
     <1>15, <1>16, <1>17, <1>18, <1>19 DEF Next, Proceed, Recover

(***************************************************************************)
(* In every reachable state the invariant holds, and with it the type      *)
(* invariant and the safety properties of the bus: one task at a time      *)
(* transfers, scans or rebuilds; a set flag stands for a usable bus and a  *)
(* clear one for a bus torn down; nothing is rebuilt or repeated over a    *)
(* line still held low; error_count tells the failures until increments    *)
(* collide.                                                                *)
(***************************************************************************)
THEOREM Invariance == Spec => []IInv
  BY InvInit, InvNext, PTL DEF Spec

(***************************************************************************)
(* Every variable of the bus and its callers keeps its type (struct        *)
(* i2c_bus_t and the locals of a call in i2c_bus.c).                       *)
(***************************************************************************)
THEOREM TypeCorrect == Spec => []TypeOK
<1>1. IInv => TypeOK
  BY DEF IInv
<1>2. QED
  BY <1>1, Invariance, PTL

(***************************************************************************)
(* Two tasks never transfer, scan or rebuild at the same time: the mutex   *)
(* is owned exactly by the task between its Take and its Give.             *)
(***************************************************************************)
THEOREM MutualExclusion == Spec => []OneTaskOnTheWire
<1>1. IInv => OneTaskOnTheWire
  BY DEF IInv
<1>2. QED
  BY <1>1, Invariance, PTL

(***************************************************************************)
(* When the flag `initialized` would let a call in, the master bus exists  *)
(* and the whole registry is attached to it.                               *)
(***************************************************************************)
THEOREM UpIsUsable == Spec => []UpMeansUsable
<1>1. IInv => UpMeansUsable
  BY BusAssumption DEF IInv, OneTaskOnTheWire, BusByPlace, UpMeansUsable, TypeOK, Critical,
     Recovering, Tasks
<1>2. QED
  BY <1>1, Invariance, PTL

(***************************************************************************)
(* A recovery that gave up, at whichever step, left neither a master bus   *)
(* nor an attached device behind the cleared flag.                         *)
(***************************************************************************)
THEOREM DownIsTornDown == Spec => []DownMeansTornDown
<1>1. IInv => DownMeansTornDown
  BY BusAssumption DEF IInv, OneTaskOnTheWire, BusByPlace, DownMeansTornDown, TypeOK, Critical,
     Recovering, Tasks
<1>2. QED
  BY <1>1, Invariance, PTL

(***************************************************************************)
(* The bus is only rebuilt, and a transaction only repeated, over a line   *)
(* the slave has released (i2c_bus.c:158-170).                             *)
(***************************************************************************)
THEOREM FreeLine == Spec => []RebuiltOnFreeLine
<1>1. IInv => RebuiltOnFreeLine
  BY DEF IInv
<1>2. QED
  BY <1>1, Invariance, PTL

(***************************************************************************)
(* error_count is the number of failures that calls past the guard have    *)
(* met, for any width of the counter, until two tasks are inside           *)
(* `error_count++` at once (i2c_bus.c:236, 244, 257-261).                  *)
(***************************************************************************)
THEOREM CountIsExact == Spec => []FailuresAreCounted
<1>1. IInv => FailuresAreCounted
  BY DEF IInv
<1>2. QED
  BY <1>1, Invariance, PTL

(***************************************************************************)
(* A bus that is down, with no call past the guard, is down for good.      *)
(***************************************************************************)
THEOREM Finality == Spec => DownIsFinal
<1> DEFINE A ==
      /\ phase = "run" /\ ~initialized /\ (\A t \in Tasks : pc[t] = "idle")
           => ~initialized' /\ (\A t \in Tasks : pc'[t] = "idle")
      /\ phase = "run" /\ initialized' # initialized
           => mutex # NoTask /\ mutex' = mutex
<1>1. IInv /\ [Next]_vars => [A]_vars
  <2> SUFFICES ASSUME IInv, Next PROVE A
    OBVIOUS
  <2> USE BusAssumption DEF IInv, TypeOK, OneTaskOnTheWire, Tasks, Critical, Recovering,
        Counting, busVars, callVars, Goto, Return
  <2>1. CASE AddDevice \/ Abort \/ Spawn
    BY <2>1 DEF AddDevice, Abort, Spawn
  <2>2. ASSUME NEW t \in Tasks, Enter(t) PROVE A
    BY <2>2 DEF Enter, Guard
  <2>3. ASSUME NEW t \in Tasks, Proceed(t) PROVE A
    <3>1. pc[t] # "idle"
      BY <2>3 DEF Proceed, Recover, Take, TakeTimeout, Transfer, Retry, Scan, Give, CountLoad,
         CountStore, Teardown, Lower, Clock, Rebuild, Reattach, Raise
    <3>2. initialized' # initialized => pc[t] \in Critical /\ mutex' = mutex
      BY <2>3 DEF Proceed, Recover, Take, TakeTimeout, Transfer, Retry, Scan, Give, CountLoad,
         CountStore, Teardown, Lower, Clock, Rebuild, Reattach, Raise
    <3>3. QED
      BY <3>1, <3>2
  <2>4. QED
    BY <2>1, <2>2, <2>3 DEF Next
<1>2. QED
  BY <1>1, Invariance, PTL DEF Spec, DownIsFinal

(***************************************************************************)
(* The bus implements the safety part of its contract.                     *)
(***************************************************************************)
THEOREM Refinement == Spec => Contract!Safety
<1>1. Init => Contract!Init
  BY DEF Init, Contract!Init
<1>2. IInv /\ [Next]_vars => [Contract!Next]_(Contract!vars)
  <2> SUFFICES ASSUME IInv, [Next]_vars PROVE [Contract!Next]_(Contract!vars)
    OBVIOUS
  <2> USE BusAssumption DEF IInv, TypeOK, OneTaskOnTheWire, BootIsAlone, BusByPlace, Tasks,
        Critical, Recovering, Places, Counting, busVars, callVars, Goto, Return, Contract!vars
  <2>1. CASE AddDevice
    BY <2>1 DEF AddDevice
  <2>2. CASE Abort
    BY <2>2 DEF Abort, Contract!Restart, Contract!Next
  <2>3. CASE Spawn
    BY <2>3 DEF Spawn, Contract!Start, Contract!Next
  <2>4. ASSUME NEW t \in Tasks, Enter(t) PROVE [Contract!Next]_(Contract!vars)
    BY <2>4 DEF Enter, Guard, MayCall, Contract!Admit, Contract!Next
  <2>5. ASSUME NEW t \in Tasks, Take(t) PROVE [Contract!Next]_(Contract!vars)
    BY <2>5 DEF Take, Contract!Acquire, Contract!Next
  <2>6. ASSUME NEW t \in Tasks, TakeTimeout(t) PROVE [Contract!Next]_(Contract!vars)
    BY <2>6 DEF TakeTimeout, AfterTakeTimeout
  <2>7. ASSUME NEW t \in Tasks, Transfer(t) PROVE [Contract!Next]_(Contract!vars)
    BY <2>7 DEF Transfer
  <2>8. ASSUME NEW t \in Tasks, Retry(t) PROVE [Contract!Next]_(Contract!vars)
    BY <2>8 DEF Retry
  <2>9. ASSUME NEW t \in Tasks, Scan(t) PROVE [Contract!Next]_(Contract!vars)
    BY <2>9 DEF Scan
  <2>10. ASSUME NEW t \in Tasks, Give(t) PROVE [Contract!Next]_(Contract!vars)
    BY <2>10 DEF Give, AfterGive, Contract!Release, Contract!Leave, Contract!Next
  <2>11. ASSUME NEW t \in Tasks, CountLoad(t) PROVE [Contract!Next]_(Contract!vars)
    BY <2>11 DEF CountLoad
  <2>12. ASSUME NEW t \in Tasks, CountStore(t) PROVE [Contract!Next]_(Contract!vars)
    BY <2>12 DEF CountStore, Contract!Leave, Contract!Next
  <2>13. ASSUME NEW t \in Tasks, Teardown(t) PROVE [Contract!Next]_(Contract!vars)
    BY <2>13 DEF Teardown
  <2>14. ASSUME NEW t \in Tasks, Lower(t) PROVE [Contract!Next]_(Contract!vars)
    BY <2>14 DEF Lower, Contract!Switch, Contract!Next
  <2>15. ASSUME NEW t \in Tasks, Clock(t) PROVE [Contract!Next]_(Contract!vars)
    BY <2>15 DEF Clock, AfterClock
  <2>16. ASSUME NEW t \in Tasks, Rebuild(t) PROVE [Contract!Next]_(Contract!vars)
    BY <2>16 DEF Rebuild
  <2>17. ASSUME NEW t \in Tasks, Reattach(t) PROVE [Contract!Next]_(Contract!vars)
    BY <2>17 DEF Reattach, ReattachFails, EntriesInUse
  <2>18. ASSUME NEW t \in Tasks, Raise(t) PROVE [Contract!Next]_(Contract!vars)
    BY <2>18 DEF Raise, Contract!Switch, Contract!Next
  <2>19. CASE UNCHANGED vars
    BY <2>19 DEF vars
  <2>20. QED
    BY <2>1, <2>2, <2>3, <2>4, <2>5, <2>6, <2>7, <2>8, <2>9, <2>10, <2>11, <2>12, <2>13, <2>14,
       <2>15, <2>16, <2>17, <2>18, <2>19 DEF Next, Proceed, Recover
<1>3. QED
  BY <1>1, <1>2, Invariance, PTL DEF Spec, Contract!Safety

-----------------------------------------------------------------------------
(***************************************************************************)
(* How many of its own steps a call has at most before it, by the place it *)
(* has reached: two for each place further on, one less when the load of   *)
(* an `error_count++` is behind it.                                        *)
(***************************************************************************)
Ahead(place) ==
  CASE place = "idle"       -> 0
    [] place = "count_wait" -> 1
    [] place = "count_fail" -> 2
    [] place = "give"       -> 3
    [] place = "retry"      -> 4
    [] place = "raise"      -> 5
    [] place = "reattach"   -> 6
    [] place = "rebuild"    -> 7
    [] place = "clock"      -> 8
    [] place = "lower"      -> 9
    [] place = "teardown"   -> 10
    [] place = "count_wire" -> 11
    [] place = "scan"       -> 12
    [] place = "transfer"   -> 13
    [] place = "take"       -> 14

StepsLeft(t) == 2 * Ahead(pc[t]) + (IF loaded[t] = Nothing THEN 1 ELSE 0)

(***************************************************************************)
(* No call goes back: whatever the wire answers and the bus driver returns *)
(* there is one recovery and one retry, and a call that was let in returns *)
(* within 29 steps of its own; a step of another task or of app_main takes *)
(* it nowhere (i2c_bus.c:222-261; the safety that the fairness part of     *)
(* KeepsContract stands on).                                               *)
(***************************************************************************)
CallsGoForward ==
  [][\A t \in Tasks : pc[t] # "idle" =>
       /\ StepsLeft(t) \in 1 .. 29
       /\ \/ StepsLeft(t)' < StepsLeft(t)
          \/ pc'[t] = pc[t] /\ loaded'[t] = loaded[t]]_vars

LEMMA PlacesAhead ==
  \A place \in Places : Ahead(place) \in 0 .. 14 /\ (place # "idle" => Ahead(place) > 0)
<1>1. /\ Ahead("idle") = 0 /\ Ahead("count_wait") = 1 /\ Ahead("count_fail") = 2
      /\ Ahead("give") = 3 /\ Ahead("retry") = 4 /\ Ahead("raise") = 5
      /\ Ahead("reattach") = 6 /\ Ahead("rebuild") = 7
  BY DEF Ahead
<1>2. /\ Ahead("clock") = 8 /\ Ahead("lower") = 9 /\ Ahead("teardown") = 10
      /\ Ahead("count_wire") = 11 /\ Ahead("scan") = 12 /\ Ahead("transfer") = 13
      /\ Ahead("take") = 14
  BY DEF Ahead
<1>3. ASSUME NEW place \in Places
      PROVE  Ahead(place) \in 0 .. 14 /\ (place # "idle" => Ahead(place) > 0)
  BY <1>1, <1>2, <1>3 DEF Places, Critical, Recovering
<1>4. QED
  BY <1>3

\* A step further on is a step less, whichever half of a count it was at.
LEMMA FewerSteps ==
  ASSUME NEW a \in Nat, NEW b \in Nat, NEW x \in {0, 1}, NEW y \in {0, 1},
         b < a \/ (b = a /\ y < x)
  PROVE  2 * b + y < 2 * a + x
  OBVIOUS

LEMMA StepsAtMost ==
  ASSUME NEW a \in 1 .. 14, NEW x \in {0, 1}
  PROVE  2 * a + x \in 1 .. 29
  OBVIOUS

(***************************************************************************)
(* A step of a call leads to a place with less ahead, or loads the counter *)
(* it is about to store.                                                   *)
(***************************************************************************)
LEMMA ProceedGoesForward ==
  ASSUME IInv, NEW t \in Tasks, Proceed(t)
  PROVE  /\ \/ Ahead(pc'[t]) < Ahead(pc[t])
            \/ pc'[t] = pc[t] /\ loaded[t] = Nothing /\ loaded'[t] # Nothing
         /\ \A u \in Tasks \ {t} : pc'[u] = pc[u] /\ loaded'[u] = loaded[u]
<1>1. /\ pc \in [Tasks -> Places] /\ ret \in [Tasks -> Results]
      /\ loaded \in [Tasks -> {Nothing} \union (0 .. ErrorModulus - 1)]
      /\ errorCount \in 0 .. ErrorModulus - 1
  BY DEF IInv, TypeOK
<1>2. errorCount # Nothing
  BY <1>1, BusAssumption DEF Nothing
<1> USE DEF Goto, Return, busVars, callVars
<1>3. CASE Take(t) \/ TakeTimeout(t)
  BY <1>1, <1>3 DEF Take, TakeTimeout, AfterTakeTimeout, Ahead
<1>4. CASE Transfer(t) \/ Retry(t) \/ Scan(t)
  BY <1>1, <1>4 DEF Transfer, Retry, Scan, Ahead
<1>5. CASE Give(t)
  BY <1>1, <1>5 DEF Give, AfterGive, Ahead
<1>6. CASE CountLoad(t)
  <2>1. /\ pc' = pc /\ loaded[t] = Nothing
        /\ loaded' = [loaded EXCEPT ![t] = errorCount]
    BY <1>6 DEF CountLoad
  <2>2. QED
    BY <1>1, <1>2, <2>1
<1>7. CASE CountStore(t)
  <2>1. /\ pc[t] \in {"count_wait", "count_wire", "count_fail"}
        /\ pc' = [pc EXCEPT ![t] = IF pc[t] = "count_wire" THEN "teardown" ELSE "idle"]
        /\ loaded' = [loaded EXCEPT ![t] = Nothing]
    BY <1>7 DEF CountStore, Counting
  <2>2. pc'[t] = (IF pc[t] = "count_wire" THEN "teardown" ELSE "idle")
    BY <1>1, <2>1
  <2>3. Ahead(pc'[t]) < Ahead(pc[t])
    BY <2>1, <2>2 DEF Ahead
  <2>4. QED
    BY <1>1, <2>1, <2>3
<1>8. CASE Teardown(t) \/ Lower(t) \/ Clock(t)
  BY <1>1, <1>8 DEF Teardown, Lower, Clock, AfterClock, Ahead
<1>9. CASE Rebuild(t) \/ Reattach(t) \/ Raise(t)
  BY <1>1, <1>9 DEF Rebuild, Reattach, ReattachFails, Raise, Ahead
<1>10. QED
  BY <1>3, <1>4, <1>5, <1>6, <1>7, <1>8, <1>9 DEF Proceed, Recover

(***************************************************************************)
(* For every bus and every number of callers: a call past the guard has at *)
(* most 29 steps, and each step of its own is one less (i2c_bus.c:222-261).*)
(***************************************************************************)
THEOREM EveryCallEnds == Spec => CallsGoForward
<1>1. IInv /\ [Next]_vars =>
        [\A t \in Tasks : pc[t] # "idle" =>
           /\ StepsLeft(t) \in 1 .. 29
           /\ \/ StepsLeft(t)' < StepsLeft(t)
              \/ pc'[t] = pc[t] /\ loaded'[t] = loaded[t]]_vars
  <2>1. SUFFICES ASSUME IInv, Next, NEW t \in Tasks, pc[t] # "idle"
                 PROVE  /\ StepsLeft(t) \in 1 .. 29
                        /\ \/ StepsLeft(t)' < StepsLeft(t)
                           \/ pc'[t] = pc[t] /\ loaded'[t] = loaded[t]
    BY Zenon
  <2>2. pc[t] \in Places /\ pc'[t] \in Places
    <3>1. TypeOK /\ TypeOK'
      BY <2>1, InvNext DEF IInv
    <3>2. QED
      BY <3>1 DEF TypeOK
  <2> DEFINE a == Ahead(pc[t])
             b == Ahead(pc'[t])
             x == IF loaded[t] = Nothing THEN 1 ELSE 0
             y == IF loaded'[t] = Nothing THEN 1 ELSE 0
  <2>3. a \in 1 .. 14 /\ a \in Nat /\ b \in Nat /\ x \in {0, 1} /\ y \in {0, 1}
    BY <2>1, <2>2, PlacesAhead
  <2>4. StepsLeft(t) = 2 * a + x /\ StepsLeft(t)' = 2 * b + y
    BY DEF StepsLeft
  <2>5. ASSUME Proceed(t) PROVE StepsLeft(t)' < StepsLeft(t)
    <3>1. b < a \/ (b = a /\ y < x)
      BY <2>1, <2>5, ProceedGoesForward
    <3> HIDE DEF a, b, x, y
    <3>2. QED
      BY <2>3, <2>4, <3>1, FewerSteps
  <2>6. StepsLeft(t) \in 1 .. 29
    <3> HIDE DEF a, b, x, y
    <3>1. QED
      BY <2>3, <2>4, StepsAtMost
  <2>7. ASSUME NEW u \in Tasks, Proceed(u), u # t
        PROVE  pc'[t] = pc[t] /\ loaded'[t] = loaded[t]
    BY <2>1, <2>7, ProceedGoesForward
  <2>8. ASSUME NEW u \in Tasks, Enter(u) PROVE pc'[t] = pc[t] /\ loaded'[t] = loaded[t]
    BY <2>1, <2>2, <2>8 DEF Enter, MayCall, Return, Goto, IInv, TypeOK
  <2>9. ASSUME AddDevice \/ Abort \/ Spawn PROVE pc'[t] = pc[t] /\ loaded'[t] = loaded[t]
    BY <2>9 DEF AddDevice, Abort, Spawn, callVars
  <2> HIDE DEF a, b, x, y
  <2>10. QED
    BY <2>1, <2>5, <2>6, <2>7, <2>8, <2>9 DEF Next
<1>2. QED
  BY <1>1, Invariance, PTL DEF Spec, CallsGoForward
=============================================================================
