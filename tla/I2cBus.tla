------------------------------- MODULE I2cBus -------------------------------
(***************************************************************************)
(* The shared I2C master bus of main/bus/i2c_bus.c: one bus handle, one    *)
(* mutex, a registry of devices, and the self-healing procedure that a     *)
(* transaction runs, with the mutex held, when the wire times out.         *)
(*                                                                         *)
(* Main is the task that runs app_main: it scans the bus, registers the    *)
(* devices one at a time and writes their first commands, then creates the *)
(* Workers (the sensor and the display task), which call the bus for ever. *)
(* A transaction is cut where another task, running on the other core, can *)
(* see the difference: the unlocked test of `initialized`, the mutex, each *)
(* store of the recovery, and the load and the store of `error_count++`.   *)
(*                                                                         *)
(* A one-line definition that stands directly above the one it resembles   *)
(* and is used nowhere is a mistake the code might have made: PROJECT.json *)
(* names the property that notices it.                                     *)
(***************************************************************************)
EXTENDS Integers

CONSTANTS
  Main,           \* the task that runs app_main
  Workers,        \* the tasks app_main creates
  NumDevices,     \* how many devices app_main registers
  DeviceOf,       \* the device each worker's driver talks to
  MaxDevices,     \* I2C_BUS_MAX_DEVICES (8)
  RecoveryClocks, \* I2C_BUS_RECOVERY_CLOCKS (9)
  ErrorModulus,   \* error_count is a uint32_t: 2^32
  NoTask          \* the owner of a mutex that nobody holds

Tasks == Workers \union {Main}

ASSUME BusAssumption ==
  /\ Main \notin Workers
  /\ NoTask \notin Tasks
  /\ MaxDevices \in Nat
  /\ NumDevices \in 1 .. MaxDevices
  /\ DeviceOf \in [Workers -> 1 .. NumDevices]
  /\ RecoveryClocks \in Nat
  /\ ErrorModulus \in Nat \ {0}

VARIABLES
  phase,       \* what app_main has reached: "scan", "attach" or "run"
  initialized, \* bus->initialized
  busHandle,   \* is bus->bus_handle a master bus (TRUE) or NULL (FALSE)?
  mutex,       \* the owner of bus->mutex
  deviceCount, \* bus->device_count
  regLive,     \* registry entries whose handle belongs to the bus of busHandle
  drvLive,     \* devices whose driver's own handle belongs to that bus
  errorCount,  \* bus->error_count
  sda,         \* SCL pulses the slave needs before it lets go of SDA (0: free)
  pc,          \* where each task is in its call
  ret,         \* the esp_err_t each task's call has so far
  loaded,      \* the value an `error_count++` in progress has loaded
  failures,    \* history: the failures that calls met, wrapping like the counter
  collided     \* history: two tasks were inside an `error_count++` at once

busVars  == <<initialized, busHandle, deviceCount, regLive, drvLive>>
tally    == <<failures, collided>>
callVars == <<ret, loaded, tally>>
vars     == <<phase, mutex, errorCount, sda, pc, busVars, callVars>>

(***************************************************************************)
(* The places of a call.  Counting ones are inside an `error_count++`;     *)
(* Critical ones are between the mutex's Take and its Give.                *)
(***************************************************************************)
Counting   == {"count_wait", "count_wire", "count_fail"}
Recovering == {"teardown", "lower", "clock", "rebuild", "reattach", "raise"}
Critical   == {"transfer", "scan", "count_wire", "retry", "give"} \union Recovering
Places     == {"idle", "take", "count_wait", "count_fail"} \union Critical

Errors  == {"TIMEOUT", "FAIL", "INVALID_STATE"}
Results == {"none", "OK"} \union Errors
Nothing == -1

Goto(t, place)   == pc' = [pc EXCEPT ![t] = place]
Return(t, place, result) ==
  /\ Goto(t, place)
  /\ ret' = [ret EXCEPT ![t] = result]

\* The tally of a failure, which enables and prevents nothing.
Failure(t) ==
  /\ failures' = (failures + 1) % ErrorModulus
  /\ collided' = (collided \/ \E u \in Tasks \ {t} : pc[u] \in Counting)

Registered == 1 .. deviceCount
Target(t)  == IF t = Main THEN deviceCount ELSE DeviceOf[t]

-----------------------------------------------------------------------------
(***************************************************************************)
(* i2c_bus_init succeeded.  When it fails, ESP_ERROR_CHECK aborts app_main *)
(* and the chip starts again from this state.                              *)
(***************************************************************************)
Init ==
  /\ phase = "scan"
  /\ initialized = TRUE
  /\ busHandle = TRUE
  /\ mutex = NoTask
  /\ deviceCount = 0
  /\ regLive = {}
  /\ drvLive = {}
  /\ errorCount = 0
  /\ sda = 0
  /\ pc = [t \in Tasks |-> "idle"]
  /\ ret = [t \in Tasks |-> "none"]
  /\ loaded = [t \in Tasks |-> Nothing]
  /\ failures = 0 /\ collided = FALSE

(***************************************************************************)
(* i2c_bus_add_device, called by the drivers' init functions from app_main *)
(* without the mutex; no worker exists yet.  A failure of the bus driver   *)
(* is an abort.                                                            *)
(***************************************************************************)
AddDevice ==
  /\ phase = "attach" /\ pc[Main] = "idle" /\ ret[Main] \in {"none", "OK"}
  /\ deviceCount < NumDevices
  /\ initialized /\ deviceCount < MaxDevices
  /\ deviceCount' = deviceCount + 1
  /\ regLive' = regLive \union {deviceCount + 1}
  /\ drvLive' = drvLive \union {deviceCount + 1}
  /\ UNCHANGED <<phase, initialized, busHandle, mutex, errorCount, sda, pc, callVars>>

(***************************************************************************)
(* ESP_ERROR_CHECK on a driver's init: the chip restarts and app_main      *)
(* builds the bus again.  A slave that holds SDA is not reset with it.     *)
(***************************************************************************)
Abort ==
  /\ phase = "attach" /\ pc[Main] = "idle"
  /\ \/ ret[Main] \in Errors
     \/ deviceCount < NumDevices       \* i2c_master_bus_add_device failed
  /\ phase' = "scan"
  /\ initialized' = TRUE
  /\ busHandle' = TRUE
  /\ deviceCount' = 0
  /\ regLive' = {}
  /\ drvLive' = {}
  /\ errorCount' = 0
  /\ ret' = [t \in Tasks |-> "none"]
  /\ failures' = 0 /\ collided' = FALSE
  /\ UNCHANGED <<mutex, sda, pc, loaded>>

\* app_main creates the tasks and returns: its own task makes no more calls.
Spawn ==
  /\ phase = "attach" /\ pc[Main] = "idle" /\ ret[Main] \in {"none", "OK"}
  /\ deviceCount = NumDevices
  /\ phase' = "run"
  /\ UNCHANGED <<mutex, errorCount, sda, pc, busVars, callVars>>

-----------------------------------------------------------------------------
(***************************************************************************)
(* i2c_bus_write, i2c_bus_read and i2c_bus_write_read are the same         *)
(* transaction with another transfer; i2c_bus_scan shares the entry.       *)
(***************************************************************************)
MayCall(t) ==
  /\ pc[t] = "idle"
  /\ IF t = Main
     THEN \/ phase = "scan"
          \/ phase = "attach" /\ deviceCount > 0 /\ ret[t] \in {"none", "OK"}
     ELSE phase = "run"

\* `if (bus == NULL || !bus->initialized) return ESP_ERR_INVALID_STATE`,
\* evaluated before the mutex is taken.
Guard == initialized

Enter(t) ==
  /\ MayCall(t)
  /\ IF Guard
     THEN Return(t, "take", "none")
     ELSE Return(t, "idle", "INVALID_STATE")
  /\ UNCHANGED <<phase, mutex, errorCount, sda, busVars, loaded, tally>>

\* xSemaphoreTake returns with the mutex.
Take(t) ==
  /\ pc[t] = "take"
  /\ mutex = NoTask
  /\ mutex' = t
  /\ Goto(t, IF phase = "scan" THEN "scan" ELSE "transfer")
  /\ UNCHANGED <<phase, errorCount, sda, busVars, callVars>>

\* xSemaphoreTake gives up: somebody held the mutex for I2C_BUS_TIMEOUT_MS.
UnownedTransfer == "transfer"
WaitAgain       == "take"
AfterTakeTimeout == "count_wait"

TakeTimeout(t) ==
  /\ pc[t] = "take"
  /\ mutex # NoTask
  /\ Return(t, AfterTakeTimeout, "TIMEOUT")
  /\ Failure(t)
  /\ UNCHANGED <<phase, mutex, errorCount, sda, busVars, loaded>>

(***************************************************************************)
(* What i2c_master_transmit and its siblings may answer (ESP-IDF's driver, *)
(* external).  A line held low times out.  A handle whose bus was deleted  *)
(* is a dangling pointer: any answer is possible.                          *)
(***************************************************************************)
Answer(t) ==
  IF Target(t) \in drvLive /\ sda > 0 THEN {"TIMEOUT"} ELSE {"OK", "FAIL", "TIMEOUT"}

\* A time-out can leave the slave holding SDA for some number of pulses.
WireAfter(result) ==
  IF result = "TIMEOUT" /\ sda = 0 THEN 0 .. RecoveryClocks + 1 ELSE {sda}

Transfer(t) ==
  /\ pc[t] = "transfer"
  /\ \E result \in Answer(t) :
       /\ sda' \in WireAfter(result)
       /\ Return(t, IF result = "TIMEOUT" THEN "count_wire" ELSE "give", result)
       /\ IF result = "TIMEOUT" THEN Failure(t) ELSE UNCHANGED tally
  /\ UNCHANGED <<phase, mutex, errorCount, busVars, loaded>>

\* The second attempt, I2C_BUS_RECOVERY_RETRY (1) times, on the handle the
\* caller passed in before the bus was rebuilt.
Retry(t) ==
  /\ pc[t] = "retry"
  /\ \E result \in Answer(t) :
       /\ sda' \in WireAfter(result)
       /\ Return(t, "give", result)
  /\ UNCHANGED <<phase, mutex, errorCount, busVars, loaded, tally>>

\* The probes of i2c_bus_scan change nothing and their errors are not counted.
Scan(t) ==
  /\ pc[t] = "scan"
  /\ Return(t, "give", "OK")
  /\ UNCHANGED <<phase, mutex, errorCount, sda, busVars, loaded, tally>>

\* xSemaphoreGive, and the test of the result that follows it.
UncountedReturn(result) == "idle"
AfterGive(result) == IF result = "OK" THEN "idle" ELSE "count_fail"

Give(t) ==
  /\ pc[t] = "give"
  /\ mutex' = NoTask
  /\ Goto(t, AfterGive(ret[t]))
  /\ phase' = IF phase = "scan" THEN "attach" ELSE phase
  /\ IF ret[t] = "OK" THEN UNCHANGED tally ELSE Failure(t)
  /\ UNCHANGED <<errorCount, sda, busVars, ret, loaded>>

-----------------------------------------------------------------------------
(***************************************************************************)
(* bus->error_count++ is a load and a store.  Only the one after a wire    *)
(* time-out is made with the mutex held.                                   *)
(***************************************************************************)
CountLoad(t) ==
  /\ pc[t] \in Counting
  /\ loaded[t] = Nothing
  /\ loaded' = [loaded EXCEPT ![t] = errorCount]
  /\ UNCHANGED <<phase, mutex, errorCount, sda, pc, busVars, ret, tally>>

CountStore(t) ==
  /\ pc[t] \in Counting
  /\ loaded[t] # Nothing
  /\ errorCount' = (loaded[t] + 1) % ErrorModulus
  /\ loaded' = [loaded EXCEPT ![t] = Nothing]
  /\ Goto(t, IF pc[t] = "count_wire" THEN "teardown" ELSE "idle")
  /\ UNCHANGED <<phase, mutex, sda, busVars, ret, tally>>

-----------------------------------------------------------------------------
(***************************************************************************)
(* _i2c_bus_recover_locked.  Deleting the master bus invalidates every     *)
(* device handle made on it; re-adding a device writes only entry->handle. *)
(***************************************************************************)
Teardown(t) ==
  /\ pc[t] = "teardown"
  /\ busHandle' = FALSE
  /\ regLive' = {}
  /\ drvLive' = {}
  /\ Goto(t, "lower")
  /\ UNCHANGED <<phase, initialized, mutex, deviceCount, errorCount, sda, callVars>>

Lower(t) ==
  /\ pc[t] = "lower"
  /\ initialized' = FALSE
  /\ Goto(t, "clock")
  /\ UNCHANGED <<phase, busHandle, mutex, deviceCount, regLive, drvLive, errorCount, sda,
                 callVars>>

\* Pulse SCL until SDA rises or the budget is spent; give up if it is spent.
UncheckedLine == "rebuild"
AfterClock == IF sda <= RecoveryClocks THEN "rebuild" ELSE "give"

Clock(t) ==
  /\ pc[t] = "clock"
  /\ sda' = IF sda <= RecoveryClocks THEN 0 ELSE sda - RecoveryClocks
  /\ Goto(t, AfterClock)
  /\ UNCHANGED <<phase, mutex, errorCount, busVars, callVars>>

Rebuild(t) ==
  /\ pc[t] = "rebuild"
  /\ \/ busHandle' = TRUE /\ Goto(t, "reattach")
     \/ busHandle' = FALSE /\ Goto(t, "give")      \* i2c_new_master_bus failed
  /\ UNCHANGED <<phase, initialized, mutex, deviceCount, regLive, drvLive, errorCount, sda,
                 callVars>>

\* The registry is re-added as a whole, or the new bus is deleted again.
WholeTable   == 1 .. MaxDevices
EntriesInUse == Registered

ContinuePartly(t) == regLive' = {} /\ busHandle' = TRUE /\ Goto(t, "raise")
LeaveNewBus(t)    == regLive' = {} /\ busHandle' = TRUE /\ Goto(t, "give")
ReattachFails(t)  == regLive' = {} /\ busHandle' = FALSE /\ Goto(t, "give")

Reattach(t) ==
  /\ pc[t] = "reattach"
  /\ \/ regLive' = EntriesInUse /\ busHandle' = TRUE /\ Goto(t, "raise")
     \/ EntriesInUse # {} /\ ReattachFails(t)
  /\ UNCHANGED <<phase, initialized, mutex, deviceCount, drvLive, errorCount, sda, callVars>>

Raise(t) ==
  /\ pc[t] = "raise"
  /\ initialized' = TRUE
  /\ Goto(t, "retry")
  /\ UNCHANGED <<phase, busHandle, mutex, deviceCount, regLive, drvLive, errorCount, sda,
                 callVars>>

Recover(t) ==
  Teardown(t) \/ Lower(t) \/ Clock(t) \/ Rebuild(t) \/ Reattach(t) \/ Raise(t)

-----------------------------------------------------------------------------
\* A step of a call that has passed the test of `initialized`.
Proceed(t) ==
  \/ Take(t) \/ TakeTimeout(t)
  \/ Transfer(t) \/ Retry(t) \/ Scan(t) \/ Give(t)
  \/ CountLoad(t) \/ CountStore(t)
  \/ Recover(t)

Next ==
  \/ AddDevice \/ Abort \/ Spawn
  \/ \E t \in Tasks : Enter(t) \/ Proceed(t)

\* Every wait inside a call has a time-out and every task is scheduled, so a
\* call in progress takes its next step; nothing makes a task start one.
Fairness == \A t \in Tasks : WF_vars(Proceed(t))

Spec == Init /\ [][Next]_vars /\ Fairness

-----------------------------------------------------------------------------
(***************************************************************************)
(* Type correctness: every variable of the bus and of its callers has a    *)
(* value the C declarations allow.                                         *)
(***************************************************************************)
TypeOK ==
  /\ phase \in {"scan", "attach", "run"}
  /\ initialized \in BOOLEAN
  /\ busHandle \in BOOLEAN
  /\ mutex \in Tasks \union {NoTask}
  /\ deviceCount \in 0 .. NumDevices
  /\ regLive \subseteq Registered
  /\ drvLive \subseteq Registered
  /\ errorCount \in 0 .. ErrorModulus - 1
  /\ sda \in 0 .. RecoveryClocks + 1
  /\ pc \in [Tasks -> Places]
  /\ ret \in [Tasks -> Results]
  /\ loaded \in [Tasks -> {Nothing} \union (0 .. ErrorModulus - 1)]
  /\ failures \in 0 .. ErrorModulus - 1
  /\ collided \in BOOLEAN

(***************************************************************************)
(* "Serializes all bus access, including recovery" (i2c_bus.h:44): the     *)
(* task that owns the mutex is the one between its Take and its Give, and  *)
(* two tasks never transfer, scan or rebuild at the same time.             *)
(***************************************************************************)
OneTaskOnTheWire ==
  \A t \in Tasks : pc[t] \in Critical <=> mutex = t

(***************************************************************************)
(* "True once bus_handle is valid and ready for transactions"              *)
(* (i2c_bus.h:51): whenever the guard of a call would let it in, there is  *)
(* a master bus and every registry entry is attached to it.  The one       *)
(* exception is the store between deleting the bus and clearing the flag.  *)
(***************************************************************************)
UpMeansUsable ==
  initialized =>
    \/ busHandle /\ regLive = Registered
    \/ mutex # NoTask /\ pc[mutex] = "lower"

(***************************************************************************)
(* "a bus that is clearly down" (i2c_bus.c:202): when a recovery has given *)
(* up, whichever of its steps failed, it has left neither a master bus nor *)
(* an attached device behind the cleared flag.                             *)
(***************************************************************************)
DownMeansTornDown ==
  ~initialized =>
    \/ ~busHandle /\ regLive = {}
    \/ mutex # NoTask /\ pc[mutex] \in {"reattach", "raise"}

(***************************************************************************)
(* The master bus is only rebuilt, and the transaction only repeated, over *)
(* a line the slave has released: the pulses are never cut short.          *)
(***************************************************************************)
RebuiltOnFreeLine ==
  \A t \in Tasks : pc[t] \in {"rebuild", "reattach", "raise", "retry"} => sda = 0

(***************************************************************************)
(* "Lifetime transaction error count" (i2c_bus.h:49): when no increment is *)
(* in progress, error_count is the number of failures that calls past the  *)
(* guard have met, be it a mutex not obtained, a wire time-out or the      *)
(* final error of a transaction.  It is exact until two tasks are inside   *)
(* their `error_count++` at the same time; from then on counts may be      *)
(* missing, because most of the increments are not made under the mutex.   *)
(***************************************************************************)
FailuresAreCounted ==
  ~collided /\ (\A t \in Tasks : pc[t] \notin Counting) => errorCount = failures

(***************************************************************************)
(* Once the tasks run, a bus that is down with nobody past the guard stays *)
(* down: every later call is refused at the guard, so no call is left that *)
(* could recover it.  Only the mutex's owner ever changes the flag.        *)
(***************************************************************************)
DownIsFinal ==
  [][/\ phase = "run" /\ ~initialized /\ (\A t \in Tasks : pc[t] = "idle")
        => ~initialized' /\ (\A t \in Tasks : pc'[t] = "idle")
     /\ phase = "run" /\ initialized' # initialized
        => mutex # NoTask /\ mutex' = mutex]_vars

(***************************************************************************)
(* The inductive invariant behind the safety properties.  Its parts say    *)
(* what the property a call relies on looks like at each place of a call,  *)
(* where the properties only speak of the places an outsider can see.      *)
(***************************************************************************)
\* app_main is alone until it has created the tasks, and gone afterwards.
BootIsAlone ==
  /\ phase # "run" => \A w \in Workers : pc[w] = "idle"
  /\ phase = "run" => pc[Main] = "idle" /\ deviceCount = NumDevices

\* The flag, the handle and the registry, by the place the owner has reached.
BusByPlace ==
  /\ \A t \in Tasks :
       /\ pc[t] = "lower" => ~busHandle /\ regLive = {}
       /\ pc[t] \in {"clock", "rebuild"} => ~initialized /\ ~busHandle /\ regLive = {}
       /\ pc[t] = "reattach" => ~initialized /\ busHandle /\ regLive = {}
       /\ pc[t] = "raise" => ~initialized /\ busHandle /\ regLive = Registered
  /\ (\A t \in Tasks : pc[t] \notin {"lower", "clock", "rebuild", "reattach", "raise"}) =>
       IF initialized THEN busHandle /\ regLive = Registered
                      ELSE ~busHandle /\ regLive = {}

\* Before a collision one task at most is at its increment, and the counter is
\* behind by that one.
CountByPlace ==
  /\ \A t \in Tasks : pc[t] \notin Counting => loaded[t] = Nothing
  /\ ~collided => \A t \in Tasks : pc[t] \in Counting =>
       /\ \A u \in Tasks : pc[u] \in Counting => u = t
       /\ loaded[t] \in {Nothing, errorCount}
       /\ failures = (errorCount + 1) % ErrorModulus

IInv ==
  /\ TypeOK
  /\ OneTaskOnTheWire
  /\ BootIsAlone
  /\ BusByPlace
  /\ RebuiltOnFreeLine
  /\ CountByPlace
  /\ FailuresAreCounted

(***************************************************************************)
(* The bus implements its contract: with `initialized` for up, the calls   *)
(* past the guard for the callers inside and the mutex's owner for the     *)
(* owner, every step of the transaction and of the recovery is a step the  *)
(* contract allows; and a call that was let in leaves, whatever the wire,  *)
(* the bus driver and the other tasks do, also when a recovery fails.      *)
(***************************************************************************)
Contract == INSTANCE BusContract WITH
  Callers <- Tasks,
  Nobody  <- NoTask,
  running <- phase = "run",
  up      <- initialized,
  inside  <- {t \in Tasks : pc[t] # "idle"},
  owner   <- mutex

KeepsContract == Contract!Spec

(***************************************************************************)
(* "re-applied after a bus recovery" (i2c_bus.h:45), and "one where some   *)
(* devices silently lost their handle" is what the code means to avoid     *)
(* (i2c_bus.c:200-203): a device handle given to the bus driver while the  *)
(* bus is up belongs to the bus that is up.                                *)
(***************************************************************************)
HandlesSurviveRecovery ==
  \A t \in Tasks : pc[t] = "retry" => Target(t) \in drvLive

=============================================================================
