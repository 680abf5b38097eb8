# Verification of the FortuneLabs mainboard firmware

TLA+ models of the firmware in `src/firmware/main` (ESP32, ESP-IDF, FreeRTOS on
two cores), the TLC configurations that check them on small instances, and
TLAPS proofs of their safety properties for every value of the constants. Paths
below are relative to `src/firmware/main` unless they start with `src/`.

## 1. The system

`app_main` (`main.c:189-374`) boots the board: NVS, logging, configuration, OTA
check, the I2C bus, three queues, the drivers, WiFi and MQTT, the supervisor and
then the tasks. From there on the tasks run on two cores, with preemption.

| Component | State | Operations | Talks to |
|---|---|---|---|
| I2C bus (`bus/i2c_bus.c`) | `initialized`, master handle, registry of devices, mutex, error count | `add_device`, `write`, `read`, `write_read`, `scan`, recovery inside a transaction | drivers of the sensor, the panel and the expander call it from several tasks |
| Network manager (`network/network_manager.c`), MQTT transport | `s_wifi_connected`, `s_mqtt_connected`, topics | init and start, WiFi and MQTT event handlers, publish, telemetry task | event loop task, MQTT client task, supervisor, log sink; access point and broker outside |
| Logging facade (`system/system_log.c`) | sink, queue, `s_forwarding` | vprintf hook, forwarder task, sink registration | every task that logs; the sink publishes through the network manager |
| Application tasks (`tasks/`), routing (`main.c`) | queues for commands (5), texts (10) and a mailbox (1) | sensor, actuator, display and telemetry loops, `app_transport_command` | each other, through the queues only |
| Supervisor (`system/system_supervisor.c`) | copy of the configuration, milliseconds since the last heartbeat | feed the task watchdog, publish a heartbeat | network manager, watchdog |
| ADS1115 driver, sensor adapter | per-channel configuration, ready flag | `init`, `read`, `reset`, `deinit` | I2C bus, FreeRTOS clock |
| MCP23017 driver | ready flag, shadows of three pairs of registers | init, port and pin writes, toggle, reads | I2C bus; not wired yet |
| SSD1306 driver | ready flag, device handle | init, clear, text, brightness, deinit | I2C bus |
| Configuration store (`system/system_config.c`) | NVS handle, mutex; four keys in flash | init, load, set, reset, device id | boot; setters have no caller yet |
| OTA (`system/system_ota.c`) | image state in flash | stepped download, mark valid | boot, a test task, the display queue |
| Status LED (`drivers/output/status_led.c`), its task, dummy actuator | a level and a pin | init, set | `app_main` starts the task last |

What is hard here, and what makes each part correct:

* **Bus.** Two tasks and a recovery that tears the bus down under them; the flag
  is tested outside the mutex. Correct: one task on the wire, a flag that tells
  the truth, no call that hangs, no failure that is silent, and handles that
  survive a recovery.
* **Network.** Two event tasks write one flag, and outages come at any step.
  Correct: the flag and the session never part for good, every session
  subscribes, outages end in a connection.
* **Logging.** The reader of the queue also logs. Correct: no echo, no reordering,
  no blocking.
* **Tasks.** Consumers can hang or be slow, and two tasks command one output.
  Correct: sampling goes on, the last accepted command wins, readers catch up.
* **Supervisor.** Feeding and publishing share one loop. Correct: a publish that
  is short enough never lets the watchdog trip, and heartbeats come in time.
* **ADS1115.** A delay in milliseconds becomes whole ticks. Correct: a read
  returns its own conversion.
* **MCP23017.** A failed write may have arrived, and the chip survives a restart
  of the board. Correct: shadows match registers, a ready driver's chip is
  configured.
* **SSD1306.** The panel keeps its state over a restart and a lost byte shifts what
  follows. Correct: damage stays local as long as the panel is in page addressing,
  which only a disturbed init or brightness call can end, and the panel heals.
* **Boot, configuration, OTA.** Restarts and half-done flash writes. Correct: an
  image that cannot run is rolled back, and the passphrase of one network is not given
  to another, except after a `set_wifi` that stopped between its two writes.
* **Start-up.** From `esp_wifi_start` on, tasks run beside the rest of `app_main`.
  Correct: nothing is used before it is made, a lit LED means a finished boot, and
  any number of restarts ends in a connection.

`PROJECT.json` lists the hazards, each at its line, with the properties that
would catch it going wrong.

## 2. The modules

`X.tla` models a component, `MCX.tla` and `*.cfg` instantiate it for TLC (a module
whose constants are plain sets needs no `MCX`), `XProofs.tla` holds its theorems.
`PROJECT.json` ("map") gives the source lines behind every definition. Several
modules hold small alternative definitions that no other definition uses: each
stands above the one it resembles, and is a mistake the code might have made.
Putting it in the place of its neighbour breaks a property, which shows that the
property can fail.

| Composition | How |
|---|---|
| `Startup` = `NetworkManager` + `StatusLed` + `app_main` from the queues on | `EXTENDS`; one step of one process at a time |
| `HealthTopic` = `NetworkManager` + the broker's retained message | `EXTENDS`; the network's actions with their effect on the topic |
| `Boot` = `ConfigStore` + `app_main` from reset + the update | `EXTENDS`; a restart cuts both |
| `Board` implements `CommandLine`, `I2cBus` implements `BusContract` | `INSTANCE ... WITH`, the abstract `Spec` as a property |

**`I2cBus`** (with **`BusContract`**). `pc[t]` is the step of the transaction the
task is at; the code is cut where another core can see the difference: the
unlocked test of `initialized` (`Guard`/`Enter`), the mutex (`Take`,
`TakeTimeout`, `Give`), the wire (`Transfer`, `Retry`, `Scan`), each store of the
recovery (`Teardown`, `Lower`, `Clock`, `Rebuild`, `Reattach`, `Raise`), and the
load and store of `error_count++` (`CountLoad`, `CountStore`). `failures` and `collided`
are history: what the counter should say, and whether two increments ever met. `write`, `read` and
`write_read` have the same control and are one transaction; the mutex's
100 ms timeout may expire whenever the mutex is taken. `Main` scans,
registers the devices and aborts when one fails (a restart), then creates the
workers. `regLive` and `drvLive` are the registry's and the drivers' handles that
belong to the present master bus. `BusContract` says what callers may rely on:
who is let in, who owns the wire, who may take the bus down, and that a caller
leaves.

**`NetworkManager`.** Three processes of the board (event loop, MQTT client,
publishers) and two of the world (access point, broker). `handler` and `callback`
are the steps left of the event at hand; what runs under `s_status_mutex` is one
step. A publisher's test of the flag and its publish are two steps. A subscription
may be refused, an `esp_wifi_connect` may return an error (`joinRefused`). The module
has actions only; the next two put them together.

**`Startup`** adds the second half of `app_main` (`main.c:241-374`), a step at a time:
`at` is the number of the next step, and the record `app_main` gives each step its
number. `Made(step)` says what exists. Three publishers (supervisor, telemetry, log
forwarder) run from the step that starts them (`RunsFrom`). The board may restart
at any moment, and only the access point and the broker stay. Tasks whose
`xTaskCreate` nobody checks may be `missing`. **`StatusLed`** has the LED's pin, the
driver's flag and level, and the task that blinks it.

**`HealthTopic`** adds what the broker keeps of the health topic: the last will of a
dead session and the message it retains.

**`SystemLog`.** A log call is three steps (`pc`): write to serial, test of
the guard and the sink, send without waiting. The forwarder (`task_log_forwarder`)
receives, raises the guard, runs the sink, in which it may itself log, and lowers
the guard.

**`Board`** (with **`CommandLine`**). Each task is a loop over its steps; the queues are
sequences with their sends' zero wait. Drawing on the panel is a step that may never
come. `input` is the voltage at the pin; the wire carries 16 bits (`Bits`), which the
adapter turns back into a signed code (`SignedCode`) before it is compared with the
LED's threshold, so a voltage below 0 V is a case of its own. Reading it may fail.
`CommandLine` says what the sender of a command may rely on: an accepted command is
applied once and in its turn.

**`Supervisor`.** One process and two clocks: `fed` counts from the last feed,
`quiet` from the last heartbeat. A publish takes 0 to `MaxPublish`, a delay is one
`tick_ms`; the count `since_publish_ms` is the code's, with its width. The
heartbeat's JSON is modelled by the lengths it can have (`HeartbeatLengths`): the loop
publishes only one that fits its buffer, and `HeartbeatFits` proves that each does
(129 characters at most, of 160).

**`Ads1115`.** The driver and the sensor adapter above it, against a clock in
milliseconds: the phase of the FreeRTOS tick, the running conversion, and whose
result the register holds. `init` and `reset` write the factory word, which starts a
conversion of another input (`ResetMs`); a trigger that fails may have reached the
chip. The data rate is one of the table's (`MCAds1115`), each with the delay the
driver's table gives it and the time the conversion takes.

**`Mcp23017`.** One caller and the chip: its registers, `IOCON.BANK` (which changes
what an address means), and which registers a failed call left in doubt. A
failed write may or may not have arrived. A restart forgets the shadows only.
`ReadPort` and `ReadPin` leave what they told in `answer`, so that `InSync` can compare it
with the chip: an output that is not in doubt reads back what it was set to, through
the chip's polarity.

**`Ssd1306`.** One caller and the panel, one transaction of the bus at a time; its
specification is named `PanelSpec`, so that one module can prove about both drivers. The
panel has a decoder (`awaiting` the second byte of a command), an addressing
mode, a page, a column and its rows. A transaction may arrive, be lost, be
reported lost although it arrived, or arrive twice because the bus retried it.
A restart forgets the ready flag and leaves the panel as it is. A text is drawn
through the font: a character without a glyph is a space, what does not fit is cut.
(The six characters from Z to underscore, which no text of the board has, are looked up
behind the end of the font: some drawing, always the same.) Two history variables:
`expected` is what each row must show after the calls so far, and `upset` says that since
the last init that arrived a transaction of an init or a brightness call, the two that send
a byte and then its value, was lost, repeated or cut off by a restart. Such a value can
become a command of its own and take the panel out of page addressing, as can a repeated
`0x20` of init (`drivers/ic/ssd1306.c:84`); there a text spoils every row. `DamageIsLocal`
says that nothing else leads there, and excepts the texts that meet that mode.

**`ConfigStore`.** Three of the four keys of the namespace (nobody sets the device
id), the mutex and the flag `system_config_init` sets, and per task the step of its
call (`pc`) and what it stores (`arg`). A call is a step per write to flash; each may
fail, having written its value or not, and the board may restart between two. The firmware
calls `init` and `load` only; the two tasks that call the others stand for the provisioning
they are written for. `sound` is a history variable, false from the moment a `set_wifi` has
written the name of a network until its passphrase is written, or until a later `set_wifi`
or an erasure goes through: after a failure or a restart between the two writes the store
really holds a name with another network's passphrase.

**`Boot`** extends it by the board's life from reset to running. `at` is the next step
of `app_main`; `sys_cfg` is its snapshot of the settings; `running`, `boot`, `image`
and `state` are the two slots of the flash as the bootloader sees them; `ota` is where
`system_ota_perform` is. A step that fails is a restart (`Fault`), power may fail at any
time (`PowerCut`), in the middle of the erasure at boot too (`Wiping`, `main.c:195`), which
may leave any of the keys, and a new image may be good or abort before (`early`) or after
(`late`) the check of line 222. `calm` is the environment's: from then on nothing fails.
`rollback` chooses the build, with the bootloader's rollback or without it.

## 3. The runs

| Run | Checks | Shows |
|---|---|---|
| `i2c` | `TypeOK`, `OneTaskOnTheWire`, `UpMeansUsable`, `DownMeansTornDown`, `RebuiltOnFreeLine`, `FailuresAreCounted`, `KeepsContract` | the bus keeps its promises through every failure of the wire and of each step of a recovery, a call that is let in comes to its end, and `error_count` is the number of failures until two tasks are inside `error_count++` at once (then counts are lost: the increments after a time-out of the mutex and after the give are not locked) |
| `i2c_handles` | `HandlesSurviveRecovery` (fails) | drivers keep handles of the deleted bus |
| `net` | `SysTypeOK`, `FlagHasSession`, `SessionIsSeen`, `NothingUsedEarly`, `LedMeansBooted`, `Recovers` | while the board starts and restarts at any step and outages come and go, nothing is used before it is made, flag and session agree, a lit LED tells of a finished boot, and the board ends up connected with nothing left to deliver |
| `net_retained` | `RetainedIsLatest` (fails) | the retained OFFLINE outlives the outage |
| `log` | `TypeOK`, `NoEcho`, `RemoteInOrder`, `LoggingReturns`, `LinesLeave` | no echo, no reordering, no blocking |
| `board` | `TypeOK`, `LastCommandWins`, `CommandsInOrder`, `SamplingGoesOn`, `TelemetryCatchesUp`, `PanelCatchesUp` | data crosses the board although queues fill and the panel hangs, and every accepted command is applied once and in order |
| `supervisor` | `TypeOK`, `FedInTime`, `HeartbeatInTime` | cadences hold for every small configuration, degenerate ones included |
| `ads1115` | `TypeOK`, `FreshWhenCovered` | with a margin that covers the tick a read returns its own conversion, at every data rate |
| `ads1115_board` | `ReadsItsOwn` (fails) | with the board's tick it does not |
| `expander` | `TypeOK`, `InSync`, `ReadyMeansConfigured` | shadows and registers part only after a failed call, and outputs read back what they were set to |
| `display` | `PanelTypeOK`, `DamageIsLocal`, `InitBringsIntoStep`, `RowRecovers` | the panel leaves page addressing only after a disturbed init or brightness call, and while no text meets another mode a bad bus spoils no row but the call's and the one the panel was at; an init that arrives repairs any panel, and a text shown again and again repairs its row |
| `boot` | `TypeOK`, `PassphraseFits`, `RestartsIntoNewImage`, `BoardComesUp` | through failures, power cuts and updates at any step only whole images are started, and the board comes up once nothing fails; through concurrent setters, cut erasures and failed reads a name goes with its own passphrase or none, but not after a `set_wifi` that stopped between its two writes |

Bounds, and why they are enough:

* `i2c`: the two workers the board has, two devices, a registry of two, a budget
  of two pulses on a line that needs zero to three, an error counter that
  wraps at 3. Devices matter only as registered before or after the one whose
  re-adding fails; pulses only as enough, just enough or too few.
* `net`: all three publishers of the board, every step of the start-up, no bound on
  outages or restarts. `net_retained` has two publishers on a board that is up.
* `log`: two tasks and the forwarder with three lines each, a queue of two: the
  queue fills, drops, and drains with lines of both tasks in it. Loggers stop at
  `MaxLines`, the only bound, so the run may end and deadlock is not checked.
* `board`: two commands, one text, a voltage above the LED's threshold and one just
  below 0 V: every queue is full and dropping in many states.
* `supervisor`: every timeout of 1 to 12 with every period of 0 to 14 and a tick of 2,
  so that the timeout that cannot be halved, the period that is no multiple of
  the delay and the missing period all occur.
* `ads1115`: all seven data rates of the table with ticks of 1, 2, 3 and 5 ms. The
  margin covers ticks of 1 and 2 ms, where the property speaks; the two others
  go beyond it. The theorems cover the rest.
* `expander`: two pins on one port and one on the other, one configuration, and a
  chip found in either bank with each register all ones or all zeroes. A call for a whole
  port writes zeroes to the one and ones to the other; the calls for a pin write both
  values to each.
* `display`: three rows, a call's own, the one the panel was at and another, and one
  text that is not blank, too long for its row and with a character the font lacks; no
  bound on calls, failures or restarts.
* `boot`: two tasks that store settings, two networks, one broker, both builds, every
  kind of image in either slot; no bound on calls, updates or restarts. Two networks
  are enough for a name and a passphrase that do not belong together.

Fairness, and what it stands on:

* Bus: each step of a call is eventually taken. The waits in it have timeouts
  (100 ms for the mutex, 100 ms for a transfer), and the owner of the mutex is not
  starved: every other task blocks.
* Network: `app_main`, the WiFi driver, both event tasks and the client work when they
  have something to do, and a publisher that found the flag set goes on to publish.
  Nothing is assumed of the weather or of restarts: `Recovers` says so in its premise,
  as it does that `esp_wifi_connect` returns no error.
* Logging: tasks and the forwarder are scheduled. A publish is not fair:
  `LoggingReturns` holds also when it hangs.
* Board: sensor, actuator and telemetry loops go on, and the display task takes
  a text when it waits for one. Drawing is not fair. Telemetry's turn
  stands for its turns with a connection.
* Display: none. `RowRecovers` says in its premise that texts go on being shown and
  that each transaction arrives once from some time on.
* Boot: `app_main`'s steps only; nothing else runs before it ends that could starve
  it. That the environment stops failing is `BoardComesUp`'s premise (`calm`).
* `Supervisor`, `Ads1115` and `Mcp23017` have no liveness property and no
  fairness; that a publish ends within `MaxPublish` is part of `Supervisor`'s step.

Taken from outside the repository: lwIP drops the TCP connections of an interface
that goes down (`SessionIsSeen`); a task's delay of n ticks ends at the n-th tick from
now, and a conversion lasts the inverse of its rate (`Ads1115`); the address
map of the expander under each bank; the panel's commands (a page or column
command acts in page addressing only, data wraps at the end of its row);
a key is in flash when `nvs_set_str` returns `ESP_OK`, and may be when it returns an error
(`ESP_ERR_NVS_REMOVE_FAILED`); an erasure that is cut short, of the namespace or of the
partition at boot, may have removed any of the keys; the update library refuses to begin
while the running image is on trial, verifies the image in its finish and only then
changes the slot to start next; the bootloader gives a new image one start, and goes back
when it is not confirmed by the next (`Boot`).

## 4. What disagrees

* `i2c_handles`: `bus/i2c_bus.c:213` renews `entry->handle` only. The copy each
  driver was given (`:105`) still names the deleted bus, and the retry at `:250`
  uses it. `bus/i2c_bus.h:45`: "re-applied after a bus recovery".
* `net_retained`: the last will is retained (`network/network_manager.c:272`),
  heartbeats on its topic are not (`:349`), so the broker's retained status stays
  OFFLINE after the first outage.
* `ads1115_board`: `pdMS_TO_TICKS` rounds down and the first tick is a fraction, so
  with `CONFIG_FREERTOS_HZ=100` and 128 samples per second a read can fetch the
  previous result; at 250 and above it does not wait at all. The unit test's
  tick is 1 ms (`src/firmware/test/test_ads1115`).

Seen and not pursued with a run:

* The font (`drivers/ic/ssd1306.c:21-49`) has no glyph for 6 to 9, the point and the
  colon, among others, so a panel that is to show a voltage shows spaces for them. Its
  comment speaks of 0x20 to 0x5F, which are 64 characters; the table has 58.
* `drivers/ic/mcp23017.h:120-121` says the shadows are in sync with the chip at all
  times; a call that fails parts them (`doubt`). `init` never writes the input polarity,
  so what an earlier run inverted stays inverted (`ReadsBack` speaks through it).
* The unit tests' bus (`src/firmware/test/mock_i2c_bus.c`) never lets a write that fails
  reach the registers, so they cannot meet the case that `doubt` is there for.
* A call made while another task rebuilds the bus is refused (`bus/i2c_bus.c:232`),
  although `:122-123` says no task can observe the rebuild.
* The MQTT flag can be set while the WiFi flag is clear
  (`network/network_manager.c:105` against the comment at `:65`), which harms nobody.
* A toggle of an expander pin that fails leaves the shadow inverted, so the retry
  writes back what the pin already is and returns `ESP_OK`
  (`drivers/ic/mcp23017.c:319-321`).
* `show_text` looks at none of the results of its addressing commands
  (`drivers/ic/ssd1306.c:137-139`), so it can return `ESP_OK` with the text on the row
  the panel was at.
* Feeding and publishing share one loop (`system/system_supervisor.c:123`, `:133`; the
  header, `:22-25`, calls them decoupled). `FedInTime` holds for publishes that end
  within `MaxPublish` of the budget; one that blocks as long as the watchdog's timeout
  trips it.
* `system_config_load` returns `ESP_OK` whatever `load_str` returned
  (`system/system_config.c:115-128`); `system/system_config.h:64` promises the error of a
  key that is present and cannot be read. `Load` has the code's behaviour, which is
  why `PassphraseFits` allows a name without a passphrase.
* The built-in profile also replaces a stored broker when only the name of the network
  is missing (`main.c:211-216`); `src/firmware/Readme.md:204` says "when NVS is blank".
* An image is marked valid before the bus, the drivers and the network were tried
  (`main.c:222`), so one that aborts later (`late`) is never taken back, and
  `BoardComesUp` excludes it. This build has no rollback at all (`src/firmware/sdkconfig:285`)
  and one slot for an application (`:420`), where an update cannot begin.
* Every boot with a network downloads the same image and restarts
  (`main.c:106-147`); the comment above it and `src/firmware/Readme.md:201` call it
  scaffolding.

## 5. What is proved

For every value of the constants that satisfies the module's `ASSUME`:

* **`I2cBusProofs`**: all six invariants of the run `i2c`, that a bus that is down
  without a recovery at work stays down (`DownIsFinal`), and that every step of the bus
  is a step or a stutter of `BusContract` (`Refinement`, its safety part). `EveryCallEnds`
  gives a call a number that each of its steps lowers (`StepsLeft`, 29 at most): there is
  no loop in a transaction, however recovery and retry turn out. `IInv` says
  what is true at each place of a call. The properties alone are not inductive:
  `UpMeansUsable` needs to know, for each step of the recovery, which of flag, handle
  and registry have already changed (`BusByPlace`), `FailuresAreCounted` that before a
  collision one task at most is at its increment and the counter is behind by that one
  (`CountByPlace`), and all of them that `Main` is alone until the workers exist
  (`BootIsAlone`).
* **`StartupProofs`**: all five invariants of the run `net`, for any names of the tasks
  and any number of restarts and outages. `BootInStep` says what is still untouched
  before the client is built and the radio is on; `RadioAndEvents` which events of the
  last attempt the event loop has still to take, the fact behind `SessionIsSeen`: while a
  session carries data no handler is about to clear the flags; `ClientAndHandler` that
  the client's own handler runs in step with the client; `LedInStep` ties the pin to
  the task and the task to the end of `app_main`.
* **`BoardProofs`**: `TypeOK`, `LastCommandWins` and the safety part of the refinement of
  `CommandLine`, for every depth of the queues and any voltages; and that the adapter's
  cast restores every signed code of 16 bits (`SignedCodeIsVoltage`). The invariant adds
  that the step the sensor is at has a sample to work on (`Sampled`).
  `TelemetryHasNoBacklog` follows from `MailboxIsCurrent`: except between the read and the
  overwrite the mailbox holds the last sample read. In between telemetry reports the
  sample before, never an older one.
* **`SystemLogProofs`**: `TypeOK`, `NoEcho` and `RemoteInOrder`, for every set of
  tasks, depth and number of lines. `GuardCoversSink` ties the guard to the
  forwarder's place, and `LinesByAge` orders a task's lines along their way from the
  task to the queue, the forwarder and the sink. `QueuedLinesMoveUp` says of each step
  that a queued line keeps its place, moves up, or comes to the forwarder's hand.
* **`SupervisorProofs`**: `TypeOK`, `FedInTime`, `HeartbeatInTime`, and `SafeCadence`:
  with a timeout of at least 2 and a period, the task feeds twice per timeout and
  once per period. The invariant splits each time budget by the place in the
  loop. `ConfigAssumption` asks that period plus delay fit in 32 bits.
* **`Mcp23017Proofs`**: `TypeOK`, `InSync`, `ReadyMeansConfigured`, for every wiring,
  configuration and set of masks. `Progress` says which registers a running init has
  written; it needs the first write, which reaches the bank bit whichever bank the chip
  was left in. `PinsStayApart`: the byte that a call about one pin writes comes from the
  shadow, and still no other pin of a register that is not in doubt changes.
* **`DriverProofs`**, of the two drivers whose device has a life of its own.
  Of `Ads1115`: `TypeOK`, `FreshWhenCovered`: a margin of two ticks less 2 ms is
  enough for every table of rates and every tick. The invariant relates the sleep to the
  time the conversion has left (`Sleeping`, `Converting`), with the reset's conversion
  and a failed trigger's excepted as `disturbed`. `ShortTicksAreFresh` applies it to the
  code's 2 ms: with ticks of at most 2 ms no rate reads an older result. (The board's tick
  is 10 ms, and there the run `ads1115_board` finds one.)

  Of `Ssd1306`: `PanelTypeOK`, `DamageIsLocal` (`DamageStaysLocal`) and
  `InitBringsIntoStep`, for any number of rows, any texts and any caller. That the panel
  stays in page addressing while no init or brightness call was upset rests on
  `UpsetInStep`: until then the panel awaits a value just when the call's next byte is one
  (`CommandArrives`), and no transaction of a text, a clear or deinit, however lost or
  repeated, makes it await one (`QuietSends`). `PanelInv` ties the panel to the call:
  `CallInStep` (what is still to be sent is the rest of what the call sends), `PageInStep`
  (during a row the panel is at the page it was at or at the call's), `RowInStep` (how far
  a row that arrives has brought page and column) and `InitInStep` (after its first
  command an init that arrives has the panel awaiting a value just when the next byte is
  one, and page addressing is set once its `0x02` is behind). The last rests on `Whole`:
  `init_cmds` is a sequence of whole commands that begins with one of a single byte, which
  is what frees a panel left in the middle of one. `Moves` sums up what any attempt at a
  transaction may do to the panel, so that one, two, or half of one are treated alike.
  `TwoShowingsHeal` is the step of `RowRecovers`: a showing that arrives brings the panel
  into step, and one that begins in step ends with its text on its row.
  `ContentsAssumption` only says that the markers of a spoiled and of an unknown row are
  no texts.
* **`BootProofs`**: `TypeOK`, `PassphraseFits` (`NoForeignPassphrase`),
  `RestartsIntoNewImage`, and `TrialHasWayBack`: while the running image is on trial, the
  other slot is whole. `PassphraseFits` has one premise, `sound`: no `set_wifi` stopped
  between its two writes without being made good since. Erasures that are cut, at boot or
  in `reset`, need none: they take keys away and never pair two networks. The invariant adds
  what the properties stand on: `PairOfOnePiece` (in a sound store the passphrase is that of
  the name or missing, and a task between its two writes holds the value of the first),
  `SnapshotLives` (before and after `app_main` there is no snapshot), `WayBack` (where the
  slots are at each place of an update), and `StoreOpens` (the store is open from its step
  on, and nobody uses it before `app_main` has ended). The store's actions, the slots' and
  the snapshot's are proved apart and meet in `InvNext`.

Each proof has the same shape: `InvInit`, `InvNext` with one step per action, then
`Invariance`, from which the properties are read off.

Every invariant and every action property of the passing runs is proved. Only
model-checked: what is temporal beyond `[]`, liveness under fairness, which is out of
the prover's reach: `Recovers`, `LoggingReturns`, `LinesLeave`, `SamplingGoesOn`,
`TelemetryCatchesUp`, `PanelCatchesUp`, `RowRecovers`, `BoardComesUp`, and the fairness part
of `KeepsContract` and `CommandsInOrder`. For five of these the step that the liveness
stands on is proved, for every value of the constants: `EveryCallEnds` (`KeepsContract`),
`QueuedLinesMoveUp` (`LinesLeave`), `TelemetryHasNoBacklog` (`TelemetryCatchesUp`),
`TwoShowingsHeal` (`RowRecovers`) and `CommandsAreNeitherLostNorReordered`
(`CommandsInOrder`); what is left to TLC there is that the steps are taken. The three
runs that end in a violation have nothing to prove. `SignedCode` and `Bits` are proved for
all 16-bit codes; no other part computes over data of unbounded length.

## 6. What is not modelled

* The vendored display library (`src/firmware/components/ssd1306`), which the firmware's
  own driver replaces; the unit tests; the hardware and the documents.
* Operations without a caller in the firmware: `i2c_bus_deinit` and the getters of the
  bus, `network_manager_subscribe` and the transport's `subscribe` and `deinit`,
  `system_log_unregister_sink` and the log levels, `get`, `set_all` and `deinit` of the LED
  and the dummy actuator, and the dummy sensor.
* The transport's `publish` and `is_connected`, which only pass the call on.
* Guards against calls with a null pointer or before an init, where `app_main`'s order
  rules them out (`Startup` and `Boot` show that order); the formatting of lines, topics
  and texts for the panel beyond the font; the scaling of a code to volts, which is one
  multiplication by a constant.
* Time, except in `Supervisor` and `Ads1115`: a timeout may expire whenever its wait is
  entered.
* Memory: `xQueueCreate` and `xTaskCreate` fail only where the code looks at the result
  (a restart) or where it does not (`missing` in `Startup`).

The hazards in `PROJECT.json` that no property covers say why in their note: most are
choices of the code that no document contradicts (what to do without a device, which of
two masters wins when a command is dropped), and a property against them would state a
wish.
