--------------------------- MODULE DriverProofs ---------------------------
(***************************************************************************)
(* Proofs about the two drivers whose device has a life of its own:        *)
(* Ads1115, for every table of rates, tick and margin, and Ssd1306, for a  *)
(* panel of any size, any texts, and any number of lost and repeated       *)
(* transactions and restarts.                                              *)
(***************************************************************************)
EXTENDS Ads1115, Ssd1306, TLAPS, SequenceTheorems

-----------------------------------------------------------------------------
(***************************************************************************)
(* The converter.                                                          *)
(***************************************************************************)

(***************************************************************************)
(* What rounding down to ticks loses is less than a tick.                  *)
(***************************************************************************)
LEMMA TicksBound ==
  ASSUME NEW d \in Nat, NEW t \in Nat \ {0}
  PROVE  /\ d \div t \in Nat
         /\ (d \div t) * t <= d
         /\ d < (d \div t) * t + t
  OBVIOUS

(***************************************************************************)
(* At least one tick is at least as long as a tick.                        *)
(***************************************************************************)
LEMMA TimesPositive ==
  ASSUME NEW n \in Nat \ {0}, NEW t \in Nat
  PROVE  n * t >= t
<1>1. PICK k \in Nat : n = k + 1
  <2>1. n - 1 \in Nat /\ n = (n - 1) + 1
    OBVIOUS
  <2>2. QED
    BY <2>1
<1>2. n * t = k * t + t /\ k * t >= 0
  BY <1>1
<1>3. QED
  BY <1>1, <1>2

(***************************************************************************)
(* The sleep of line 165 is no longer than delay_ms, and shorter by less   *)
(* than two ticks unless it is no sleep at all.  With a margin that covers *)
(* two ticks it is as long as the conversion.                              *)
(***************************************************************************)
LEMMA SleepBound ==
  ASSUME rate \in Rates, tick_ms \in TickSizes, phase \in 0..(tick_ms - 1)
  PROVE  /\ delay_ms \in Nat /\ rate.conversion \in Nat \ {0}
         /\ SleepFor(Ticks(delay_ms)) \in 0..delay_ms
         /\ MarginCovers => SleepFor(Ticks(delay_ms)) >= rate.conversion
<1> DEFINE t == tick_ms
           n == delay_ms \div t
<1>1. /\ t \in Nat \ {0} /\ Margin \in Nat
      /\ rate.table \in Nat /\ rate.conversion \in Nat \ {0}
      /\ rate.conversion <= rate.table
  BY AdsAssumption
<1>2. delay_ms \in Nat /\ delay_ms = rate.table + Margin
  BY <1>1 DEF delay_ms
<1>3. n \in Nat /\ n * t <= delay_ms /\ delay_ms < n * t + t
  BY <1>1, <1>2, TicksBound
<1>4. SleepFor(Ticks(delay_ms)) = IF n = 0 THEN 0 ELSE n * t - phase
  BY DEF SleepFor, Ticks
<1>5. n # 0 => n * t >= t
  BY <1>1, <1>3, TimesPositive
<1>6. n * t \in Nat
  BY <1>1, <1>3
<1>7. CASE n = 0
  <2>1. delay_ms < t
    BY <1>1, <1>3, <1>7
  <2>2. ~MarginCovers
    BY <1>1, <1>2, <2>1 DEF MarginCovers
  <2>3. QED
    BY <1>1, <1>2, <1>4, <1>7, <2>2
<1>8. CASE n # 0
  <2> DEFINE m == n * t
  <2>1. m \in Nat /\ m <= delay_ms /\ delay_ms < m + t /\ m >= t
    BY <1>3, <1>5, <1>6, <1>8
  <2>2. SleepFor(Ticks(delay_ms)) = m - phase
    BY <1>4, <1>8
  <2> HIDE DEF m
  <2>3. QED
    BY <1>1, <1>2, <2>1, <2>2 DEF MarginCovers
<1>9. QED
  BY <1>7, <1>8

-----------------------------------------------------------------------------
(***************************************************************************)
(* The sleep counts down to a wake-up.                                     *)
(***************************************************************************)
Sleeping == at = "sleep" => sleep > 0

(***************************************************************************)
(* A conversion of this call exists from its trigger on, and when it is    *)
(* over its result is in the register.  With a margin that covers, a call  *)
(* that nothing disturbs finds the chip idle, sleeps at least as long as   *)
(* its conversion takes, and leaves the chip idle again.                   *)
(***************************************************************************)
Converting ==
  /\ at = "trigger" => running # "mine"
  /\ running = "mine" /\ left = 0 => register = "mine"
  /\ MarginCovers /\ ~disturbed =>
       /\ at \in {"idle", "trigger", "fetch"} => left = 0
       /\ at \in {"sleep", "fetch"} => running = "mine"
       /\ at = "sleep" => left <= sleep

IInv == TypeOK /\ Sleeping /\ Converting

(***************************************************************************)
(* The initial states satisfy the invariant.                               *)
(***************************************************************************)
LEMMA InvInit == Init => IInv
<1>1. SUFFICES ASSUME Init PROVE IInv
  OBVIOUS
<1>2. /\ tick_ms \in Nat \ {0} /\ delay_ms \in Nat /\ rate.conversion \in Nat
      /\ ResetMs \in Nat
  BY <1>1, AdsAssumption DEF Init, delay_ms
<1>3. disturbed /\ disturbed \in BOOLEAN /\ initialized \in BOOLEAN /\ s_initialized = initialized
  BY <1>1, Zenon DEF Init
<1>4. QED
  BY <1>1, <1>2, <1>3 DEF Init, IInv, TypeOK, Sleeping, Converting, Whose

(***************************************************************************)
(* What the chip does with a word, under either definition of "it took".   *)
(***************************************************************************)
LEMMA ChipTakesOrNot ==
  ASSUME TypeOK, NEW w \in Whose, NEW word \in {config_word, CONFIG_RESET},
         MayHaveTaken(word, w)
  PROVE  /\ left' \in Nat /\ (left' <= rate.conversion \/ left' <= ResetMs)
         /\ running' \in Whose
         /\ \/ left' = left /\ running' = running
            \/ left' # 0 /\ running' = w
<1>1. word.ms \in {rate.conversion, ResetMs}
  BY DEF config_word, CONFIG_RESET
<1>2. rate.conversion \in Nat \ {0} /\ ResetMs \in Nat \ {0}
  BY AdsAssumption DEF TypeOK
<1>3. (left' = word.ms /\ running' = w) \/ (left' = left /\ running' = running)
  BY DEF MayHaveTaken, ChipTakes
<1>4. QED
  BY <1>1, <1>2, <1>3 DEF TypeOK

(***************************************************************************)
(* Every step preserves it.                                                *)
(***************************************************************************)
LEMMA InvNext == IInv /\ [Next]_vars => IInv'
<1>1. SUFFICES ASSUME IInv, [Next]_vars PROVE IInv'
  OBVIOUS
<1> USE <1>1 DEF IInv
<1>2. /\ tick_ms \in Nat \ {0} /\ Margin \in Nat /\ delay_ms \in Nat
      /\ rate.conversion \in Nat \ {0} /\ ResetMs \in Nat \ {0}
  BY AdsAssumption DEF TypeOK, delay_ms
<1>3. ASSUME Ms PROVE IInv'
  <2>1. /\ delay_ms' = delay_ms /\ MarginCovers' = MarginCovers /\ rate' = rate /\ tick_ms' = tick_ms
        /\ UNCHANGED <<flags, running>>
    BY <1>3 DEF Ms, delay_ms, MarginCovers, fixed
  <2>2. left \in Nat /\ left' = IF left > 0 THEN left - 1 ELSE 0
    BY <1>3 DEF Ms, TypeOK
  <2>3. disturbed' \in BOOLEAN /\ (~disturbed' => ~disturbed \/ (at \notin {"sleep", "fetch"} /\ ~(left' > 0)))
    BY <1>3, Zenon DEF Ms
  <2>4. /\ at' \in {"idle", "trigger", "sleep", "fetch"} /\ phase' \in 0..(tick_ms - 1)
        /\ sleep' \in 0..delay_ms
        /\ left' \in Nat /\ (left' <= rate.conversion \/ left' <= ResetMs)
        /\ register' \in Whose
    BY <1>2, <1>3, <2>2 DEF Ms, TypeOK, Sleeping
  <2>5. TypeOK'
    BY <2>1, <2>3, <2>4 DEF TypeOK, flags
  <2>6. Sleeping'
    BY <1>2, <1>3 DEF Ms, TypeOK, Sleeping
  <2>7. (at = "trigger" => running # "mine")' /\ (running = "mine" /\ left = 0 => register = "mine")'
    BY <1>3, <2>1, <2>2 DEF Ms, TypeOK, Converting
  <2>8. ASSUME MarginCovers, ~disturbed'
        PROVE  /\ at' \in {"idle", "trigger", "fetch"} => left' = 0
               /\ at' \in {"sleep", "fetch"} => running' = "mine"
               /\ at' = "sleep" => left' <= sleep'
    <3>1. CASE ~disturbed
      BY <1>2, <1>3, <2>1, <2>2, <2>8, <3>1 DEF Ms, TypeOK, Sleeping, Converting
    <3>2. CASE at \notin {"sleep", "fetch"} /\ ~(left' > 0)
      BY <1>3, <2>2, <2>4, <3>2 DEF Ms, TypeOK
    <3>3. QED
      BY <2>3, <2>8, <3>1, <3>2
  <2>9. QED
    BY <2>1, <2>5, <2>6, <2>7, <2>8 DEF Converting
<1>4. ASSUME SensorInit \/ SensorInitFails \/ Reset PROVE IInv'
  <2>1. /\ at = "idle" /\ at' = at /\ UNCHANGED <<rate, tick_ms, phase, sleep, register>>
        /\ MayHaveTaken(CONFIG_RESET, "reset")
    BY <1>4 DEF SensorInit, SensorInitFails, Reset, MayHaveTaken, fixed
  <2>2. /\ disturbed' \in BOOLEAN /\ disturbed'
        /\ initialized' \in BOOLEAN /\ s_initialized' = initialized'
    BY <1>4, Zenon DEF SensorInit, SensorInitFails, Reset, TypeOK, flags
  <2>3. /\ left' \in Nat /\ (left' <= rate.conversion \/ left' <= ResetMs) /\ running' \in Whose
        /\ \/ left' = left /\ running' = running
           \/ left' # 0 /\ running' = "reset"
    BY <2>1, ChipTakesOrNot DEF Whose
  <2>4. delay_ms' = delay_ms
    BY <2>1 DEF delay_ms
  <2>5. TypeOK'
    BY <2>1, <2>2, <2>3, <2>4 DEF TypeOK
  <2>6. Sleeping' /\ Converting'
    BY <2>1, <2>2, <2>3 DEF Sleeping, Converting
  <2>7. QED
    BY <2>5, <2>6
<1>5. ASSUME SensorDeinit PROVE IInv'
  <2>1. initialized' \in BOOLEAN /\ s_initialized' = initialized'
    BY <1>5, Zenon DEF SensorDeinit, Deinit
  <2>2. UNCHANGED <<rate, tick_ms, at, phase, sleep, left, running, register, disturbed>>
    BY <1>5 DEF SensorDeinit, Deinit, fixed, chip
  <2>3. TypeOK'
    BY <2>1, <2>2 DEF TypeOK, delay_ms
  <2>4. Sleeping' /\ Converting'
    BY <2>2 DEF Sleeping, Converting, MarginCovers
  <2>5. QED
    BY <2>3, <2>4
<1>6. ASSUME SensorRead PROVE IInv'
  <2>1. /\ at = "idle" /\ at' = "trigger"
        /\ UNCHANGED <<rate, tick_ms, flags, phase, sleep, left, disturbed>>
        /\ running' \in {"older", "reset"} /\ register' \in {"older", "reset"}
    BY <1>6 DEF SensorRead, NotMine, TypeOK, Whose, fixed
  <2>2. TypeOK'
    BY <2>1 DEF TypeOK, flags, delay_ms, Whose
  <2>3. Sleeping' /\ Converting'
    BY <2>1 DEF Sleeping, Converting, MarginCovers
  <2>4. QED
    BY <2>2, <2>3
<1>7. ASSUME Trigger PROVE IInv'
  <2> DEFINE s == SleepFor(Ticks(delay_ms))
  <2>1. s \in 0..delay_ms /\ (MarginCovers => s >= rate.conversion)
    BY SleepBound DEF TypeOK
  <2>2. sleep' = s /\ at' = IF s = 0 THEN "fetch" ELSE "sleep"
    BY <1>7 DEF Trigger
  <2>3. /\ delay_ms' = delay_ms /\ MarginCovers' = MarginCovers
        /\ UNCHANGED <<rate, tick_ms, flags, phase, register, disturbed>>
    BY <1>7 DEF Trigger, delay_ms, MarginCovers, fixed
  <2> HIDE DEF s
  <2>4. at = "trigger" /\ IF left = 0 THEN left' = rate.conversion /\ running' = "mine"
                          ELSE UNCHANGED <<left, running>>
    BY <1>7 DEF Trigger, ChipTakes, config_word
  <2>5. /\ left' \in Nat /\ (left' <= rate.conversion \/ left' <= ResetMs) /\ running' \in Whose
    BY <1>2, <2>4 DEF TypeOK, Whose
  <2>6. TypeOK'
    BY <2>1, <2>2, <2>3, <2>5 DEF TypeOK, flags
  <2>7. Sleeping'
    BY <1>2, <2>1, <2>2, <2>3 DEF Sleeping
  <2>8. (at = "trigger" => running # "mine")' /\ (running = "mine" /\ left = 0 => register = "mine")'
    BY <1>2, <2>2, <2>3, <2>4 DEF Converting, TypeOK
  <2>9. ASSUME MarginCovers, ~disturbed
        PROVE  /\ at' \in {"idle", "trigger", "fetch"} => left' = 0
               /\ at' \in {"sleep", "fetch"} => running' = "mine"
               /\ at' = "sleep" => left' <= sleep'
    BY <1>2, <2>1, <2>2, <2>4, <2>9 DEF Converting
  <2>10. QED
    BY <2>3, <2>6, <2>7, <2>8, <2>9 DEF Converting
<1>8. ASSUME TriggerFails PROVE IInv'
  <2>1. /\ at' = "idle" /\ UNCHANGED <<rate, tick_ms, flags, phase, sleep, register>>
        /\ MayHaveTaken(config_word, "older") /\ at = "trigger"
    BY <1>8 DEF TriggerFails, fixed
  <2>2. disturbed' \in BOOLEAN /\ disturbed'
    BY <1>8, Zenon DEF TriggerFails
  <2>3. /\ left' \in Nat /\ (left' <= rate.conversion \/ left' <= ResetMs) /\ running' \in Whose
        /\ \/ left' = left /\ running' = running
           \/ left' # 0 /\ running' = "older"
    BY <2>1, ChipTakesOrNot DEF Whose
  <2>4. TypeOK'
    BY <2>1, <2>2, <2>3 DEF TypeOK, flags, delay_ms
  <2>5. Sleeping' /\ Converting'
    BY <2>1, <2>2, <2>3 DEF Sleeping, Converting
  <2>6. QED
    BY <2>4, <2>5
<1>9. ASSUME Fetch PROVE IInv'
  <2>1. /\ at = "fetch" /\ at' = "idle"
        /\ UNCHANGED <<rate, tick_ms, flags, phase, sleep, left, running, register, disturbed>>
    BY <1>9 DEF Fetch, fixed, chip
  <2>2. TypeOK'
    BY <2>1 DEF TypeOK, flags, delay_ms
  <2>3. Sleeping' /\ Converting'
    BY <2>1 DEF Sleeping, Converting, MarginCovers
  <2>4. QED
    BY <2>2, <2>3
<1>10. ASSUME UNCHANGED vars PROVE IInv'
  <2>1. UNCHANGED <<rate, tick_ms, flags, at, phase, sleep, left, running, register, disturbed>>
    BY <1>10 DEF vars, fixed, chip
  <2>2. TypeOK'
    BY <2>1 DEF TypeOK, flags, delay_ms
  <2>3. Sleeping' /\ Converting'
    BY <2>1 DEF Sleeping, Converting, MarginCovers
  <2>4. QED
    BY <2>2, <2>3
<1>11. QED
  BY <1>1, <1>3, <1>4, <1>5, <1>6, <1>7, <1>8, <1>9, <1>10 DEF Next, ads1115_read

(***************************************************************************)
(* The invariant holds in every reachable state.                           *)
(***************************************************************************)
THEOREM Invariance == Spec => []IInv
  BY InvInit, InvNext, PTL DEF Spec

(***************************************************************************)
(* Type correctness of the driver's and the converter's state (TypeOK).    *)
(***************************************************************************)
THEOREM TypeCorrect == Spec => []TypeOK
<1>1. IInv => TypeOK
  BY DEF IInv
<1>2. QED
  BY <1>1, Invariance, PTL

(***************************************************************************)
(* A margin of two ticks less two milliseconds is enough for every rate,   *)
(* wherever in a tick a read starts and however close reads follow each    *)
(* other (FreshWhenCovered; ads1115.c:155-174).                            *)
(***************************************************************************)
THEOREM CoveredReadsAreFresh == Spec => []FreshWhenCovered
<1>1. IInv => FreshWhenCovered
  BY DEF IInv, Converting, FreshWhenCovered, ReadsItsOwn
<1>2. QED
  BY <1>1, Invariance, PTL

(***************************************************************************)
(* The code's margin of 2 ms (ads1115.h:41) promises what ads1115.h:7-9    *)
(* says wherever ticks are no longer than 2 ms, CONFIG_FREERTOS_HZ of 500  *)
(* and more: there the read of every rate in the table fetches its own     *)
(* conversion.                                                             *)
(***************************************************************************)
THEOREM ShortTicksAreFresh ==
  ASSUME Margin = 2, \A t \in TickSizes : t <= 2
  PROVE  Spec => []ReadsItsOwn
<1>1. IInv => ReadsItsOwn
  <2>1. SUFFICES ASSUME IInv PROVE ReadsItsOwn
    OBVIOUS
  <2>2. tick_ms \in Nat /\ tick_ms <= 2
    BY <2>1, AdsAssumption DEF IInv, TypeOK
  <2>3. MarginCovers
    BY <2>2 DEF MarginCovers
  <2>4. QED
    BY <2>1, <2>3 DEF IInv, Converting, ReadsItsOwn
<1>2. QED
  BY <1>1, Invariance, PTL

-----------------------------------------------------------------------------
(***************************************************************************)
(* The panel.  RowOps are the calls that write rows; a byte of Bytes is    *)
(* any transaction the driver makes; Writes(c) is all the call c sends, or *)
(* the part of it for one row.                                             *)
(***************************************************************************)
RowOps == {"text"} \union Clears
Bytes == [kind : {"plain", "arg", "value", "mode", "paged", "page", "low", "high", "data"},
          row : Rows, text : Contents]

Writes(c) ==
  CASE c.op = "init"   -> init_cmds
    [] c.op = "level"  -> Brightness
    [] c.op = "deinit" -> Plain
    [] c.op \in RowOps -> RowWrites(c.row, c.text)

\* s is what w ends with, and not empty.
IsRest(s, w) ==
  /\ s \in Seq(Bytes) /\ Len(s) \in 1 .. Len(w)
  /\ \A i \in 1 .. Len(s) : s[i] = w[Len(w) - Len(s) + i]

(***************************************************************************)
(* What is still to be sent is the rest of what the call sends.            *)
(***************************************************************************)
CallInStep ==
  /\ call.text \in Intended
  /\ call.op \in Clears => call.text = Blank
  /\ IF call.op = "idle" THEN call = Idle /\ todo = <<>> ELSE IsRest(todo, Writes(call))

(***************************************************************************)
(* The page moves only to the row of the call, and each row shows what it  *)
(* must (the second part of DamageIsLocal).                                *)
(***************************************************************************)
PageInStep == call.op \in RowOps => panel.page \in {call.from, call.row}

RowsAccounted == \A r \in Rows : expected[r] \in {Unknown, panel.ram[r]}

(***************************************************************************)
(* As long as everything arrives once, a panel that was in step stays so,  *)
(* and is at the row's page once that was sent, and at its first column    *)
(* once both halves of that were.                                          *)
(***************************************************************************)
RowInStep ==
  call.op \in RowOps /\ once /\ call.inStep =>
    /\ InStep(panel)
    /\ Len(todo) < 4 => panel.page = call.row
    /\ Len(todo) < 3 => "low" \notin panel.col
    /\ Len(todo) < 2 => "high" \notin panel.col

(***************************************************************************)
(* And during init: after its first command the panel awaits a value just  *)
(* when the next byte is one, and after the last 0x02 it is in page        *)
(* addressing, wherever the board before it left the panel.                *)
(***************************************************************************)
Awaited(b) ==
  CASE b.kind = "arg" -> "value" [] b.kind = "mode" -> "mode" [] OTHER -> "nothing"

InitInStep ==
  call.op = "init" /\ once =>
    /\ Len(todo) < Len(init_cmds) =>
         panel.awaiting = Awaited(init_cmds[Len(init_cmds) - Len(todo)])
    /\ (\A i \in 1 .. Len(todo) : todo[i].kind # "paged") => panel.mode = "page"

Cleared(p, n) == \A r \in Rows : r < n => p.ram[r] = Blank

ClearInStep == call.op = "init clear" /\ once => call.inStep /\ Cleared(panel, call.row)

(***************************************************************************)
(* The inductive invariant of the panel.                                   *)
(***************************************************************************)
PanelInv ==
  /\ PanelTypeOK /\ RowsAccounted
  /\ CallInStep /\ PageInStep /\ RowInStep /\ InitInStep /\ ClearInStep

-----------------------------------------------------------------------------
LEMMA RowsAndContents ==
  /\ 0 \in Rows /\ Rows \subseteq Nat /\ NumRows \in Nat \ {0}
  /\ Blank \in Intended /\ Intended \subseteq Contents /\ Garbled \in Contents
  /\ Garbled \notin Intended
  /\ \A text \in Texts : Drawn(text) \in Intended
BY PanelAssumption, ContentsAssumption DEF Rows, Intended, Contents

(***************************************************************************)
(* Commands and their values are bytes, and so is what a row is sent.      *)
(***************************************************************************)
LEMMA SentBytes ==
  /\ \A k \in {"plain", "arg", "value", "mode", "paged", "low", "high"} :
       Cmd(k) \in Bytes /\ Cmd(k).kind = k
  /\ \A r \in Rows : PageCmd(r) \in Bytes /\ PageCmd(r).kind = "page" /\ PageCmd(r).row = r
  /\ \A x \in Contents : Data(x) \in Bytes /\ Data(x).kind = "data" /\ Data(x).text = x
BY RowsAndContents DEF Bytes, Cmd, PageCmd, Data

(***************************************************************************)
(* The four transactions of a row.                                         *)
(***************************************************************************)
LEMMA RowSequence ==
  ASSUME NEW r \in Rows, NEW x \in Contents
  PROVE  /\ RowWrites(r, x) \in Seq(Bytes) /\ Len(RowWrites(r, x)) = 4
         /\ RowWrites(r, x)[1] = PageCmd(r)
         /\ RowWrites(r, x)[2] = Cmd("low") /\ RowWrites(r, x)[3] = Cmd("high")
         /\ RowWrites(r, x)[4] = Data(x)
<1>1. PageCmd(r) \in Bytes /\ Cmd("low") \in Bytes /\ Cmd("high") \in Bytes /\ Data(x) \in Bytes
  BY SentBytes
<1>2. QED
  BY <1>1 DEF RowWrites

(***************************************************************************)
(* A sequence of whole commands: each first byte of two is followed by its *)
(* value, and no value stands alone.                                       *)
(***************************************************************************)
Opening == {"plain", "arg", "mode"}

Whole(s) ==
  /\ s \in Seq(Bytes) /\ Len(s) # 0 /\ s[1].kind \in Opening
  /\ \A i \in 1 .. Len(s) :
       /\ s[i].kind \in Opening \union {"value", "paged"}
       /\ s[i].kind = "arg" => i < Len(s) /\ s[i + 1].kind = "value"
       /\ s[i].kind = "mode" => i < Len(s) /\ s[i + 1].kind = "paged"
       /\ s[i].kind \in {"plain", "value", "paged"} /\ i < Len(s) => s[i + 1].kind \in Opening

LEMMA WholeConcat ==
  ASSUME NEW s, NEW t, Whole(s), Whole(t)
  PROVE  Whole(s \o t) /\ (s \o t)[1] = s[1]
<1> DEFINE u == s \o t
           m == Len(s)
           n == Len(t)
<1>1. /\ u \in Seq(Bytes) /\ Len(u) = m + n /\ m \in Nat \ {0} /\ n \in Nat \ {0}
      /\ \A i \in 1 .. m + n : u[i] = IF i <= m THEN s[i] ELSE t[i - m]
  BY ConcatProperties, LenProperties DEF Whole
<1> HIDE DEF u, m, n
<1>2. u[1] = s[1] /\ s[1].kind \in Opening
  BY <1>1 DEF Whole
<1>3. ASSUME NEW i \in 1 .. Len(u)
      PROVE  /\ u[i].kind \in Opening \union {"value", "paged"}
             /\ u[i].kind = "arg" => i < Len(u) /\ u[i + 1].kind = "value"
             /\ u[i].kind = "mode" => i < Len(u) /\ u[i + 1].kind = "paged"
             /\ u[i].kind \in {"plain", "value", "paged"} /\ i < Len(u) => u[i + 1].kind \in Opening
  <2>1. CASE i < m
    <3>1. u[i] = s[i] /\ u[i + 1] = s[i + 1] /\ i \in 1 .. m /\ i < Len(u)
      BY <1>1, <2>1
    <3>2. QED
      BY <2>1, <3>1 DEF Whole, m
  <2>2. CASE i = m
    <3>1. u[i] = s[i] /\ u[i + 1] = t[1] /\ i \in 1 .. m
      BY <1>1, <2>2
    <3>2. QED
      BY <2>2, <3>1 DEF Whole, m
  <2>3. CASE i > m
    <3> DEFINE j == i - m
    <3>1. u[i] = t[j] /\ j \in 1 .. n /\ (j < n <=> i < Len(u))
      BY <1>1, <2>3
    <3>2. j < n => u[i + 1] = t[j + 1]
      <4>1. j < n => i + 1 \in 1 .. m + n /\ ~(i + 1 <= m) /\ (i + 1) - m = j + 1
        BY <1>1, <2>3
      <4>2. QED
        BY <1>1, <4>1
    <3> HIDE DEF j
    <3>3. QED
      BY <3>1, <3>2 DEF Whole, n
  <2>4. QED
    BY <1>1, <2>1, <2>2, <2>3 DEF m
<1>4. QED
  BY <1>1, <1>2, <1>3 DEF Whole, u

(***************************************************************************)
(* init_cmds is such a sequence; it begins with a command of one byte and  *)
(* sets the addressing mode.                                               *)
(***************************************************************************)
LEMMA WholeCommands ==
  /\ Whole(Plain) /\ Plain[1].kind = "plain"
  /\ Whole(Pair) /\ Whole(Paged) /\ Len(Paged) = 2 /\ Paged[2].kind = "paged"
<1>1. \A k \in {"plain", "arg", "value", "mode", "paged"} : Cmd(k) \in Bytes /\ Cmd(k).kind = k
  BY SentBytes
<1>2. Whole(Plain) /\ Plain[1].kind = "plain"
  <2>1. Plain \in Seq(Bytes) /\ Len(Plain) = 1 /\ Plain[1] = Cmd("plain")
    BY <1>1 DEF Plain
  <2>2. QED
    BY <1>1, <2>1 DEF Whole, Opening
<1>3. Whole(Pair)
  <2>1. Pair \in Seq(Bytes) /\ Len(Pair) = 2 /\ Pair[1] = Cmd("arg") /\ Pair[2] = Cmd("value")
    BY <1>1 DEF Pair
  <2>2. QED
    BY <1>1, <2>1 DEF Whole, Opening
<1>4. Whole(Paged) /\ Len(Paged) = 2 /\ Paged[2].kind = "paged"
  <2>1. Paged \in Seq(Bytes) /\ Len(Paged) = 2 /\ Paged[1] = Cmd("mode") /\ Paged[2] = Cmd("paged")
    BY <1>1 DEF Paged
  <2>2. QED
    BY <1>1, <2>1 DEF Whole, Opening
<1>5. QED
  BY <1>2, <1>3, <1>4

LEMMA InitCommands ==
  /\ Whole(init_cmds) /\ init_cmds[1].kind = "plain"
  /\ \E m \in 1 .. Len(init_cmds) : init_cmds[m].kind = "paged"
<1> DEFINE before == Plain \o Pair \o Pair \o Pair \o Plain \o Pair
           front  == before \o Paged
<1>1. Whole(before) /\ before[1].kind = "plain"
  <2>1. Whole(Plain \o Pair) /\ (Plain \o Pair)[1].kind = "plain"
    BY WholeCommands, WholeConcat
  <2>2. Whole(Plain \o Pair \o Pair) /\ (Plain \o Pair \o Pair)[1].kind = "plain"
    BY <2>1, WholeCommands, WholeConcat
  <2>3. /\ Whole(Plain \o Pair \o Pair \o Pair)
        /\ (Plain \o Pair \o Pair \o Pair)[1].kind = "plain"
    BY <2>2, WholeCommands, WholeConcat
  <2>4. /\ Whole(Plain \o Pair \o Pair \o Pair \o Plain)
        /\ (Plain \o Pair \o Pair \o Pair \o Plain)[1].kind = "plain"
    BY <2>3, WholeCommands, WholeConcat
  <2>5. QED
    BY <2>4, WholeCommands, WholeConcat
<1>2. Whole(AfterMode)
  <2>1. Whole(Plain \o Plain) /\ Whole(Plain \o Plain \o Pair)
    BY WholeCommands, WholeConcat
  <2>2. Whole(Plain \o Plain \o Pair \o Pair) /\ Whole(Plain \o Plain \o Pair \o Pair \o Pair)
    BY <2>1, WholeCommands, WholeConcat
  <2>3. /\ Whole(Plain \o Plain \o Pair \o Pair \o Pair \o Pair)
        /\ Whole(Plain \o Plain \o Pair \o Pair \o Pair \o Pair \o Plain)
    BY <2>2, WholeCommands, WholeConcat
  <2>4. /\ Whole(Plain \o Plain \o Pair \o Pair \o Pair \o Pair \o Plain \o Plain)
        /\ Whole(Plain \o Plain \o Pair \o Pair \o Pair \o Pair \o Plain \o Plain \o Plain)
    BY <2>3, WholeCommands, WholeConcat
  <2>5. QED
    BY <2>4 DEF AfterMode
<1> HIDE DEF before
<1>3. /\ Whole(front) /\ front[1].kind = "plain"
      /\ \E m \in 1 .. Len(front) : front[m].kind = "paged"
  <2>1. Whole(front) /\ front[1].kind = "plain"
    BY <1>1, WholeCommands, WholeConcat
  <2>2. before \in Seq(Bytes) /\ Paged \in Seq(Bytes) /\ Len(Paged) = 2 /\ Paged[2].kind = "paged"
    BY <1>1, WholeCommands DEF Whole
  <2> DEFINE m == Len(before) + 2
  <2>3. m \in 1 .. Len(front) /\ front[m] = Paged[2]
    <3>1. Len(before) \in Nat /\ Len(front) = Len(before) + 2
      <4>1. Len(front) = Len(before) + Len(Paged)
        BY <2>2, ConcatProperties
      <4>2. Len(before) \in Nat
        BY <2>2, LenProperties
      <4>3. QED
        BY <2>2, <4>1, <4>2
    <3>2. m \in 1 .. Len(before) + Len(Paged) /\ ~(m <= Len(before)) /\ m - Len(before) = 2
      BY <2>2, <3>1
    <3>3. QED
      BY <2>2, <3>1, <3>2, ConcatProperties
  <2>4. QED
    BY <2>1, <2>2, <2>3
<1>4. init_cmds = front \o AfterMode
  BY DEF init_cmds, before
<1> HIDE DEF front
<1>5. PICK m \in 1 .. Len(front) : front[m].kind = "paged"
  BY <1>3
<1>6. m \in 1 .. Len(init_cmds) /\ init_cmds[m] = front[m]
  <2>1. front \in Seq(Bytes) /\ AfterMode \in Seq(Bytes)
    BY <1>2, <1>3 DEF Whole
  <2>2. Len(front) \in Nat /\ Len(AfterMode) \in Nat
    BY <2>1, LenProperties
  <2>3. Len(init_cmds) = Len(front) + Len(AfterMode) /\ m \in 1 .. Len(front) + Len(AfterMode)
    BY <1>4, <2>1, <2>2, ConcatProperties
  <2>4. QED
    BY <1>4, <2>1, <2>2, <2>3, ConcatProperties
<1>7. Whole(init_cmds) /\ init_cmds[1].kind = "plain"
  BY <1>2, <1>3, <1>4, WholeConcat
<1>8. QED
  BY <1>5, <1>6, <1>7

-----------------------------------------------------------------------------
(***************************************************************************)
(* What an attempt at a transaction may do to the panel: a command leaves  *)
(* the memory alone, data in page addressing no more than the row the      *)
(* panel is at, and only the page command moves the page during a row.     *)
(***************************************************************************)
Moves(p, b, q) ==
  /\ q \in Panels
  /\ b.kind # "data" => q.ram = p.ram
  /\ b.kind = "data" =>
       /\ q.mode = p.mode /\ q.page = p.page
       /\ p.mode = "page" => \A r \in Rows \ {p.page} : q.ram[r] = p.ram[r]
  /\ b.kind = "page" => q.page \in {p.page, b.row}
  /\ b.kind \in Nibbles => q.page = p.page

LEMMA WrittenMoves ==
  ASSUME NEW p \in Panels, NEW x \in Contents
  PROVE  /\ Written(p, x) \in Panels
         /\ Written(p, x).mode = p.mode /\ Written(p, x).page = p.page
         /\ Written(p, x).awaiting = p.awaiting /\ Written(p, x).col = p.col
         /\ p.mode = "page" => \A r \in Rows \ {p.page} : Written(p, x).ram[r] = p.ram[r]
         /\ p.mode = "page" /\ p.col = {} => Written(p, x).ram[p.page] = x
BY RowsAndContents DEF Written, Panels

LEMMA StrayMoves ==
  ASSUME NEW p \in Panels, NEW q \in Stray(p)
  PROVE  q \in Panels /\ q.ram = p.ram /\ q.mode = p.mode
BY DEF Stray, Panels

LEMMA AfterMoves ==
  ASSUME NEW p \in Panels, NEW b \in Bytes, NEW q \in After(p, b)
  PROVE  Moves(p, b, q)
<1>1. CASE b.kind = "data"
  <2>1. q = Written(p, b.text) /\ b.text \in Contents
    BY <1>1 DEF After, Bytes
  <2>2. QED
    BY <1>1, <2>1, WrittenMoves DEF Moves, Nibbles
<1>2. CASE b.kind # "data" /\ p.awaiting = "value"
  <2>1. q = [p EXCEPT !.awaiting = "nothing"]
    BY <1>2 DEF After
  <2>2. QED
    BY <1>2, <2>1 DEF Moves, Panels
<1>3. CASE b.kind # "data" /\ p.awaiting = "mode"
  <2>1. PICK m \in {"page", "other"} : q = [p EXCEPT !.awaiting = "nothing", !.mode = m]
    BY <1>3 DEF After
  <2>2. QED
    BY <1>3, <2>1 DEF Moves, Panels
<1>4. CASE b.kind # "data" /\ p.awaiting = "nothing"
  <2>1. q \in Takes(p, b)
    BY <1>4 DEF After
  <2>2. CASE b.kind \in {"value", "paged"}
    <3>1. q \in Stray(p)
      BY <2>1, <2>2 DEF Takes, Nibbles
    <3>2. QED
      BY <2>2, <3>1, StrayMoves DEF Moves, Nibbles
  <2>3. CASE b.kind = "page"
    BY <2>1, <2>3 DEF Takes, Moves, Panels, Nibbles, Bytes
  <2>4. CASE b.kind \in Nibbles
    BY <2>1, <2>4 DEF Takes, Moves, Panels, Nibbles
  <2>5. CASE b.kind \in {"mode", "arg", "plain"}
    BY <2>1, <2>5 DEF Takes, Moves, Panels, Nibbles
  <2>6. QED
    BY <1>4, <2>2, <2>3, <2>4, <2>5 DEF Bytes, Nibbles
<1>5. QED
  BY <1>1, <1>2, <1>3, <1>4 DEF Panels

LEMMA TriedMoves ==
  ASSUME NEW p \in Panels, NEW b \in Bytes, NEW q \in Tried(p, b)
  PROVE  Moves(p, b, q)
<1>1. CASE q = p
  BY <1>1 DEF Moves
<1>2. CASE q \in After(p, b)
  BY <1>2, AfterMoves
<1>3. CASE b.kind = "data" /\ q \in {[Written(p, Garbled) EXCEPT !.col = c] : c \in SUBSET Nibbles}
  <2>1. PICK c \in SUBSET Nibbles : q = [Written(p, Garbled) EXCEPT !.col = c]
    BY <1>3
  <2> DEFINE w == Written(p, Garbled)
  <2>2. /\ w \in Panels /\ w.mode = p.mode /\ w.page = p.page
        /\ p.mode = "page" => \A r \in Rows \ {p.page} : w.ram[r] = p.ram[r]
    BY RowsAndContents, WrittenMoves
  <2>3. q = [w EXCEPT !.col = c]
    BY <2>1
  <2> HIDE DEF w
  <2>4. q \in Panels /\ q.mode = w.mode /\ q.page = w.page /\ q.ram = w.ram
    BY <2>2, <2>3 DEF Panels
  <2>5. QED
    BY <1>3, <2>2, <2>4 DEF Moves, Nibbles
<1>4. QED
  BY <1>1, <1>2, <1>3 DEF Tried

(***************************************************************************)
(* A second attempt does no more than the first may have done.             *)
(***************************************************************************)
LEMMA MovesTwice ==
  ASSUME NEW p \in Panels, NEW b \in Bytes, NEW q, Moves(p, b, q), NEW t, Moves(q, b, t)
  PROVE  Moves(p, b, t)
BY DEF Moves

(***************************************************************************)
(* What a transaction that arrives once does to what the panel awaits, and *)
(* to a panel that is in step.                                             *)
(***************************************************************************)
LEMMA AfterAwaits ==
  ASSUME NEW p \in Panels, NEW b \in Bytes, NEW q \in After(p, b), b.kind # "data"
  PROVE  /\ p.awaiting # "nothing" => q.awaiting = "nothing"
         /\ p.awaiting = "nothing" /\ b.kind \in Opening => q.awaiting = Awaited(b)
         /\ p.awaiting # "mode" => q.mode = p.mode
         /\ p.awaiting = "mode" /\ b.kind = "paged" => q.mode = "page"
<1>1. CASE p.awaiting = "value"
  BY <1>1 DEF After, Panels
<1>2. CASE p.awaiting = "mode"
  BY <1>2 DEF After, Panels
<1>3. CASE p.awaiting = "nothing"
  <2>1. q \in Takes(p, b)
    BY <1>3 DEF After
  <2>2. CASE b.kind \in {"value", "paged"}
    <3>1. q \in Stray(p)
      BY <2>1, <2>2 DEF Takes, Nibbles
    <3>2. QED
      BY <1>3, <2>2, <3>1, StrayMoves DEF Opening
  <2>3. CASE b.kind \in {"mode", "arg", "plain"}
    BY <1>3, <2>1, <2>3 DEF Takes, Panels, Nibbles, Awaited
  <2>4. CASE b.kind \in {"page", "low", "high"}
    BY <1>3, <2>1, <2>4 DEF Takes, Panels, Nibbles, Opening
  <2>5. QED
    BY <2>2, <2>3, <2>4 DEF Bytes
<1>4. QED
  BY <1>1, <1>2, <1>3 DEF Panels

LEMMA AfterInStep ==
  ASSUME NEW p \in Panels, NEW b \in Bytes, NEW q \in After(p, b), InStep(p),
         b.kind \in {"page", "low", "high", "data"}
  PROVE  /\ InStep(q)
         /\ q.page = IF b.kind = "page" THEN b.row ELSE p.page
         /\ q.col = IF b.kind \in Nibbles THEN p.col \ {b.kind} ELSE p.col
         /\ q.ram = IF b.kind = "data" /\ p.col = {} THEN [p.ram EXCEPT ![p.page] = b.text]
                    ELSE IF b.kind = "data" THEN [p.ram EXCEPT ![p.page] = Garbled] ELSE p.ram
<1>1. CASE b.kind = "data"
  BY <1>1 DEF After, Written, InStep, Panels, Nibbles
<1>2. CASE b.kind # "data"
  <2>1. q \in Takes(p, b)
    BY <1>2 DEF After, InStep
  <2>2. CASE b.kind = "page"
    BY <2>1, <2>2 DEF Takes, InStep, Panels, Nibbles
  <2>3. CASE b.kind \in Nibbles
    BY <2>1, <2>3 DEF Takes, InStep, Panels, Nibbles
  <2>4. QED
    BY <1>2, <2>2, <2>3 DEF Nibbles
<1>3. QED
  BY <1>1, <1>2

-----------------------------------------------------------------------------
(***************************************************************************)
(* What a call sends, and where in it the call is.                         *)
(***************************************************************************)
LEMMA WritesOf ==
  /\ call.op \in {"init", "level", "deinit"} => Whole(Writes(call))
  /\ call.op = "init" => Writes(call) = init_cmds
  /\ call.op \in RowOps => Writes(call) = RowWrites(call.row, call.text)
<1>1. Brightness = Pair
  BY DEF Brightness, Pair
<1>2. QED
  BY <1>1, WholeCommands, InitCommands DEF Writes, RowOps, Clears

LEMMA WholeIsRest ==
  ASSUME NEW w, w \in Seq(Bytes), Len(w) # 0
  PROVE  IsRest(w, w) /\ w # <<>>
<1>1. Len(w) \in Nat \ {0} /\ w # <<>>
  BY LenProperties
<1>2. QED
  BY <1>1 DEF IsRest

LEMMA RestHead ==
  ASSUME NEW w, NEW s, IsRest(s, w)
  PROVE  /\ s # <<>> /\ Len(s) \in Nat \ {0} /\ Len(w) \in Nat \ {0}
         /\ Head(s) = s[1] /\ s[1] \in Bytes /\ s[1] = w[Len(w) - Len(s) + 1]
<1>1. Len(s) \in Nat /\ Len(s) # 0 /\ s \in Seq(Bytes) /\ Len(s) \in 1 .. Len(w)
  BY LenProperties DEF IsRest
<1>2. s # <<>>
  BY <1>1
<1>3. Len(w) \in Nat \ {0}
  BY <1>1 DEF IsRest
<1>4. 1 \in 1 .. Len(s)
  BY <1>1
<1>5. s[1] \in Bytes /\ s[1] = w[Len(w) - Len(s) + 1]
  BY <1>1, <1>4, ElementOfSeq DEF IsRest
<1>6. Head(s) = s[1]
  BY <1>1, <1>2
<1>7. QED
  BY <1>1, <1>2, <1>3, <1>5, <1>6

LEMMA RestTail ==
  ASSUME NEW w, NEW s, IsRest(s, w), Len(s) # 1
  PROVE  /\ IsRest(Tail(s), w) /\ Tail(s) # <<>> /\ Len(Tail(s)) = Len(s) - 1
         /\ \A i \in 1 .. Len(s) - 1 : Tail(s)[i] = s[i + 1]
<1>1. s # <<>> /\ Len(s) \in Nat \ {0, 1} /\ s \in Seq(Bytes)
  BY RestHead DEF IsRest
<1> DEFINE t == Tail(s)
           m == Len(s)
           n == Len(w)
<1>2. /\ t \in Seq(Bytes) /\ Len(t) = m - 1
      /\ \A i \in 1 .. m - 1 : t[i] = s[i + 1]
  BY <1>1, HeadTailProperties
<1>3. /\ m \in 1 .. n /\ n \in Nat /\ \A i \in 1 .. m : s[i] = w[n - m + i]
  BY RestHead DEF IsRest
<1> HIDE DEF t, m, n
<1>4. ASSUME NEW i \in 1 .. m - 1 PROVE t[i] = w[n - (m - 1) + i]
  <2>1. i + 1 \in 1 .. m /\ n - m + (i + 1) = n - (m - 1) + i
    BY <1>3
  <2>2. QED
    BY <1>2, <1>3, <2>1
<1>5. m \in Nat \ {0, 1}
  BY <1>1 DEF m
<1>6. t # <<>> /\ Len(t) \in 1 .. n
  BY <1>2, <1>3, <1>5
<1>7. \A i \in 1 .. Len(t) : t[i] = w[n - Len(t) + i]
  BY <1>2, <1>4
<1>8. QED
  BY <1>2, <1>6, <1>7 DEF IsRest, t, m, n

(***************************************************************************)
(* The next transaction of a row, by how many are left, and of the other   *)
(* calls.                                                                  *)
(***************************************************************************)
LEMMA RowByte ==
  ASSUME PanelInv, call.op \in RowOps
  PROVE  /\ Len(todo) \in 1 .. 4
         /\ Len(todo) = 4 => todo[1].kind = "page" /\ todo[1].row = call.row
         /\ Len(todo) = 3 => todo[1].kind = "low"
         /\ Len(todo) = 2 => todo[1].kind = "high"
         /\ Len(todo) = 1 => todo[1].kind = "data" /\ todo[1].text = call.text
<1>1. call.row \in Rows /\ call.text \in Contents /\ IsRest(todo, RowWrites(call.row, call.text))
  BY WritesOf, RowsAndContents
     DEF PanelInv, PanelTypeOK, CallInStep, RowOps, Clears
<1> DEFINE w == RowWrites(call.row, call.text)
<1>2. /\ Len(w) = 4 /\ w[1] = PageCmd(call.row) /\ w[2] = Cmd("low")
      /\ w[3] = Cmd("high") /\ w[4] = Data(call.text)
  BY <1>1, RowSequence
<1>3. Len(todo) \in 1 .. 4 /\ todo[1] = w[4 - Len(todo) + 1]
  BY <1>1, <1>2, RestHead DEF IsRest
<1>4. /\ Cmd("low").kind = "low" /\ Cmd("high").kind = "high"
      /\ PageCmd(call.row).kind = "page" /\ PageCmd(call.row).row = call.row
      /\ Data(call.text).kind = "data" /\ Data(call.text).text = call.text
  BY <1>1, SentBytes
<1> HIDE DEF w
<1>5. /\ Len(todo) = 4 => todo[1] = w[1]
      /\ Len(todo) = 3 => todo[1] = w[2]
      /\ Len(todo) = 2 => todo[1] = w[3]
      /\ Len(todo) = 1 => todo[1] = w[4]
  <2> DEFINE n == Len(todo)
             k == 4 - n + 1
  <2>1. todo[1] = w[k] /\ n \in 1 .. 4
    BY <1>3
  <2> HIDE DEF n
  <2>2. (n = 4 => k = 1) /\ (n = 3 => k = 2) /\ (n = 2 => k = 3) /\ (n = 1 => k = 4)
    BY <2>1
  <2> HIDE DEF k
  <2>3. QED
    BY <2>1, <2>2 DEF n
<1>6. QED
  BY <1>2, <1>3, <1>4, <1>5

LEMMA CommandByte ==
  ASSUME PanelInv, call.op \in {"init", "level", "deinit"}
  PROVE  /\ IsRest(todo, Writes(call)) /\ todo[1].kind \in Opening \union {"value", "paged"}
         /\ todo[1].kind # "data"
<1>1. IsRest(todo, Writes(call)) /\ Whole(Writes(call))
  BY WritesOf DEF PanelInv, CallInStep
<1> DEFINE w == Writes(call)
           k == Len(w) - Len(todo) + 1
<1>2. k \in 1 .. Len(w) /\ todo[1] = w[k]
  BY <1>1, RestHead DEF IsRest
<1>3. w[k].kind \in Opening \union {"value", "paged"}
  <2> HIDE DEF w, k
  <2>1. QED
    BY <1>1, <1>2 DEF Whole, w
<1>4. QED
  BY <1>1, <1>2, <1>3 DEF Opening

(***************************************************************************)
(* A transaction, whatever comes of it.                                    *)
(***************************************************************************)
LEMMA SendMoves ==
  ASSUME PanelInv, Send
  PROVE  /\ call.op # "idle" /\ IsRest(todo, Writes(call)) /\ todo[1] \in Bytes
         /\ panel \in Panels /\ Moves(panel, todo[1], panel')
         /\ once' \in BOOLEAN
         /\ once' => once /\ panel' \in After(panel, todo[1])
<1>1. call.op # "idle" /\ IsRest(todo, Writes(call)) /\ panel \in Panels /\ once \in BOOLEAN
  BY DEF PanelInv, CallInStep, Send, PanelTypeOK
<1> DEFINE b == todo[1]
<1>2. Head(todo) = b /\ b \in Bytes
  BY <1>1, RestHead
<1>3. /\ once' \in BOOLEAN
      /\ \/ once' = once /\ panel' \in After(panel, b)
         \/ once' = FALSE /\ panel' \in UNION {After(q, b) : q \in Tried(panel, b)}
         \/ once' = FALSE /\ panel' \in UNION {Tried(q, b) : q \in Tried(panel, b)}
  BY <1>1, <1>2, Zenon DEF Send, Arrives, Fails
<1> HIDE DEF b
<1>4. ASSUME panel' \in After(panel, b) PROVE Moves(panel, b, panel')
  BY <1>1, <1>2, <1>4, AfterMoves
<1>5. ASSUME \E q \in Tried(panel, b) : panel' \in Tried(q, b) \/ panel' \in After(q, b)
      PROVE  Moves(panel, b, panel')
  <2>1. PICK q \in Tried(panel, b) : panel' \in Tried(q, b) \/ panel' \in After(q, b)
    BY <1>5
  <2>2. Moves(panel, b, q)
    BY <1>1, <1>2, TriedMoves
  <2>3. q \in Panels
    BY <2>2 DEF Moves
  <2>4. Moves(q, b, panel')
    BY <1>2, <2>1, <2>3, TriedMoves, AfterMoves
  <2>5. QED
    BY <1>1, <1>2, <2>2, <2>4, MovesTwice
<1>6. Moves(panel, b, panel')
  BY <1>3, <1>4, <1>5
<1>7. once' => once /\ panel' \in After(panel, b)
  BY <1>3
<1>8. QED
  BY <1>1, <1>2, <1>3, <1>6, <1>7 DEF b

(***************************************************************************)
(* One that arrives once, for a row of a panel in step.                    *)
(***************************************************************************)
LEMMA RowArrives ==
  ASSUME PanelInv, Send, call.op \in RowOps, call.inStep, once'
  PROVE  /\ InStep(panel') /\ panel'.page = call.row
         /\ Len(todo) < 4 => "low" \notin panel'.col
         /\ Len(todo) < 3 => "high" \notin panel'.col
         /\ panel'.ram = IF Len(todo) = 1 THEN [panel.ram EXCEPT ![call.row] = call.text]
                                          ELSE panel.ram
<1>1. /\ panel \in Panels /\ todo[1] \in Bytes /\ once /\ panel' \in After(panel, todo[1])
  BY SendMoves
<1>2. /\ InStep(panel)
      /\ Len(todo) < 4 => panel.page = call.row
      /\ Len(todo) < 3 => "low" \notin panel.col
      /\ Len(todo) < 2 => "high" \notin panel.col
  BY <1>1 DEF PanelInv, RowInStep
<1>3. todo[1].kind \in {"page", "low", "high", "data"}
  BY RowByte
<1>4. /\ InStep(panel')
      /\ panel'.page = IF todo[1].kind = "page" THEN todo[1].row ELSE panel.page
      /\ panel'.col = IF todo[1].kind \in Nibbles THEN panel.col \ {todo[1].kind} ELSE panel.col
      /\ panel'.ram = IF todo[1].kind = "data" /\ panel.col = {}
                      THEN [panel.ram EXCEPT ![panel.page] = todo[1].text]
                      ELSE IF todo[1].kind = "data" THEN [panel.ram EXCEPT ![panel.page] = Garbled]
                      ELSE panel.ram
  BY <1>1, <1>2, <1>3, AfterInStep
<1>5. panel.col \subseteq {"low", "high"}
  BY <1>1 DEF Panels, Nibbles
<1>6. CASE Len(todo) = 4
  BY <1>4, <1>6, RowByte DEF Nibbles
<1>7. CASE Len(todo) = 3
  BY <1>2, <1>4, <1>7, RowByte DEF Nibbles
<1>8. CASE Len(todo) = 2
  BY <1>2, <1>4, <1>8, RowByte DEF Nibbles
<1>9. CASE Len(todo) = 1
  <2>1. panel.col = {}
    BY <1>2, <1>5, <1>9
  <2>2. QED
    BY <1>2, <1>4, <1>9, <2>1, RowByte DEF Nibbles
<1>10. QED
  BY <1>6, <1>7, <1>8, <1>9, RowByte

(***************************************************************************)
(* And during init.                                                        *)
(***************************************************************************)
LEMMA InitArrives ==
  ASSUME PanelInv, Send, call.op = "init", once'
  PROVE  /\ panel'.awaiting = Awaited(todo[1])
         /\ (\A i \in 2 .. Len(todo) : todo[i].kind # "paged") => panel'.mode = "page"
         /\ Len(todo) = 1 => InStep(panel')
<1> DEFINE w == init_cmds
           n == Len(w) - Len(todo)
           b == todo[1]
<1>1. /\ panel \in Panels /\ b \in Bytes /\ once /\ panel' \in After(panel, b)
  BY SendMoves
<1>2. /\ Whole(w) /\ w[1].kind = "plain" /\ IsRest(todo, w)
      /\ Len(w) \in Nat \ {0} /\ Len(todo) \in 1 .. Len(w) /\ n \in 0 .. Len(w) - 1
      /\ b = w[n + 1]
  BY SendMoves, WritesOf, InitCommands, RestHead DEF IsRest
<1>3. /\ Len(todo) < Len(w) => panel.awaiting = Awaited(w[Len(w) - Len(todo)])
      /\ (\A i \in 1 .. Len(todo) : todo[i].kind # "paged") => panel.mode = "page"
  BY <1>1 DEF PanelInv, InitInStep
<1>4. b.kind \in Opening \union {"value", "paged"} /\ b.kind # "data"
  BY CommandByte
<1>5. /\ panel.awaiting # "nothing" => panel'.awaiting = "nothing"
      /\ panel.awaiting = "nothing" /\ b.kind \in Opening => panel'.awaiting = Awaited(b)
      /\ panel.awaiting # "mode" => panel'.mode = panel.mode
      /\ panel.awaiting = "mode" /\ b.kind = "paged" => panel'.mode = "page"
  BY <1>1, <1>4, AfterAwaits
<1>6. CASE n = 0
  <2>1. b.kind = "plain" /\ Len(todo) = Len(w)
    BY <1>2, <1>6
  <2>2. panel'.awaiting = "nothing" /\ Awaited(b) = "nothing"
    BY <1>5, <2>1 DEF Opening, Awaited
  <2>3. \E i \in 2 .. Len(todo) : todo[i].kind = "paged"
    <3>1. PICK m \in 1 .. Len(w) : w[m].kind = "paged"
      BY InitCommands
    <3>2. m # 1
      BY <1>2, <3>1
    <3>3. m \in 2 .. Len(todo) /\ todo[m] = w[m]
      <4>1. m \in 1 .. Len(todo) /\ Len(w) - Len(todo) + m = m
        BY <1>2, <2>1, <3>1
      <4>2. todo[m] = w[Len(w) - Len(todo) + m]
        BY <1>2, <4>1 DEF IsRest
      <4>3. QED
        BY <1>2, <2>1, <3>1, <3>2, <4>1, <4>2
    <3>4. QED
      BY <3>1, <3>3
  <2>4. Len(todo) # 1
    BY <1>2, <2>3
  <2>5. QED
    BY <2>2, <2>3, <2>4
<1>7. CASE n # 0
  <2> DEFINE a == w[n]
  <2>1. n \in 1 .. Len(w) /\ n < Len(w) /\ panel.awaiting = Awaited(a)
    BY <1>2, <1>3, <1>7
  <2>2. /\ a.kind \in Opening \union {"value", "paged"}
        /\ a.kind = "arg" => b.kind = "value"
        /\ a.kind = "mode" => b.kind = "paged"
        /\ a.kind \in {"plain", "value", "paged"} => b.kind \in Opening
    BY <1>2, <2>1 DEF Whole
  <2> HIDE DEF a
  <2>3. panel'.awaiting = Awaited(b)
    BY <1>4, <1>5, <2>1, <2>2 DEF Awaited, Opening
  <2>4. ASSUME \A i \in 2 .. Len(todo) : todo[i].kind # "paged"
        PROVE  panel'.mode = "page"
    <3>1. CASE b.kind = "paged"
      BY <1>5, <2>1, <2>2, <3>1 DEF Awaited, Opening
    <3>2. CASE b.kind # "paged"
      <4>1. \A i \in 1 .. Len(todo) : todo[i].kind # "paged"
        <5>1. \A i \in 1 .. Len(todo) : i = 1 \/ i \in 2 .. Len(todo)
          BY <1>2
        <5>2. QED
          BY <2>4, <3>2, <5>1
      <4>2. panel.awaiting # "mode"
        BY <2>1, <2>2, <3>2 DEF Awaited, Opening
      <4>3. QED
        BY <1>3, <1>5, <4>1, <4>2
    <3>3. QED
      BY <3>1, <3>2
  <2>5. ASSUME Len(todo) = 1 PROVE InStep(panel')
    <3>1. n + 1 = Len(w) /\ n + 1 \in 1 .. Len(w)
      BY <1>2, <2>5
    <3>2. b.kind \notin {"arg", "mode"}
      BY <1>2, <3>1 DEF Whole
    <3>3. panel'.mode = "page"
      BY <2>4, <2>5
    <3>4. QED
      BY <2>3, <3>2, <3>3 DEF InStep, Awaited
  <2>6. QED
    BY <2>3, <2>4, <2>5
<1>8. QED
  BY <1>6, <1>7

-----------------------------------------------------------------------------
(***************************************************************************)
(* The account kept of a transaction is true of the panel it leaves.       *)
(***************************************************************************)
LEMMA AccountIsTrue ==
  ASSUME PanelInv, Send, NEW done \in BOOLEAN, Account(done),
         done => Len(todo) = 1,
         ~done => Len(todo) # 1 \/ ~once'
  PROVE  /\ expected' \in [Rows -> Intended \union {Unknown}]
         /\ RowsAccounted'
<1> DEFINE b == todo[1]
<1>1. /\ panel \in Panels /\ panel' \in Panels /\ b \in Bytes /\ Moves(panel, b, panel')
      /\ expected \in [Rows -> Intended \union {Unknown}]
      /\ \A r \in Rows : expected[r] \in {Unknown, panel.ram[r]}
      /\ call.text \in Intended /\ call.row \in Rows /\ call.from \in Rows
      /\ Head(todo) = b
  BY SendMoves, RestHead DEF PanelInv, PanelTypeOK, RowsAccounted, CallInStep, Moves
<1>2. AllUnknown \in [Rows -> Intended \union {Unknown}] /\ \A r \in Rows : AllUnknown[r] = Unknown
  BY DEF AllUnknown
<1>3. expected' = IF call.op \notin RowOps THEN expected
                  ELSE IF b.kind = "data" /\ panel.mode # "page" THEN AllUnknown
                  ELSE IF ~(call.inStep /\ once')
                  THEN [expected EXCEPT ![call.row] = Unknown, ![call.from] = Unknown]
                  ELSE IF done THEN [expected EXCEPT ![call.row] = call.text]
                  ELSE expected
  BY <1>1 DEF Account, RowOps
<1>4. SUFFICES /\ expected' \in [Rows -> Intended \union {Unknown}]
               /\ \A r \in Rows : expected'[r] \in {Unknown, panel'.ram[r]}
  BY DEF RowsAccounted
<1> HIDE DEF b
<1>5. CASE call.op \notin RowOps
  <2>1. b.kind # "data"
    BY <1>5, CommandByte, SendMoves DEF b, PanelInv, PanelTypeOK, RowOps
  <2>2. panel'.ram = panel.ram /\ expected' = expected
    BY <1>1, <1>3, <1>5, <2>1 DEF Moves
  <2>3. QED
    BY <1>1, <1>5, <2>2
<1>6. CASE call.op \in RowOps /\ b.kind = "data" /\ panel.mode # "page"
  BY <1>2, <1>3, <1>6
<1>7. CASE call.op \in RowOps /\ ~(b.kind = "data" /\ panel.mode # "page") /\ ~(call.inStep /\ once')
  <2>1. expected' = [expected EXCEPT ![call.row] = Unknown, ![call.from] = Unknown]
    BY <1>3, <1>7
  <2>2. panel.page \in {call.from, call.row}
    BY <1>7 DEF PanelInv, PageInStep
  <2>3. \A r \in Rows : r # panel.page => panel'.ram[r] = panel.ram[r]
    BY <1>1, <1>7 DEF Moves
  <2>4. ASSUME NEW r \in Rows PROVE expected'[r] \in {Unknown, panel'.ram[r]}
    BY <1>1, <2>1, <2>2, <2>3
  <2>5. QED
    BY <1>1, <2>1, <2>4
<1>8. CASE call.op \in RowOps /\ ~(b.kind = "data" /\ panel.mode # "page") /\ call.inStep /\ once'
  <2>1. panel'.ram = IF Len(todo) = 1 THEN [panel.ram EXCEPT ![call.row] = call.text]
                                      ELSE panel.ram
    BY <1>8, RowArrives
  <2>2. panel.ram \in [Rows -> Contents]
    BY <1>1 DEF Panels
  <2>3. CASE done
    BY <1>1, <1>3, <1>8, <2>1, <2>2, <2>3
  <2>4. CASE ~done
    BY <1>1, <1>3, <1>8, <2>1, <2>4
  <2>5. QED
    BY <2>3, <2>4
<1>9. QED
  BY <1>5, <1>6, <1>7, <1>8

-----------------------------------------------------------------------------
(***************************************************************************)
(* The part of the invariant that is about the call, and the two ways to   *)
(* go on: a call, or a row of one, begins; a transaction of it is behind.  *)
(***************************************************************************)
CallTypeOK ==
  /\ call.op \in {"idle", "init", "text", "level", "deinit"} \union Clears
  /\ call.row \in Rows /\ call.from \in Rows
  /\ (call = Idle) <=> (todo = <<>>)

CallOK ==
  /\ CallTypeOK /\ CallInStep /\ PageInStep /\ RowInStep /\ InitInStep /\ ClearInStep

LEMMA Four ==
  ASSUME NEW n, n = 4
  PROVE  n # 0 /\ ~(n < 4) /\ ~(n < 3) /\ ~(n < 2)
  OBVIOUS

LEMMA NotBelowItself ==
  ASSUME NEW n \in Nat
  PROVE  ~(n < n)
  OBVIOUS

LEMMA CallBegins ==
  ASSUME NEW op, NEW row \in Rows, NEW text \in Intended, NEW writes,
         panel' \in Panels, Start(op, row, text, writes, panel'),
         \/ op = "init" /\ writes = init_cmds
         \/ op = "level" /\ writes = Brightness
         \/ op = "deinit" /\ writes = Plain
         \/ op \in RowOps /\ writes = RowWrites(row, text),
         op \in Clears => text = Blank,
         op = "init clear" /\ once' => InStep(panel') /\ Cleared(panel', row)
  PROVE  CallOK'
<1>0. text \in Contents
  BY RowsAndContents
<1>1. /\ call'.op = op /\ call'.row = row /\ call'.text = text /\ call'.from = panel'.page
      /\ call'.inStep = InStep(panel') /\ todo' = writes
      /\ call'.op # "idle" /\ op \in {"init", "level", "deinit"} \union RowOps
  <2> DEFINE i == InStep(panel')
  <2>1. /\ call' = [op |-> op, row |-> row, text |-> text, inStep |-> i, from |-> panel'.page]
        /\ todo' = writes
    BY DEF Start
  <2> HIDE DEF i
  <2>2. /\ call'.op = op /\ call'.row = row /\ call'.text = text /\ call'.from = panel'.page
        /\ call'.inStep = i
    BY <2>1
  <2>3. op \in {"init", "level", "deinit"} \union RowOps /\ op # "idle"
    BY DEF RowOps, Clears
  <2>4. QED
    BY <2>1, <2>2, <2>3 DEF i
<1>2. call' # Idle
  <2>1. Idle.op = "idle"
    BY DEF Idle
  <2>2. QED
    BY <1>1, <2>1
<1>3. Brightness = Pair
  BY DEF Brightness, Pair
<1>4. writes = Writes(call') /\ writes \in Seq(Bytes) /\ Len(writes) # 0
  <2>1. CASE op \in {"init", "level", "deinit"}
    <3>1. writes = Writes(call') /\ Whole(writes)
      BY <1>1, <1>3, <2>1, WholeCommands, InitCommands DEF Writes, RowOps, Clears
    <3>2. QED
      BY <3>1 DEF Whole
  <2>2. CASE op \in RowOps
    <3>1. writes = RowWrites(row, text) /\ writes = Writes(call')
      BY <1>1, <2>2 DEF Writes, RowOps, Clears
    <3>2. RowWrites(row, text) \in Seq(Bytes) /\ Len(RowWrites(row, text)) = 4
      BY <1>0, RowSequence
    <3>3. Len(RowWrites(row, text)) # 0
      BY <3>2, Four, Zenon
    <3>4. QED
      BY <3>1, <3>2, <3>3, Zenon
  <2>3. QED
    BY <1>1, <2>1, <2>2
<1>5. IsRest(todo', Writes(call')) /\ todo' # <<>>
  BY <1>1, <1>4, WholeIsRest
<1>6. CallTypeOK'
  <2>1. call'.op \in {"idle", "init", "text", "level", "deinit"} \union Clears
    BY <1>1 DEF RowOps
  <2>2. call'.row \in Rows /\ call'.from \in Rows
    BY <1>1 DEF Panels
  <2>3. QED
    BY <1>2, <1>5, <2>1, <2>2 DEF CallTypeOK
<1>7. CallInStep'
  BY <1>1, <1>5 DEF CallInStep
<1>8. PageInStep'
  BY <1>1 DEF PageInStep
<1>9. RowInStep'
  <2>1. call'.op \in RowOps => Len(todo') = 4
    <3>1. Len(RowWrites(row, text)) = 4
      BY <1>0, RowSequence
    <3>2. QED
      BY <1>1, <3>1 DEF RowOps, Clears
  <2>2. ASSUME call'.op \in RowOps /\ once' /\ call'.inStep
        PROVE  InStep(panel') /\ ~(Len(todo') < 4) /\ ~(Len(todo') < 3) /\ ~(Len(todo') < 2)
    <3>1. InStep(panel')
      BY <1>1, <2>2, Zenon
    <3>2. QED
      BY <2>1, <2>2, <3>1, Four, Zenon
  <2>3. QED
    BY <2>2 DEF RowInStep
<1>10. InitInStep'
  <2>1. call'.op = "init" => todo' = init_cmds
    BY <1>1 DEF RowOps, Clears
  <2>2. PICK m \in 1 .. Len(init_cmds) : init_cmds[m].kind = "paged"
    BY InitCommands
  <2>3. Len(init_cmds) \in Nat
    BY InitCommands, LenProperties DEF Whole
  <2>4. ASSUME call'.op = "init"
        PROVE  /\ ~(Len(todo') < Len(init_cmds))
               /\ \E i \in 1 .. Len(todo') : todo'[i].kind = "paged"
    <3>1. todo' = init_cmds
      BY <2>1, <2>4
    <3>2. ~(Len(init_cmds) < Len(init_cmds))
      BY <2>3, NotBelowItself, Zenon
    <3>3. QED
      BY <2>2, <3>1, <3>2, Zenon
  <2>5. QED
    BY <2>4 DEF InitInStep
<1>11. ClearInStep'
  BY <1>1 DEF ClearInStep
<1>12. QED
  BY <1>6, <1>7, <1>8, <1>9, <1>10, <1>11 DEF CallOK

LEMMA CallEnds ==
  ASSUME call' = Idle, todo' = <<>>
  PROVE  CallOK'
<1>1. /\ call'.op = "idle" /\ call'.row = 0 /\ call'.from = 0 /\ call'.text = Blank
      /\ call'.op \notin RowOps
  BY DEF Idle, RowOps, Clears
<1>2. CallTypeOK'
  BY <1>1, RowsAndContents DEF CallTypeOK
<1>3. CallInStep'
  BY <1>1, RowsAndContents DEF CallInStep
<1>4. QED
  BY <1>1, <1>2, <1>3 DEF CallOK, PageInStep, RowInStep, InitInStep, ClearInStep

LEMMA CallGoesOn ==
  ASSUME PanelInv, Send, call' = call, todo' = Tail(todo), Len(todo) # 1
  PROVE  CallOK'
<1>1. /\ call.op # "idle" /\ IsRest(todo, Writes(call)) /\ panel \in Panels
      /\ Moves(panel, todo[1], panel')
  BY SendMoves
<1>2. /\ IsRest(todo', Writes(call')) /\ todo' # <<>> /\ Len(todo') = Len(todo) - 1
      /\ Len(todo) \in Nat \ {0}
      /\ \A i \in 1 .. Len(todo) - 1 : todo'[i] = todo[i + 1]
  BY <1>1, RestTail, RestHead
<1>3. CallTypeOK'
  BY <1>1, <1>2 DEF PanelInv, PanelTypeOK, CallTypeOK, CallInStep, Idle
<1>4. CallInStep'
  BY <1>1, <1>2 DEF PanelInv, CallInStep
<1>5. PageInStep'
  <2>1. ASSUME call.op \in RowOps PROVE panel'.page \in {call.from, call.row}
    <3>1. \/ todo[1].kind = "page" /\ todo[1].row = call.row
          \/ todo[1].kind \in Nibbles
      BY <1>2, <2>1, RowByte DEF Nibbles
    <3>2. QED
      BY <1>1, <2>1, <3>1 DEF Moves, PanelInv, PageInStep
  <2>2. QED
    BY <2>1 DEF PageInStep
<1>6. RowInStep'
  <2>1. ASSUME call.op \in RowOps, call.inStep, once'
        PROVE  /\ InStep(panel')
               /\ Len(todo') < 4 => panel'.page = call.row
               /\ Len(todo') < 3 => "low" \notin panel'.col
               /\ Len(todo') < 2 => "high" \notin panel'.col
    BY <1>2, <2>1, RowArrives
  <2>2. QED
    BY <2>1 DEF RowInStep
<1>7. InitInStep'
  <2>1. ASSUME call.op = "init", once'
        PROVE  /\ panel'.awaiting = Awaited(init_cmds[Len(init_cmds) - Len(todo')])
               /\ (\A i \in 1 .. Len(todo') : todo'[i].kind # "paged") => panel'.mode = "page"
    <3>1. /\ panel'.awaiting = Awaited(todo[1])
          /\ (\A i \in 2 .. Len(todo) : todo[i].kind # "paged") => panel'.mode = "page"
      BY <2>1, InitArrives
    <3>2. /\ todo[1] = init_cmds[Len(init_cmds) - Len(todo) + 1]
          /\ Len(init_cmds) \in Nat
      BY <1>1, <2>1, RestHead, WritesOf
    <3>3. Len(init_cmds) - Len(todo) + 1 = Len(init_cmds) - Len(todo')
      BY <1>2, <3>2
    <3>4. (\A i \in 1 .. Len(todo') : todo'[i].kind # "paged")
            => \A i \in 2 .. Len(todo) : todo[i].kind # "paged"
      <4>1. \A i \in 2 .. Len(todo) : i - 1 \in 1 .. Len(todo) - 1 /\ todo'[i - 1] = todo[i]
        BY <1>2
      <4>2. QED
        BY <1>2, <4>1
    <3>5. QED
      BY <3>1, <3>2, <3>3, <3>4
  <2>2. QED
    BY <2>1 DEF InitInStep
<1>8. ClearInStep'
  <2>1. ASSUME call.op = "init clear", once'
        PROVE  call.inStep /\ Cleared(panel', call.row)
    <3>1. once /\ call.op \in RowOps
      BY <2>1, SendMoves DEF RowOps, Clears
    <3>2. call.inStep /\ Cleared(panel, call.row)
      BY <2>1, <3>1 DEF PanelInv, ClearInStep
    <3>3. panel'.ram = panel.ram
      BY <2>1, <3>1, <3>2, RowArrives
    <3>4. QED
      BY <3>2, <3>3 DEF Cleared
  <2>2. QED
    BY <2>1 DEF ClearInStep
<1>9. QED
  BY <1>3, <1>4, <1>5, <1>6, <1>7, <1>8 DEF CallOK

(***************************************************************************)
(* What follows the last transaction of a call.                            *)
(***************************************************************************)
LEMMA CallFinishes ==
  ASSUME PanelInv, Send, Len(todo) = 1, Finish
  PROVE  CallOK'
<1>1. panel' \in Panels /\ call.row \in Rows /\ (once' => once)
  BY SendMoves DEF Moves, PanelInv, PanelTypeOK
<1>2. CASE call.op = "init"
  <2>1. Start("init clear", 0, Blank, RowWrites(0, Blank), panel')
    BY <1>2 DEF Finish
  <2>2. once' => InStep(panel')
    BY <1>2, InitArrives
  <2>3. \A r \in Rows : ~(r < 0)
    BY DEF Rows
  <2>4. Cleared(panel', 0)
    BY <2>3, Zenon DEF Cleared
  <2>5. QED
    BY <1>1, <2>1, <2>2, <2>4, CallBegins, RowsAndContents DEF RowOps, Clears
<1>3. CASE call.op # "init" /\ call.op \in Clears /\ call.row < NumRows - 1
  <2>1. Start(call.op, call.row + 1, Blank, RowWrites(call.row + 1, Blank), panel')
    BY <1>3 DEF Finish
  <2>2. call.row + 1 \in Rows
    BY <1>1, <1>3, PanelAssumption DEF Rows
  <2>3. ASSUME call.op = "init clear", once'
        PROVE  InStep(panel') /\ Cleared(panel', call.row + 1)
    <3>1. call.inStep /\ call.op \in RowOps
      BY <1>1, <2>3 DEF PanelInv, ClearInStep, RowOps, Clears
    <3>2. \A r \in Rows : r < call.row => panel.ram[r] = Blank
      BY <1>1, <2>3 DEF PanelInv, ClearInStep, Cleared
    <3>3. InStep(panel') /\ panel'.ram = [panel.ram EXCEPT ![call.row] = call.text]
      BY <2>3, <3>1, RowArrives
    <3>4. call.text = Blank /\ panel.ram \in [Rows -> Contents]
      <4>1. panel \in Panels /\ call.text = Blank
        BY <1>3, SendMoves DEF PanelInv, CallInStep
      <4>2. QED
        BY <4>1 DEF Panels
    <3>5. \A r \in Rows : r < call.row + 1 => r < call.row \/ r = call.row
      <4>1. call.row \in Nat
        BY <1>1, RowsAndContents
      <4>2. \A r \in Nat : r < call.row + 1 => r < call.row \/ r = call.row
        BY <4>1
      <4>3. QED
        BY <4>2, RowsAndContents
    <3>6. QED
      BY <1>1, <3>2, <3>3, <3>4, <3>5 DEF Cleared
  <2>4. QED
    BY <1>1, <1>3, <2>1, <2>2, <2>3, CallBegins, RowsAndContents DEF RowOps
<1>4. CASE call.op # "init" /\ ~(call.op \in Clears /\ call.row < NumRows - 1)
  BY <1>4, CallEnds DEF Finish, Return
<1>5. QED
  BY <1>2, <1>3, <1>4

LEMMA PanelParts ==
  ASSUME CallOK', s_is_initialized' \in BOOLEAN, once' \in BOOLEAN, upset' \in BOOLEAN,
         panel' \in Panels, expected' \in [Rows -> Intended \union {Unknown}], RowsAccounted'
  PROVE  PanelInv'
<1>1. PanelTypeOK'
  BY Zenon DEF CallOK, CallTypeOK, PanelTypeOK
<1>2. QED
  BY <1>1 DEF CallOK, PanelInv

(***************************************************************************)
(* A call that has sent nothing yet, and a restart, leave the panel as it  *)
(* is and promise no more than before.                                     *)
(***************************************************************************)
LEMMA PanelUntouched ==
  ASSUME PanelInv, CallOK', s_is_initialized' \in BOOLEAN, once' \in BOOLEAN,
         upset' \in BOOLEAN, panel' = panel, expected' \in {expected, AllUnknown}
  PROVE  PanelInv'
<1>1. /\ panel' \in Panels
      /\ expected' \in [Rows -> Intended \union {Unknown}]
      /\ \A r \in Rows : expected'[r] \in {Unknown, panel'.ram[r]}
  BY DEF PanelInv, PanelTypeOK, RowsAccounted, AllUnknown
<1>2. RowsAccounted'
  BY <1>1 DEF RowsAccounted
<1>3. QED
  BY <1>1, <1>2, PanelParts

(***************************************************************************)
(* The initial state and every step satisfy the invariant.                 *)
(***************************************************************************)
LEMMA PanelInvInit == PanelInit => PanelInv
<1>1. SUFFICES ASSUME PanelInit PROVE PanelInv
  OBVIOUS
<1>2. call = Idle /\ todo = <<>> /\ call.op = "idle" /\ call.row = 0 /\ call.from = 0 /\ call.text = Blank
  BY <1>1 DEF PanelInit, Idle
<1>3. panel \in Panels /\ panel.mode = "page"
  BY <1>1, RowsAndContents DEF PanelInit, Panels
<1>4. s_is_initialized \in BOOLEAN /\ once \in BOOLEAN /\ upset \in BOOLEAN
  BY <1>1, Zenon DEF PanelInit
<1>5. expected \in [Rows -> Intended \union {Unknown}] /\ \A r \in Rows : expected[r] = Unknown
  BY <1>1 DEF PanelInit, AllUnknown
<1>6. PanelTypeOK
  BY <1>2, <1>3, <1>4, <1>5, RowsAndContents DEF PanelTypeOK
<1>7. RowsAccounted
  BY <1>5 DEF RowsAccounted
<1>8. CallInStep
  BY <1>2, RowsAndContents DEF CallInStep, Clears
<1>9. QED
  BY <1>2, <1>3, <1>6, <1>7, <1>8
     DEF PanelInv, PageInStep, RowInStep, InitInStep, ClearInStep, RowOps, Clears

LEMMA PanelInvNext == PanelInv /\ [PanelNext]_panelVars => PanelInv'
<1>1. SUFFICES ASSUME PanelInv, [PanelNext]_panelVars PROVE PanelInv'
  OBVIOUS
<1>2. /\ s_is_initialized \in BOOLEAN /\ once \in BOOLEAN /\ upset \in BOOLEAN /\ panel \in Panels
      /\ call.op \in {"idle", "init", "text", "level", "deinit"} \union Clears
  BY <1>1 DEF PanelInv, PanelTypeOK
<1>3. ASSUME StartInit PROVE PanelInv'
  <2>1. /\ Start("init", 0, Blank, init_cmds, panel') /\ panel' = panel
        /\ expected' = AllUnknown
    BY <1>3 DEF StartInit, Start
  <2>2. s_is_initialized' \in BOOLEAN /\ once' \in BOOLEAN /\ upset' \in BOOLEAN
    BY <1>2, <1>3, Zenon DEF StartInit
  <2>3. CallOK'
    BY <1>2, <2>1, CallBegins, RowsAndContents DEF Clears
  <2>4. QED
    BY <1>1, <2>1, <2>2, <2>3, PanelUntouched
<1>4. ASSUME NEW r \in 0 .. NumRows, NEW x \in Texts, ShowText(r, x) PROVE PanelInv'
  <2>1. /\ Start("text", r, Drawn(x), RowWrites(r, Drawn(x)), panel')
        /\ panel' = panel /\ expected' = expected /\ r \in Rows /\ Drawn(x) \in Intended
    BY <1>4, RowsAndContents DEF ShowText, RowExists, Start
  <2>2. s_is_initialized' \in BOOLEAN /\ once' \in BOOLEAN /\ upset' \in BOOLEAN
    BY <1>2, <1>4, Zenon DEF ShowText
  <2>3. CallOK'
    BY <1>2, <2>1, CallBegins DEF Clears, RowOps
  <2>4. QED
    BY <1>1, <2>1, <2>2, <2>3, PanelUntouched
<1>5. ASSUME SetBrightness PROVE PanelInv'
  <2>1. /\ Start("level", 0, Blank, Brightness, panel')
        /\ panel' = panel /\ expected' = expected
    BY <1>5 DEF SetBrightness, Start
  <2>2. s_is_initialized' \in BOOLEAN /\ once' \in BOOLEAN /\ upset' \in BOOLEAN
    BY <1>2, <1>5, Zenon DEF SetBrightness
  <2>3. CallOK'
    BY <1>2, <2>1, CallBegins, RowsAndContents DEF Clears
  <2>4. QED
    BY <1>1, <2>1, <2>2, <2>3, PanelUntouched
<1>6. ASSUME Clear PROVE PanelInv'
  <2>1. /\ Start("clear", 0, Blank, RowWrites(0, Blank), panel')
        /\ panel' = panel /\ expected' = expected
    BY <1>6 DEF Clear, Start
  <2>2. s_is_initialized' \in BOOLEAN /\ once' \in BOOLEAN /\ upset' \in BOOLEAN
    BY <1>2, <1>6, Zenon DEF Clear
  <2>3. CallOK'
    BY <1>2, <2>1, CallBegins, RowsAndContents DEF Clears, RowOps
  <2>4. QED
    BY <1>1, <2>1, <2>2, <2>3, PanelUntouched
<1>7. ASSUME PanelDeinit PROVE PanelInv'
  <2>1. /\ Start("deinit", 0, Blank, Plain, panel')
        /\ panel' = panel /\ expected' = expected
    BY <1>7 DEF PanelDeinit, Start
  <2>2. s_is_initialized' \in BOOLEAN /\ once' \in BOOLEAN /\ upset' \in BOOLEAN
    BY <1>2, <1>7, Zenon DEF PanelDeinit
  <2>3. CallOK'
    BY <1>2, <2>1, CallBegins, RowsAndContents DEF Clears
  <2>4. QED
    BY <1>1, <2>1, <2>2, <2>3, PanelUntouched
<1>8. ASSUME Restart PROVE PanelInv'
  <2>1. s_is_initialized' \in BOOLEAN /\ once' \in BOOLEAN /\ upset' \in BOOLEAN
    BY <1>8, Zenon DEF Restart
  <2>2. call' = Idle /\ todo' = <<>> /\ panel' = panel /\ expected' = AllUnknown
    BY <1>8 DEF Restart
  <2>3. QED
    BY <1>1, <2>1, <2>2, CallEnds, PanelUntouched
<1>9. ASSUME Send, Arrives PROVE PanelInv'
  <2> DEFINE done == Len(todo) = 1
  <2>1. Account(done)
    BY <1>9 DEF Arrives
  <2>2. /\ expected' \in [Rows -> Intended \union {Unknown}]
        /\ RowsAccounted'
    <3>1. done \in BOOLEAN /\ (done => Len(todo) = 1) /\ (~done => Len(todo) # 1)
      BY Zenon
    <3> HIDE DEF done
    <3>2. QED
      BY <1>1, <1>9, <2>1, <3>1, AccountIsTrue
  <2>3. CASE Len(todo) = 1
    <3>1. Finish
      BY <1>9, <2>3 DEF Arrives
    <3>2. CallOK'
      BY <1>1, <1>9, <2>3, <3>1, CallFinishes
    <3>3. s_is_initialized' \in BOOLEAN /\ upset' \in BOOLEAN
      BY <1>2, <1>9, Zenon DEF Arrives, Upset
    <3>4. QED
      BY <1>1, <1>9, <2>2, <3>2, <3>3, SendMoves, PanelParts DEF Moves
  <2>4. CASE Len(todo) # 1
    <3>1. todo' = Tail(todo) /\ call' = call
      BY <1>9, <2>4 DEF Arrives
    <3>2. CallOK'
      BY <1>1, <1>9, <2>4, <3>1, CallGoesOn
    <3>3. s_is_initialized' \in BOOLEAN /\ upset' \in BOOLEAN
      BY <1>2, <1>9, Zenon DEF Arrives, Upset
    <3>4. QED
      BY <1>1, <1>9, <2>2, <3>2, <3>3, SendMoves, PanelParts DEF Moves
  <2>5. QED
    BY <2>3, <2>4
<1>10. ASSUME Send, Fails PROVE PanelInv'
  <2>1. Account(FALSE) /\ ~once'
    BY <1>10, Zenon DEF Fails
  <2>2. /\ expected' \in [Rows -> Intended \union {Unknown}]
        /\ RowsAccounted'
    BY <1>1, <1>10, <2>1, AccountIsTrue
  <2>3. s_is_initialized' \in BOOLEAN /\ upset' \in BOOLEAN
    BY <1>2, <1>10, Zenon DEF Fails, Upset
  <2>4. CASE Matters(Head(todo))
    <3>1. call' = Idle /\ todo' = <<>>
      BY <1>10, <2>4 DEF Fails, Return
    <3>2. QED
      BY <1>1, <1>10, <2>2, <2>3, <3>1, SendMoves, CallEnds, PanelParts DEF Moves
  <2>5. CASE ~Matters(Head(todo))
    <3>1. todo' = Tail(todo) /\ call' = call
      BY <1>10, <2>5 DEF Fails
    <3>2. Len(todo) # 1
      <4>1. IsRest(todo, Writes(call)) /\ call.op # "idle"
        BY <1>1, <1>10, SendMoves
      <4>2. call.op \in RowOps /\ todo[1].kind # "data"
        BY <1>2, <2>5, <4>1, RestHead DEF Matters, RowOps
      <4>3. QED
        BY <1>1, <4>2, RowByte
    <3>3. CallOK'
      BY <1>1, <1>10, <3>1, <3>2, CallGoesOn
    <3>4. QED
      BY <1>1, <1>10, <2>2, <2>3, <3>3, SendMoves, PanelParts DEF Moves
  <2>6. QED
    BY <2>4, <2>5
<1>11. ASSUME UNCHANGED panelVars PROVE PanelInv'
  <2>1. UNCHANGED <<s_is_initialized, call, todo, panel, once, expected, upset>>
    BY <1>11 DEF panelVars
  <2>2. PanelTypeOK' /\ RowsAccounted'
    BY <1>1, <2>1 DEF PanelInv, PanelTypeOK, RowsAccounted
  <2>3. CallInStep' /\ PageInStep' /\ RowInStep' /\ InitInStep' /\ ClearInStep'
    BY <1>1, <2>1
       DEF PanelInv, CallInStep, PageInStep, RowInStep, InitInStep, ClearInStep
  <2>4. QED
    BY <2>2, <2>3 DEF PanelInv
<1>12. QED
  BY <1>1, <1>3, <1>4, <1>5, <1>6, <1>7, <1>8, <1>9, <1>10, <1>11 DEF PanelNext, Send

(***************************************************************************)
(* The invariant holds in every reachable state.                           *)
(***************************************************************************)
THEOREM PanelInvariance == PanelSpec => []PanelInv
  BY PanelInvInit, PanelInvNext, PTL DEF PanelSpec

(***************************************************************************)
(* Type correctness of the driver and the panel (PanelTypeOK).             *)
(***************************************************************************)
THEOREM PanelTypeCorrect == PanelSpec => []PanelTypeOK
<1>1. PanelInv => PanelTypeOK
  BY DEF PanelInv
<1>2. QED
  BY <1>1, PanelInvariance, PTL

(***************************************************************************)
(* From wherever a restart of the board left the panel, an init whose      *)
(* commands arrive has it in step, and clears it row by row                *)
(* (InitBringsIntoStep; ssd1306.c:77-98, 110-128).                         *)
(***************************************************************************)
THEOREM InitRecoversPanel == PanelSpec => []InitBringsIntoStep
<1>1. ASSUME PanelInv, call.op = "init clear" /\ once
      PROVE  InStep(panel) /\ \A r \in Rows : r < call.row => panel.ram[r] = Blank
  <2>1. call.inStep /\ Cleared(panel, call.row)
    BY <1>1 DEF PanelInv, ClearInStep
  <2>2. InStep(panel)
    BY <1>1, <2>1 DEF PanelInv, RowInStep, RowOps, Clears
  <2>3. QED
    BY <2>1, <2>2 DEF Cleared
<1>2. PanelInv => InitBringsIntoStep
  BY <1>1, Zenon DEF InitBringsIntoStep
<1>3. QED
  BY <1>2, PanelInvariance, PTL

-----------------------------------------------------------------------------
(***************************************************************************)
(* As long as no init or brightness call was upset, the panel is in page   *)
(* addressing and awaits a value just when the call's next byte is one.    *)
(***************************************************************************)
Expecting ==
  IF call.op \in TwoByteOps /\ Len(todo) < Len(Writes(call))
  THEN Awaited(Writes(call)[Len(Writes(call)) - Len(todo)]) ELSE "nothing"

UpsetInStep ==
  ~upset =>
    /\ panel.mode = "page" /\ panel.awaiting = Expecting
    /\ call.op \in TwoByteOps => once

\* A transaction of a row, or a command of one byte, to a panel that awaits nothing.
LEMMA QuietMoves ==
  ASSUME NEW p \in Panels, NEW b \in Bytes, b.kind \in {"page", "low", "high", "data", "plain"},
         p.awaiting = "nothing", NEW q \in Tried(p, b) \union After(p, b)
  PROVE  q \in Panels /\ q.awaiting = "nothing" /\ q.mode = p.mode
<1>1. q \in Panels
  BY TriedMoves, AfterMoves DEF Moves
<1>2. CASE q = p
  BY <1>2
<1>3. CASE q \in After(p, b) /\ b.kind = "data"
  <2>1. q = Written(p, b.text) /\ b.text \in Contents
    BY <1>3 DEF After, Bytes
  <2>2. QED
    BY <1>1, <2>1, WrittenMoves
<1>4. CASE q \in After(p, b) /\ b.kind # "data"
  <2>1. q \in Takes(p, b)
    BY <1>4 DEF After
  <2>2. CASE b.kind = "page"
    BY <1>1, <2>1, <2>2 DEF Takes, Panels
  <2>3. CASE b.kind \in Nibbles
    BY <1>1, <2>1, <2>3 DEF Takes, Panels, Nibbles
  <2>4. CASE b.kind = "plain"
    BY <1>1, <2>1, <2>4 DEF Takes, Panels, Nibbles
  <2>5. QED
    BY <1>1, <1>4, <2>2, <2>3, <2>4 DEF Nibbles
<1>5. CASE b.kind = "data" /\ q \in {[Written(p, Garbled) EXCEPT !.col = c] : c \in SUBSET Nibbles}
  <2> DEFINE w == Written(p, Garbled)
  <2>1. PICK c \in SUBSET Nibbles : q = [w EXCEPT !.col = c]
    BY <1>5
  <2>2. w \in Panels /\ w.mode = p.mode /\ w.awaiting = p.awaiting
    BY RowsAndContents, WrittenMoves
  <2> HIDE DEF w
  <2>3. QED
    BY <1>1, <2>1, <2>2 DEF Panels
<1>6. QED
  BY <1>2, <1>3, <1>4, <1>5 DEF Tried

(***************************************************************************)
(* A transaction of a text, a clear or deinit, lost or repeated or not,    *)
(* leaves the addressing mode alone and the panel awaiting nothing.        *)
(***************************************************************************)
LEMMA QuietSends ==
  ASSUME PanelInv, Send, call.op \notin TwoByteOps, panel.awaiting = "nothing"
  PROVE  panel'.awaiting = "nothing" /\ panel'.mode = panel.mode
<1> DEFINE b == todo[1]
<1>1. /\ call.op \in {"deinit"} \union RowOps /\ IsRest(todo, Writes(call))
      /\ b \in Bytes /\ panel \in Panels
  BY SendMoves DEF PanelInv, PanelTypeOK, TwoByteOps, RowOps
<1>2. Head(todo) = b
  BY <1>1, RestHead
<1>3. b.kind \in {"page", "low", "high", "data", "plain"}
  <2>1. CASE call.op \in RowOps
    BY <2>1, RowByte
  <2>2. CASE call.op = "deinit"
    <3>1. Writes(call) = Plain /\ Len(Plain) = 1
      BY <2>2 DEF Writes, Plain, RowOps, Clears
    <3>2. b = Plain[1]
      BY <1>1, <3>1, RestHead DEF IsRest
    <3>3. QED
      BY <3>2, WholeCommands
  <2>3. QED
    BY <1>1, <2>1, <2>2
<1>4. \/ panel' \in After(panel, b)
      \/ \E q \in Tried(panel, b) : panel' \in After(q, b) \/ panel' \in Tried(q, b)
  BY <1>1, <1>2, Zenon DEF Send, Arrives, Fails
<1> HIDE DEF b
<1>5. CASE panel' \in After(panel, b)
  BY <1>1, <1>3, <1>5, QuietMoves
<1>6. CASE \E q \in Tried(panel, b) : panel' \in After(q, b) \/ panel' \in Tried(q, b)
  <2>1. PICK q \in Tried(panel, b) : panel' \in After(q, b) \/ panel' \in Tried(q, b)
    BY <1>6
  <2>2. q \in Panels /\ q.awaiting = "nothing" /\ q.mode = panel.mode
    BY <1>1, <1>3, QuietMoves
  <2>3. QED
    BY <1>1, <1>3, <2>1, <2>2, QuietMoves
<1>7. QED
  BY <1>4, <1>5, <1>6

(***************************************************************************)
(* A byte of an init or a brightness call that arrives once, when none was *)
(* upset: the panel awaits what the byte makes it await.                   *)
(***************************************************************************)
LEMMA CommandArrives ==
  ASSUME PanelInv, UpsetInStep, ~upset, Send, call.op \in TwoByteOps, once'
  PROVE  /\ panel'.awaiting = Awaited(todo[1]) /\ panel'.mode = "page"
         /\ Len(todo) = 1 => Awaited(todo[1]) = "nothing"
<1> DEFINE w == Writes(call)
           n == Len(w) - Len(todo)
           b == todo[1]
<1>1. call.op \in {"init", "level", "deinit"}
  BY DEF TwoByteOps
<1>2. /\ panel \in Panels /\ b \in Bytes /\ panel' \in After(panel, b)
      /\ IsRest(todo, w) /\ Whole(w) /\ b.kind # "data"
      /\ b.kind \in Opening \union {"value", "paged"}
  BY <1>1, SendMoves, WritesOf, CommandByte
<1>3. /\ Len(w) \in Nat \ {0} /\ Len(todo) \in 1 .. Len(w) /\ n \in 0 .. Len(w) - 1
      /\ b = w[n + 1]
  BY <1>2, RestHead DEF IsRest
<1>4. panel.mode = "page" /\ panel.awaiting = IF n = 0 THEN "nothing" ELSE Awaited(w[n])
  BY <1>3 DEF UpsetInStep, Expecting
<1> HIDE DEF w, n, b
<1>5. /\ panel.awaiting # "nothing" => panel'.awaiting = "nothing"
      /\ panel.awaiting = "nothing" /\ b.kind \in Opening => panel'.awaiting = Awaited(b)
      /\ panel.awaiting # "mode" => panel'.mode = panel.mode
      /\ panel.awaiting = "mode" /\ b.kind = "paged" => panel'.mode = "page"
  BY <1>2, AfterAwaits
<1>6. Len(todo) = 1 => Awaited(b) = "nothing"
  <2>1. ASSUME Len(todo) = 1 PROVE n + 1 = Len(w) /\ n + 1 \in 1 .. Len(w)
    BY <1>3, <2>1 DEF n
  <2>2. Len(todo) = 1 => b.kind \notin {"arg", "mode"}
    BY <1>2, <1>3, <2>1 DEF Whole
  <2>3. QED
    BY <2>2 DEF Awaited
<1>7. CASE n = 0
  <2>1. b.kind \in Opening
    BY <1>2, <1>3, <1>7 DEF Whole
  <2>2. QED
    BY <1>4, <1>5, <1>6, <1>7, <2>1 DEF b
<1>8. CASE n # 0
  <2> DEFINE a == w[n]
  <2>1. n \in 1 .. Len(w) /\ n < Len(w) /\ panel.awaiting = Awaited(a)
    BY <1>3, <1>4, <1>8
  <2>2. /\ a.kind \in Opening \union {"value", "paged"}
        /\ a.kind = "arg" => b.kind = "value"
        /\ a.kind = "mode" => b.kind = "paged"
        /\ a.kind \in {"plain", "value", "paged"} => b.kind \in Opening
    BY <1>2, <1>3, <2>1 DEF Whole
  <2> HIDE DEF a
  <2>3. panel'.awaiting = Awaited(b) /\ panel'.mode = "page"
    BY <1>2, <1>4, <1>5, <2>1, <2>2 DEF Awaited, Opening
  <2>4. QED
    BY <1>6, <2>3 DEF b
<1>9. QED
  BY <1>7, <1>8

\* A call that begins on a panel that awaits nothing.
LEMMA UpsetBegins ==
  ASSUME NEW op, NEW row, NEW text, NEW writes,
         Start(op, row, text, writes, panel'),
         op = "init" => writes = init_cmds,
         op = "level" => writes = Brightness,
         op \in TwoByteOps => once',
         ~upset' => panel'.mode = "page" /\ panel'.awaiting = "nothing"
  PROVE  UpsetInStep'
<1>1. call'.op = op /\ todo' = writes
  BY DEF Start
<1>2. op \in TwoByteOps => todo' = Writes(call')
  <2>1. CASE op = "init"
    BY <1>1, <2>1 DEF Writes, RowOps, Clears
  <2>2. CASE op = "level"
    BY <1>1, <2>2 DEF Writes, RowOps, Clears
  <2>3. QED
    BY <2>1, <2>2 DEF TwoByteOps
<1>3. op \in TwoByteOps => Len(todo') \in Nat
  <2>1. Brightness = Pair /\ Whole(init_cmds) /\ Whole(Pair)
    BY WholeCommands, InitCommands DEF Brightness, Pair
  <2>2. Len(init_cmds) \in Nat /\ Len(Brightness) \in Nat
    BY <2>1, LenProperties DEF Whole
  <2>3. QED
    BY <1>1, <2>2 DEF TwoByteOps
<1>4. Expecting' = "nothing"
  BY <1>1, <1>2, <1>3, NotBelowItself, Zenon DEF Expecting
<1>5. QED
  BY <1>1, <1>4 DEF UpsetInStep

LEMMA UpsetNext == PanelInv /\ UpsetInStep /\ [PanelNext]_panelVars => UpsetInStep'
<1>1. SUFFICES ASSUME PanelInv, UpsetInStep, [PanelNext]_panelVars PROVE UpsetInStep'
  OBVIOUS
<1>2. ASSUME call.op \notin TwoByteOps, ~upset
      PROVE  panel.mode = "page" /\ panel.awaiting = "nothing"
  BY <1>1, <1>2 DEF UpsetInStep, Expecting
<1>3. Idle.op \notin TwoByteOps /\ "idle" \notin TwoByteOps
  BY DEF Idle, TwoByteOps
<1>4. ASSUME call'.op \notin TwoByteOps,
             ~upset' => panel'.mode = "page" /\ panel'.awaiting = "nothing"
      PROVE  UpsetInStep'
  BY <1>4 DEF UpsetInStep, Expecting
<1>5. ASSUME StartInit PROVE UpsetInStep'
  <2>1. /\ Start("init", 0, Blank, init_cmds, panel') /\ panel' = panel /\ upset' = upset
        /\ once' /\ call = Idle
    BY <1>5 DEF StartInit, Start
  <2>2. QED
    BY <1>2, <1>3, <2>1, UpsetBegins
<1>6. ASSUME SetBrightness PROVE UpsetInStep'
  <2>1. /\ Start("level", 0, Blank, Brightness, panel') /\ panel' = panel /\ upset' = upset
        /\ once' /\ call = Idle
    BY <1>6 DEF SetBrightness, Start
  <2>2. QED
    BY <1>2, <1>3, <2>1, UpsetBegins
<1>7. ASSUME NEW r \in 0 .. NumRows, NEW x \in Texts, ShowText(r, x) PROVE UpsetInStep'
  <2>1. call'.op = "text" /\ panel' = panel /\ upset' = upset /\ call = Idle
    BY <1>7 DEF ShowText, Start
  <2>2. QED
    BY <1>2, <1>3, <1>4, <2>1 DEF TwoByteOps
<1>8. ASSUME Clear \/ PanelDeinit PROVE UpsetInStep'
  <2>1. call'.op \in {"clear", "deinit"} /\ panel' = panel /\ upset' = upset /\ call = Idle
    BY <1>8 DEF Clear, PanelDeinit, Start
  <2>2. QED
    BY <1>2, <1>3, <1>4, <2>1 DEF TwoByteOps
<1>9. ASSUME Restart PROVE UpsetInStep'
  <2>1. /\ call' = Idle /\ panel' = panel
        /\ upset' = (upset \/ call.op \in TwoByteOps)
    BY <1>9 DEF Restart
  <2>2. QED
    BY <1>2, <1>3, <1>4, <2>1
<1>10. ASSUME Send, call.op \notin TwoByteOps PROVE UpsetInStep'
  <2>1. upset' = upset
    <3>1. call.op # "init"
      BY <1>10 DEF TwoByteOps
    <3>2. upset \in BOOLEAN
      BY <1>1 DEF PanelInv, PanelTypeOK
    <3>3. QED
      BY <1>10, <3>1, <3>2, Zenon DEF Send, Arrives, Fails, Upset
  <2>2. ~upset' => panel'.mode = "page" /\ panel'.awaiting = "nothing"
    BY <1>1, <1>2, <1>10, <2>1, QuietSends
  <2>3. call' = call \/ call' = Idle \/ call'.op = call.op
    <3>1. call' = call \/ Finish \/ Return
      BY <1>10, Zenon DEF Send, Arrives, Fails
    <3>2. Finish => Return \/ \E row, writes : Start(call.op, row, Blank, writes, panel')
      BY <1>10, Zenon DEF Finish, TwoByteOps
    <3>3. ASSUME NEW row, NEW writes, Start(call.op, row, Blank, writes, panel')
          PROVE  call'.op = call.op
      BY <3>3 DEF Start
    <3>4. QED
      BY <3>1, <3>2, <3>3, Zenon DEF Return
  <2>4. QED
    BY <1>3, <1>4, <1>10, <2>2, <2>3
<1>11. ASSUME Send, call.op \in TwoByteOps PROVE UpsetInStep'
  <2>1. CASE call.op = "init" /\ Len(todo) = 1 /\ once'
    <3>1. InStep(panel')
      BY <1>1, <1>11, <2>1, InitArrives
    <3>2. Finish
      BY <1>11, <2>1, Zenon DEF Send, Arrives, Fails
    <3>3. Start("init clear", 0, Blank, RowWrites(0, Blank), panel')
      BY <2>1, <3>2 DEF Finish
    <3>4. call'.op = "init clear"
      BY <3>3 DEF Start
    <3>5. QED
      BY <1>4, <3>1, <3>4 DEF TwoByteOps, InStep
  <2>2. CASE ~(call.op = "init" /\ Len(todo) = 1 /\ once')
    <3>1. upset' = (upset \/ ~once')
      BY <1>11, <2>2, Zenon DEF Send, Arrives, Fails, Upset
    <3>2. SUFFICES ASSUME ~upset' PROVE UpsetInStep'
      BY DEF UpsetInStep
    <3>3. ~upset /\ once'
      BY <3>1, <3>2
    <3>4. /\ panel'.awaiting = Awaited(todo[1]) /\ panel'.mode = "page"
          /\ Len(todo) = 1 => Awaited(todo[1]) = "nothing"
      BY <1>1, <1>11, <3>3, CommandArrives
    <3>5. Arrives
      BY <1>11, <3>3, Zenon DEF Send, Fails
    <3>6. CASE Len(todo) = 1
      <4>1. call' = Idle
        BY <1>11, <2>2, <3>3, <3>5, <3>6 DEF Arrives, Finish, Return, TwoByteOps, Clears
      <4>2. QED
        BY <1>3, <1>4, <3>4, <3>6, <4>1
    <3>7. CASE Len(todo) # 1
      <4>1. call' = call /\ todo' = Tail(todo)
        BY <3>5, <3>7 DEF Arrives
      <4>2. IsRest(todo, Writes(call))
        BY <1>1, <1>11, SendMoves
      <4>3. /\ Len(todo') = Len(todo) - 1 /\ Len(todo) \in 1 .. Len(Writes(call))
            /\ Len(Writes(call)) \in Nat
            /\ todo[1] = Writes(call)[Len(Writes(call)) - Len(todo) + 1]
        BY <3>7, <4>1, <4>2, RestTail, RestHead DEF IsRest
      <4>4. Expecting' = Awaited(todo[1])
        <5> DEFINE w == Writes(call)
        <5>1. Writes(call') = w
          BY <4>1
        <5> HIDE DEF w
        <5>2. /\ Len(todo') < Len(w) /\ Len(w) - Len(todo') = Len(w) - Len(todo) + 1
              /\ todo[1] = w[Len(w) - Len(todo) + 1]
          BY <4>3 DEF w
        <5>3. w[Len(w) - Len(todo')] = todo[1]
          BY <5>2
        <5>4. QED
          BY <1>11, <4>1, <5>1, <5>2, <5>3 DEF Expecting
      <4>5. QED
        BY <3>3, <3>4, <4>4 DEF UpsetInStep
    <3>8. QED
      BY <3>6, <3>7
  <2>3. QED
    BY <2>1, <2>2
<1>12. ASSUME UNCHANGED panelVars PROVE UpsetInStep'
  BY <1>1, <1>12 DEF panelVars, UpsetInStep, Expecting, Writes
<1>13. QED
  BY <1>1, <1>5, <1>6, <1>7, <1>8, <1>9, <1>10, <1>11, <1>12 DEF PanelNext

(***************************************************************************)
(* On a panel of any size, however transactions are lost or repeated and   *)
(* whenever the board restarts, the panel leaves page addressing only if   *)
(* an init or a brightness call was upset, and as long as no text meets    *)
(* another mode a call spoils no other row than its own and the one the    *)
(* panel was at (DamageIsLocal; ssd1306.c:77-98, 130-175).                 *)
(***************************************************************************)
THEOREM DamageStaysLocal == PanelSpec => []DamageIsLocal
<1>1. PanelInit => UpsetInStep
  BY DEF PanelInit, UpsetInStep, Expecting, Idle, TwoByteOps
<1>2. PanelInv /\ UpsetInStep => DamageIsLocal
  BY DEF PanelInv, RowsAccounted, UpsetInStep, DamageIsLocal
<1>3. QED
  BY <1>1, <1>2, UpsetNext, PanelInvariance, PTL DEF PanelSpec

-----------------------------------------------------------------------------
(***************************************************************************)
(* A row heals without an init.  The first byte of a row is a command of   *)
(* one byte: whatever value the panel still awaited, it has it then, and   *)
(* nothing that follows makes it wait for another.                         *)
(***************************************************************************)
RowResync == call.op \in RowOps /\ once /\ Len(todo) < 4 => panel.awaiting = "nothing"

LEMMA ThreeOrLess ==
  ASSUME NEW n \in 1 .. 4, n # 4
  PROVE  n \in 1 .. 3 /\ n < 4
  OBVIOUS

LEMMA RowAwaits ==
  ASSUME PanelInv, RowResync, Send, call.op \in RowOps, once'
  PROVE  panel'.awaiting = "nothing"
<1>1. /\ panel \in Panels /\ todo[1] \in Bytes /\ once /\ panel' \in After(panel, todo[1])
  BY SendMoves
<1>2. Len(todo) \in 1 .. 4
  BY RowByte
<1>3. CASE Len(todo) = 4
  <2>1. todo[1].kind = "page"
    BY <1>3, RowByte
  <2>2. CASE panel.awaiting # "nothing"
    BY <1>1, <2>1, <2>2, AfterAwaits
  <2>3. CASE panel.awaiting = "nothing"
    <3>1. panel' \in Takes(panel, todo[1])
      BY <1>1, <2>1, <2>3 DEF After
    <3>2. QED
      BY <1>1, <2>1, <2>3, <3>1 DEF Takes, Panels
  <2>4. QED
    BY <2>2, <2>3
<1>4. CASE Len(todo) # 4
  <2>0. Len(todo) \in 1 .. 3 /\ Len(todo) < 4
    BY <1>2, <1>4, ThreeOrLess
  <2>1. panel.awaiting = "nothing" /\ todo[1].kind \in {"low", "high", "data"}
    <3>1. panel.awaiting = "nothing"
      BY <1>1, <2>0, Zenon DEF RowResync
    <3>2. todo[1].kind \in {"low", "high", "data"}
      BY <2>0, RowByte
    <3>3. QED
      BY <3>1, <3>2
  <2>2. CASE todo[1].kind = "data"
    <3>1. panel' = Written(panel, todo[1].text) /\ todo[1].text \in Contents
      BY <1>1, <2>2 DEF After, Bytes
    <3>2. QED
      BY <1>1, <2>1, <3>1, WrittenMoves
  <2>3. CASE todo[1].kind \in {"low", "high"}
    <3>1. panel' \in Takes(panel, todo[1])
      BY <1>1, <2>1, <2>3 DEF After
    <3>2. QED
      BY <1>1, <2>1, <2>3, <3>1 DEF Takes, Panels, Nibbles
  <2>4. QED
    BY <2>1, <2>2, <2>3
<1>5. QED
  BY <1>3, <1>4

\* A row that begins has its four transactions before it.
LEMMA RowBegins ==
  ASSUME NEW op, NEW row \in Rows, NEW text \in Intended, NEW writes,
         Start(op, row, text, writes, panel'),
         op \in RowOps => writes = RowWrites(row, text)
  PROVE  RowResync'
<1>1. text \in Contents
  BY RowsAndContents
<1>2. call'.op = op /\ todo' = writes
  BY DEF Start
<1>3. call'.op \in RowOps => Len(todo') = 4
  BY <1>1, <1>2, RowSequence
<1>4. QED
  BY <1>3, Four, Zenon DEF RowResync

LEMMA ResyncNext == PanelInv /\ RowResync /\ [PanelNext]_panelVars => RowResync'
<1>1. SUFFICES ASSUME PanelInv, RowResync, [PanelNext]_panelVars PROVE RowResync'
  OBVIOUS
<1>2. ASSUME call' = Idle PROVE RowResync'
  <2>1. call'.op = "idle"
    BY <1>2 DEF Idle
  <2>2. QED
    BY <2>1 DEF RowResync, RowOps, Clears
<1>3. ASSUME StartInit \/ SetBrightness \/ PanelDeinit PROVE RowResync'
  <2>1. {"init", "level", "deinit"} \intersect RowOps = {}
    BY DEF RowOps, Clears
  <2>2. PICK op \in {"init", "level", "deinit"} : \E writes : Start(op, 0, Blank, writes, panel')
    BY <1>3, Zenon DEF StartInit, SetBrightness, PanelDeinit, Start
  <2>3. PICK writes : Start(op, 0, Blank, writes, panel')
    BY <2>2
  <2>4. QED
    BY <2>1, <2>3, RowBegins, RowsAndContents
<1>4. ASSUME Clear PROVE RowResync'
  <2>1. Start("clear", 0, Blank, RowWrites(0, Blank), panel')
    BY <1>4 DEF Clear, Start
  <2>2. QED
    BY <2>1, RowBegins, RowsAndContents
<1>5. ASSUME NEW r \in 0 .. NumRows, NEW x \in Texts, ShowText(r, x) PROVE RowResync'
  <2>1. /\ Start("text", r, Drawn(x), RowWrites(r, Drawn(x)), panel') /\ r \in Rows
        /\ Drawn(x) \in Intended
    BY <1>5, RowsAndContents DEF ShowText, RowExists, Start
  <2>2. QED
    BY <2>1, RowBegins
<1>6. ASSUME Send PROVE RowResync'
  <2>1. CASE ~once'
    BY <2>1 DEF RowResync
  <2>2. CASE once' /\ call' = call
    BY <1>1, <1>6, <2>2, RowAwaits DEF RowResync
  <2>3. CASE once' /\ call' # call
    <3>1. Len(todo) = 1 /\ Finish
      BY <1>6, <2>3, Zenon DEF Send, Arrives, Fails
    <3>2. CASE call' = Idle
      BY <1>2, <3>2
    <3>3. CASE call.op = "init"
      <4>1. Start("init clear", 0, Blank, RowWrites(0, Blank), panel')
        BY <3>1, <3>3 DEF Finish
      <4>2. QED
        BY <4>1, RowBegins, RowsAndContents
    <3>4. CASE call.op # "init" /\ call.op \in Clears /\ call.row < NumRows - 1
      <4>1. Start(call.op, call.row + 1, Blank, RowWrites(call.row + 1, Blank), panel')
        BY <3>1, <3>4 DEF Finish
      <4>2. call.row + 1 \in Rows
        BY <1>1, <3>4, PanelAssumption DEF PanelInv, PanelTypeOK, Rows
      <4>3. QED
        BY <4>1, <4>2, RowBegins, RowsAndContents
    <3>5. QED
      BY <3>1, <3>2, <3>3, <3>4 DEF Finish, Return
  <2>4. QED
    BY <2>1, <2>2, <2>3
<1>7. ASSUME Restart PROVE RowResync'
  BY <1>2, <1>7 DEF Restart
<1>8. ASSUME UNCHANGED panelVars PROVE RowResync'
  BY <1>1, <1>8 DEF panelVars, RowResync
<1>9. QED
  BY <1>1, <1>3, <1>4, <1>5, <1>6, <1>7, <1>8 DEF PanelNext

(***************************************************************************)
(* Why a row recovers: two showings that arrive heal it, whatever was lost *)
(* before.  The first brings a panel that is in page addressing back into  *)
(* step, and each that begins in step ends with its text on its row        *)
(* (ssd1306.c:137-139, 141-163; the step that RowRecovers stands on).      *)
(***************************************************************************)
ShowingHeals ==
  [][call.op = "text" /\ call' = Idle /\ once' /\ panel'.mode = "page" =>
       /\ InStep(panel')
       /\ call.inStep => panel'.ram[call.row] = call.text]_panelVars

(***************************************************************************)
(* ShowingHeals holds in every behaviour of caller and panel, for any      *)
(* texts and any order of losses (ssd1306.c:137-163).                      *)
(***************************************************************************)
THEOREM TwoShowingsHeal == PanelSpec => ShowingHeals
<1>1. PanelInit => RowResync
  BY DEF PanelInit, RowResync, Idle, RowOps, Clears
<1>2. PanelInv /\ RowResync /\ [PanelNext]_panelVars =>
        [call.op = "text" /\ call' = Idle /\ once' /\ panel'.mode = "page" =>
           /\ InStep(panel')
           /\ call.inStep => panel'.ram[call.row] = call.text]_panelVars
  <2>1. SUFFICES ASSUME PanelInv, RowResync, PanelNext, call.op = "text", call' = Idle, once',
                        panel'.mode = "page"
                 PROVE  /\ InStep(panel')
                        /\ call.inStep => panel'.ram[call.row] = call.text
    OBVIOUS
  <2>2. call # Idle /\ call.op \in RowOps
    BY <2>1 DEF Idle, RowOps
  <2>3. Send
    <3>1. ~Restart
      BY <2>1, Zenon DEF Restart
    <3>2. ~StartInit /\ ~SetBrightness /\ ~Clear /\ ~PanelDeinit
      BY <2>2 DEF StartInit, SetBrightness, Clear, PanelDeinit
    <3>3. \A r \in 0 .. NumRows, x \in Texts : ~ShowText(r, x)
      BY <2>2 DEF ShowText
    <3>4. QED
      BY <2>1, <3>1, <3>2, <3>3 DEF PanelNext
  <2>4. InStep(panel')
    BY <2>1, <2>2, <2>3, RowAwaits DEF InStep
  <2>5. ASSUME call.inStep PROVE panel'.ram[call.row] = call.text
    <3>1. Len(todo) = 1
      BY <2>1, <2>2, <2>3, Zenon DEF Send, Arrives, Fails
    <3>2. panel'.ram = [panel.ram EXCEPT ![call.row] = call.text]
      BY <2>1, <2>2, <2>3, <2>5, <3>1, RowArrives
    <3>3. call.row \in Rows /\ panel.ram \in [Rows -> Contents]
      BY <2>1 DEF PanelInv, PanelTypeOK, Panels
    <3>4. QED
      BY <3>2, <3>3
  <2>6. QED
    BY <2>4, <2>5
<1>3. QED
  BY <1>1, <1>2, ResyncNext, PanelInvariance, PTL DEF PanelSpec, ShowingHeals
==============================================================================
