------------------------------ MODULE Ssd1306 ------------------------------
(***************************************************************************)
(* The panel's driver (drivers/ic/ssd1306.c), one caller, and the panel it *)
(* talks to one byte at a time.  The panel has a state of its own: it may  *)
(* be waiting for the second byte of a command, and data goes to the page  *)
(* and the column it was last told.  It keeps that state when the board    *)
(* restarts, and the bus under the driver may lose a transaction, report   *)
(* one as lost that arrived, or repeat it after a recovery.                *)
(*                                                                         *)
(* A definition that stands directly above the one it resembles and is     *)
(* used nowhere is a mistake the code might have made, kept to show which  *)
(* property notices it.                                                    *)
(***************************************************************************)
EXTENDS Naturals, Sequences

CONSTANTS
  NumRows,  \* the pages of the panel (8)
  MaxChars, \* s_scr_width / 8: the characters a row has room for (16)
  Texts,    \* what callers show, sequences of characters
  Garbled,  \* a row written in part, or from a column inside it
  Unknown   \* a row of which nothing is promised

ASSUME PanelAssumption ==
  /\ NumRows \in Nat \ {0} /\ MaxChars \in Nat \ {0}
  /\ \A text \in Texts : text \in Seq(STRING)

Rows == 0 .. NumRows - 1

(***************************************************************************)
(* What a text looks like: a character without a glyph is a space, and so  *)
(* is the room behind the text; what does not fit is cut off.  The zeroes  *)
(* that clear writes are spaces too.  The table ends at Y, the range that  *)
(* is looked up at 0x5F: the six characters between are drawn from what    *)
(* the image holds behind the table.  No text of the board has one.        *)
(***************************************************************************)
font_8x8 == {" ", "!", "0", "1", "2", "3", "4", "5", "A", "B", "C", "D", "E", "H", "K", "M",
             "O", "P", "R", "S", "T", "V", "W", "Y"}

BeyondFont == {"Z", "[", "\\", "]", "^", "_"}

Glyph(ch) ==
  CASE ch \in font_8x8 -> ch [] ch \in BeyondFont -> "behind the font" [] OTHER -> " "

Drawn(text) == [c \in 1 .. MaxChars |-> IF c <= Len(text) THEN Glyph(text[c]) ELSE " "]

Blank == Drawn(<<>>)

Intended == {Drawn(text) : text \in Texts} \union {Blank}

\* A row that is spoiled is told from one that shows a text.
ASSUME ContentsAssumption == Garbled \notin Intended /\ Unknown \notin Intended \union {Garbled}

VARIABLES
  s_is_initialized,
  call,     \* the call in progress: [op, row, text], with the history of the panel at
            \* its start: [inStep, from], from the page it was at
  todo,     \* the transactions it has still to make
  panel,    \* [awaiting, mode, page, col, ram]
  once,     \* history: every transaction of the call has arrived once
  expected, \* history: what each row must show, or Unknown
  upset     \* history: since the last init that arrived, an init or a brightness call
            \* met a loss, a repetition or a restart

panelVars == <<s_is_initialized, call, todo, panel, once, expected, upset>>

Contents == Intended \union {Garbled}
Nibbles  == {"low", "high"}                  \* of the column, when they are not 0
Panels   == [awaiting : {"nothing", "mode", "value"}, mode : {"page", "other"},
             page : Rows, col : SUBSET Nibbles, ram : [Rows -> Contents]]

Idle == [op |-> "idle", row |-> 0, text |-> Blank, inStep |-> FALSE, from |-> 0]

InStep(p) == p.awaiting = "nothing" /\ p.mode = "page"

AllUnknown == [r \in Rows |-> Unknown]

\* A panel just powered; the board has not talked to it yet.
PanelInit ==
  /\ s_is_initialized = FALSE
  /\ call = Idle /\ todo = <<>>
  /\ panel = [awaiting |-> "nothing", mode |-> "page", page |-> 0, col |-> {},
              ram |-> [r \in Rows |-> Garbled]]
  /\ once = FALSE /\ upset = FALSE
  /\ expected = AllUnknown

-----------------------------------------------------------------------------
(***************************************************************************)
(* What the driver sends.  A command is a byte; the first of two ("mode"   *)
(* for 0x20, "arg" for the others) is followed by its value ("paged" for   *)
(* 0x02); data is the 128 columns of a row.                                *)
(***************************************************************************)
Cmd(kind)  == [kind |-> kind, row |-> 0, text |-> Blank]
PageCmd(r) == [kind |-> "page", row |-> r, text |-> Blank]
Data(text) == [kind |-> "data", row |-> 0, text |-> text]

Plain   == <<Cmd("plain")>>
Pair    == <<Cmd("arg"), Cmd("value")>>
Paged   == <<Cmd("mode"), Cmd("paged")>>

\* init_cmds, in the order of lines 77-93.
AfterMode == Plain \o Plain \o Pair \o Pair \o Pair \o Pair \o Plain \o Plain \o Plain
ModeFirst == Paged \o Plain \o Pair \o Pair \o Pair \o Plain \o Pair \o AfterMode
init_cmds == Plain \o Pair \o Pair \o Pair \o Plain \o Pair \o Paged \o AfterMode

KeepsColumn(row, text) == <<PageCmd(row), Data(text)>>
RowWrites(row, text)   == <<PageCmd(row), Cmd("low"), Cmd("high"), Data(text)>>

Brightness == <<Cmd("arg"), Cmd("value")>>

-----------------------------------------------------------------------------
(***************************************************************************)
(* The panel (external).  A byte it awaits is a value, whatever was meant; *)
(* a value it does not await is some command.  128 columns of data end at  *)
(* the column they began at; in another mode than page addressing they run *)
(* over the other rows, and the page and column commands do nothing.       *)
(***************************************************************************)
Stray(p) ==
  [awaiting : {"nothing", "mode", "value"}, mode : {p.mode}, page : Rows,
   col : SUBSET Nibbles, ram : {p.ram}]

Takes(p, b) ==
  CASE b.kind = "page"  -> {IF p.mode = "page" THEN [p EXCEPT !.page = b.row] ELSE p}
    [] b.kind \in Nibbles ->
         {IF p.mode = "page" THEN [p EXCEPT !.col = @ \ {b.kind}] ELSE p}
    [] b.kind = "mode"  -> {[p EXCEPT !.awaiting = "mode"]}
    [] b.kind = "arg"   -> {[p EXCEPT !.awaiting = "value"]}
    [] b.kind = "plain" -> {p}
    [] b.kind \in {"value", "paged"} -> Stray(p)

Written(p, text) ==
  IF p.mode = "page"
  THEN [p EXCEPT !.ram[p.page] = IF p.col = {} THEN text ELSE Garbled]
  ELSE [p EXCEPT !.ram = [r \in Rows |-> Garbled]]

\* The panels a transaction that arrives whole can leave.
After(p, b) ==
  IF b.kind = "data" THEN {Written(p, b.text)}
  ELSE IF p.awaiting = "value" THEN {[p EXCEPT !.awaiting = "nothing"]}
  ELSE IF p.awaiting = "mode"
  THEN {[p EXCEPT !.awaiting = "nothing", !.mode = m] :
          m \in IF b.kind = "paged" THEN {"page"} ELSE {"page", "other"}}
  ELSE Takes(p, b)

\* The panels an attempt that fails can leave: none, all or a part of it arrived.
Tried(p, b) ==
  {p} \union After(p, b) \union
    (IF b.kind = "data" THEN {[Written(p, Garbled) EXCEPT !.col = c] : c \in SUBSET Nibbles}
                        ELSE {})

-----------------------------------------------------------------------------
Start(op, row, text, writes, p) ==
  /\ call' = [op |-> op, row |-> row, text |-> text, inStep |-> InStep(p), from |-> p.page]
  /\ todo' = writes

\* ssd1306_init_hw, the device having been added to the bus.
StartInit ==
  /\ call = Idle
  /\ Start("init", 0, Blank, init_cmds, panel)
  /\ once' = TRUE /\ expected' = AllUnknown
  /\ UNCHANGED <<s_is_initialized, panel, upset>>

\* `if (row >= 8) return ESP_ERR_INVALID_ARG`
AnyRow(row)    == TRUE
RowExists(row) == row \in Rows

ShowText(row, text) ==
  /\ s_is_initialized /\ call = Idle
  /\ RowExists(row)
  /\ Start("text", row, Drawn(text), RowWrites(row, Drawn(text)), panel)
  /\ once' = TRUE
  /\ UNCHANGED <<s_is_initialized, panel, expected, upset>>

SetBrightness ==
  /\ s_is_initialized /\ call = Idle
  /\ Start("level", 0, Blank, Brightness, panel)
  /\ once' = TRUE
  /\ UNCHANGED <<s_is_initialized, panel, expected, upset>>

\* The clear of the vtable, which does what init does after its commands.
Clear ==
  /\ s_is_initialized /\ call = Idle
  /\ Start("clear", 0, Blank, RowWrites(0, Blank), panel)
  /\ once' = TRUE
  /\ UNCHANGED <<s_is_initialized, panel, expected, upset>>

\* deinit switches the display off and forgets it, whatever came of that.
PanelDeinit ==
  /\ s_is_initialized /\ call = Idle
  /\ Start("deinit", 0, Blank, Plain, panel)
  /\ once' = TRUE
  /\ UNCHANGED <<s_is_initialized, panel, expected, upset>>

\* The calls that send a byte and then its value.
TwoByteOps == {"init", "level"}

\* The board restarts: after an init that failed (ESP_ERROR_CHECK), or a watchdog.
Restart ==
  /\ s_is_initialized' = FALSE
  /\ call' = Idle /\ todo' = <<>>
  /\ once' = FALSE /\ expected' = AllUnknown
  /\ upset' = (upset \/ call.op \in TwoByteOps)
  /\ UNCHANGED panel

-----------------------------------------------------------------------------
\* A failure ends the call, but for the addressing commands of a row: nobody looks at those.
Matters(b) == call.op \in {"init", "level", "deinit"} \/ b.kind = "data"

Return == call' = Idle /\ todo' = <<>>

\* What follows the last transaction of a call: init clears the panel, row by row.
Clears == {"init clear", "clear"}

Finish ==
  IF call.op = "init"
  THEN Start("init clear", 0, Blank, RowWrites(0, Blank), panel')
  ELSE IF call.op \in Clears /\ call.row < NumRows - 1
  THEN Start(call.op, call.row + 1, Blank, RowWrites(call.row + 1, Blank), panel')
  ELSE Return

\* The history of a transaction: a call that met a panel in step and arrived once
\* sets its row's text; any other may have spoiled its row and the one the panel
\* was at; data that meets another mode than page addressing spoils every row.
Account(done) ==
  expected' =
    IF call.op \notin {"text"} \union Clears THEN expected
    ELSE IF Head(todo).kind = "data" /\ panel.mode # "page" THEN AllUnknown
    ELSE IF ~(call.inStep /\ once')
    THEN [expected EXCEPT ![call.row] = Unknown, ![call.from] = Unknown]
    ELSE IF done THEN [expected EXCEPT ![call.row] = call.text]
    ELSE expected

Upset(done) ==
  upset' = IF call.op = "init" /\ done /\ once' THEN FALSE
           ELSE upset \/ (call.op \in TwoByteOps /\ ~once')

\* i2c_bus_write returns ESP_OK, at the first attempt or at the second.
Arrives ==
  LET b == Head(todo)  done == Len(todo) = 1 IN
  /\ \/ once' = once /\ panel' \in After(panel, b)
     \/ once' = FALSE /\ panel' \in UNION {After(q, b) : q \in Tried(panel, b)}
  /\ Account(done) /\ Upset(done)
  /\ IF done THEN Finish ELSE todo' = Tail(todo) /\ UNCHANGED call
  /\ s_is_initialized' =
       IF done /\ call.op \in {"init", "deinit"} THEN call.op = "init" ELSE s_is_initialized

\* It returns an error, after one attempt or two.
Fails ==
  LET b == Head(todo) IN
  /\ once' = FALSE /\ panel' \in UNION {Tried(q, b) : q \in Tried(panel, b)}
  /\ Account(FALSE) /\ Upset(FALSE)
  /\ IF Matters(b) THEN Return ELSE todo' = Tail(todo) /\ UNCHANGED call
  /\ s_is_initialized' = (s_is_initialized /\ call.op # "deinit")

Send == todo # <<>> /\ (Arrives \/ Fails)

PanelNext ==
  \/ StartInit \/ Restart \/ Send
  \/ \E r \in 0 .. NumRows, x \in Texts : ShowText(r, x)
  \/ SetBrightness \/ Clear \/ PanelDeinit

PanelSpec == PanelInit /\ [][PanelNext]_panelVars

-----------------------------------------------------------------------------
(***************************************************************************)
(* Type correctness; the page the panel is told is one it has.             *)
(***************************************************************************)
PanelTypeOK ==
  /\ s_is_initialized \in BOOLEAN /\ once \in BOOLEAN /\ upset \in BOOLEAN
  /\ call.op \in {"idle", "init", "text", "level", "deinit"} \union Clears
  /\ call.row \in Rows /\ call.from \in Rows
  /\ (call = Idle) <=> (todo = <<>>)
  /\ panel \in Panels
  /\ expected \in [Rows -> Intended \union {Unknown}]

(***************************************************************************)
(* A text stays on its row until the row is written again.  However the    *)
(* transactions of texts and clears are lost or repeated, and whenever the *)
(* board restarts among them, the panel stays in page addressing and such  *)
(* a call spoils no other row than its own and the one the panel was at; a *)
(* later one that meets the panel in step and arrives repairs its row,     *)
(* whatever was left there (ssd1306.c:137-139: page and column are sent    *)
(* anew for each text).  What can take the panel out of page addressing is *)
(* a byte and value out of step: an init or a brightness call (77-98,      *)
(* 170-172) of which a transaction was lost, repeated or cut off.  From    *)
(* there a text spoils every row, until an init arrives whole.             *)
(***************************************************************************)
DamageIsLocal ==
  /\ ~upset => panel.mode = "page"
  /\ \A r \in Rows : expected[r] \in {Unknown, panel.ram[r]}

(***************************************************************************)
(* The restart of a board finds the panel where it was left, perhaps in    *)
(* the middle of a command: an init that arrives brings it back into step, *)
(* and clears it row by row (ssd1306.c:77-98, 110-128).                    *)
(***************************************************************************)
InitBringsIntoStep ==
  call.op = "init clear" /\ once =>
    InStep(panel) /\ \A r \in Rows : r < call.row => panel.ram[r] = Blank

(***************************************************************************)
(* Without an init the panel recovers by itself: whatever was lost before, *)
(* once each transaction arrives once and only texts and brightness are    *)
(* sent, a row whose text is shown again and again comes to show it and    *)
(* keeps it, unless the panel was left in another addressing mode, which   *)
(* only init sets (ssd1306.c:137-139, 84).                                 *)
(***************************************************************************)
Healed ==
  /\ s_is_initialized /\ panel.mode = "page"
  /\ call.op \in {"idle", "text", "level"}
  /\ once

Shows(r) == call.op = "text" /\ call.row = r

RowRecovers ==
  \A r \in Rows, text \in Texts :
    /\ <>[](Healed /\ (Shows(r) => call.text = Drawn(text)))
    /\ []<>Shows(r) /\ []<>~Shows(r)
    => <>[](panel.ram[r] = Drawn(text))
=============================================================================
