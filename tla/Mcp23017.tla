------------------------------ MODULE Mcp23017 ------------------------------
(***************************************************************************)
(* The I/O expander's driver (drivers/ic/mcp23017.c), one caller, and the  *)
(* chip it shadows.  A register is the set of the pins whose bit is set.   *)
(*                                                                         *)
(* Two things make the shadows worth a model: a write that fails may or    *)
(* may not have reached the chip, and the two levels of the driver update  *)
(* their shadow on different sides of the write.  And init meets a chip in *)
(* any state, since a restart of the board does not reset it.              *)
(*                                                                         *)
(* A definition that stands directly above the one it resembles and is     *)
(* used nowhere is a mistake the code might have made, kept to show which  *)
(* property notices it.                                                    *)
(***************************************************************************)
EXTENDS Naturals, Sequences

CONSTANTS
  Pins,    \* the wired pins of each port, out of 0..7
  Configs, \* what init is called with: [dir, pullup], each for both ports
  Masks    \* what the port-level calls are called with, for each port

Ports     == {"A", "B"}
Shadowed  == {"IODIR", "OLAT"}
Regs      == (Shadowed \union {"GPPU", "IPOL"}) \X Ports
Elsewhere == <<"none", "A">>   \* a register of the chip the driver has no use for
Iocon     == <<"IOCON", "A">>
IoconAt5  == <<"IOCON_BANK1", "A">>
AnyPin    == Pins["A"] \union Pins["B"]

ASSUME McpAssumption ==
  /\ Configs \subseteq [dir : [Ports -> SUBSET AnyPin], pullup : [Ports -> SUBSET AnyPin]]
  /\ \A p \in Ports : Masks[p] \subseteq SUBSET Pins[p]

VARIABLES
  bank,  \* the chip: IOCON.BANK, which decides what an address means
  hw,    \* the chip: its registers
  step,  \* the next write of init, 0 when no init runs
  cfg,   \* what that init was called with
  is_initialized,
  shadow, \* dir_a, dir_b, olat_a, olat_b
  doubt,  \* history: the shadowed registers whose last call failed
  answer  \* what the read that has just ended tells: the pins it is about, those high

vars == <<bank, hw, step, cfg, is_initialized, shadow, doubt, answer>>

ShadowRegs == Shadowed \X Ports
Zeroed == [r \in ShadowRegs |-> {}]
Silence == [port |-> "A", about |-> {}, high |-> {}]

\* A context that is all zero, and a chip that kept what an earlier run left in it: of
\* that, either bank and each register all ones or all zeroes.
Init ==
  /\ bank \in {0, 1}
  /\ \E on \in SUBSET Regs : hw = [r \in Regs |-> IF r \in on THEN Pins[r[2]] ELSE {}]
  /\ step = 0 /\ cfg \in Configs
  /\ is_initialized = FALSE
  /\ shadow = Zeroed
  /\ doubt = {}
  /\ answer = Silence

-----------------------------------------------------------------------------
(***************************************************************************)
(* Where a write lands.  The addresses of mcp23017.h are those of BANK 0;  *)
(* under BANK 1 the same numbers are other registers (0x05 is IOCON, 0x0A  *)
(* is OLATA, 0x15 is IOCON again, 0x01 is IPOLA).                          *)
(***************************************************************************)
UnderBank1(r) ==
  CASE r = Iocon            -> <<"OLAT", "A">>
    [] r = <<"IODIR", "A">> -> r
    [] r = <<"IODIR", "B">> -> <<"IPOL", "A">>
    [] r = <<"OLAT", "B">>  -> Iocon
    [] OTHER                -> Elsewhere

Lands(r) ==
  IF r = IoconAt5 THEN IF bank = 1 THEN Iocon ELSE Elsewhere
  ELSE IF bank = 1 THEN UnderBank1(r) ELSE r

\* The values the driver writes to IOCON, and those that land on it, are zero.
Reaches(r, v) ==
  LET at == Lands(r)
  IN  /\ bank' = IF at = Iocon THEN 0 ELSE bank
      /\ hw' = IF at \in Regs THEN [hw EXCEPT ![at] = v] ELSE hw

\* _mcp23017_write_reg: a failed transaction may have reached the chip.
Write(r, v, ok) ==
  \/ Reaches(r, v)
  \/ ~ok /\ UNCHANGED <<bank, hw>>

\* No read: the call answers with its result alone.
NoAnswer == answer' = Silence

\* The call has addressed register r.
Note(r, ok) == doubt' = IF ok THEN doubt \ {r} ELSE doubt \union {r}

-----------------------------------------------------------------------------
(***************************************************************************)
(* mcp23017_init: eight writes, and the first that fails ends it.          *)
(***************************************************************************)
TrustBank(c) ==
  << <<Iocon, {}>>, <<Iocon, {}>>,
     <<<<"IODIR", "A">>, c.dir["A"]>>,   <<<<"IODIR", "B">>, c.dir["B"]>>,
     <<<<"GPPU", "A">>, c.pullup["A"]>>, <<<<"GPPU", "B">>, c.pullup["B"]>>,
     <<<<"OLAT", "A">>, {}>>,            <<<<"OLAT", "B">>, {}>> >>
InitWrites(c) ==
  << <<IoconAt5, {}>>, <<Iocon, {}>>,
     <<<<"IODIR", "A">>, c.dir["A"]>>,   <<<<"IODIR", "B">>, c.dir["B"]>>,
     <<<<"GPPU", "A">>, c.pullup["A"]>>, <<<<"GPPU", "B">>, c.pullup["B"]>>,
     <<<<"OLAT", "A">>, {}>>,            <<<<"OLAT", "B">>, {}>> >>

\* Up to the registration of the device on the bus, which may fail.
StartInit ==
  /\ step = 0
  /\ cfg' \in Configs
  /\ is_initialized' = FALSE
  /\ step' \in {0, 1}
  /\ NoAnswer
  /\ UNCHANGED <<bank, hw, shadow, doubt>>

ConfigShadow(c) == [r \in ShadowRegs |-> IF r[1] = "IODIR" THEN c.dir[r[2]] ELSE {}]

NinthWrite(n) == n = 9
LastWrite(n) == n = 8

InitWrite(ok) ==
  /\ step > 0
  /\ Write(InitWrites(cfg)[step][1], InitWrites(cfg)[step][2], ok)
  /\ IF ok /\ LastWrite(step)
     THEN is_initialized' = TRUE /\ shadow' = ConfigShadow(cfg) /\ doubt' = {}
     ELSE UNCHANGED <<is_initialized, shadow, doubt>>
  /\ step' = IF ok /\ ~LastWrite(step) THEN step + 1 ELSE 0
  /\ NoAnswer
  /\ UNCHANGED cfg

Deinit ==
  /\ step = 0
  /\ is_initialized' = FALSE /\ shadow' = Zeroed /\ NoAnswer
  /\ UNCHANGED <<bank, hw, step, cfg, doubt>>

-----------------------------------------------------------------------------
_mcp23017_is_ready == step = 0 /\ is_initialized

(***************************************************************************)
(* Port level: the shadow follows a confirmed write.                       *)
(***************************************************************************)
ForgetsShadow(r, v, ok) == UNCHANGED shadow
Confirm(r, v, ok) == shadow' = IF ok THEN [shadow EXCEPT ![r] = v] ELSE shadow

PortWrite(r, v, ok) ==   \* mcp23017_set_port_direction, mcp23017_write_port
  /\ _mcp23017_is_ready
  /\ Write(r, v, ok) /\ Confirm(r, v, ok) /\ Note(r, ok) /\ NoAnswer
  /\ UNCHANGED <<step, cfg, is_initialized>>

Unshadowed(r, v, ok) ==  \* mcp23017_set_port_pullup, mcp23017_set_port_polarity
  /\ _mcp23017_is_ready
  /\ Write(r, v, ok) /\ NoAnswer
  /\ UNCHANGED <<step, cfg, is_initialized, shadow, doubt>>

(***************************************************************************)
(* Pin level: the shadow is changed first, and what it is then is written. *)
(***************************************************************************)
PinWrite(r, v, ok) ==
  /\ _mcp23017_is_ready
  /\ shadow' = [shadow EXCEPT ![r] = v]
  /\ Write(r, v, ok) /\ Note(r, ok) /\ NoAnswer
  /\ UNCHANGED <<step, cfg, is_initialized>>

SetPin(r, n, value, ok) ==   \* mcp23017_set_pin_direction, mcp23017_write_pin
  PinWrite(r, IF value THEN shadow[r] \union {n} ELSE shadow[r] \ {n}, ok)

TogglePin(p, n, ok) ==
  LET s == shadow[<<"OLAT", p>>]
  IN  PinWrite(<<"OLAT", p>>, IF n \in s THEN s \ {n} ELSE s \union {n}, ok)

-----------------------------------------------------------------------------
(***************************************************************************)
(* The reads fetch GPIO, the live level of the pins, never a shadow.  An   *)
(* output pin has the level of its latch and an input any; the chip        *)
(* inverts what it tells where IPOL says so, and under BANK 1 the address  *)
(* is another register's.                                                  *)
(***************************************************************************)
Gpio(p, pins, high) ==
  bank = 0 =>
    \A n \in pins \ hw[<<"IODIR", p>>] :
      n \in high <=> (n \in hw[<<"OLAT", p>>]) # (n \in hw[<<"IPOL", p>>])

\* A read that fails answers nothing.
_mcp23017_read_reg(p, pins) ==
  \/ NoAnswer
  \/ \E high \in SUBSET pins :
       Gpio(p, pins, high) /\ answer' = [port |-> p, about |-> pins, high |-> high]

ReadPort(p) ==
  /\ _mcp23017_is_ready
  /\ _mcp23017_read_reg(p, Pins[p])
  /\ UNCHANGED <<bank, hw, step, cfg, is_initialized, shadow, doubt>>

ReadPin(p, n) ==
  /\ _mcp23017_is_ready
  /\ _mcp23017_read_reg(p, {n})
  /\ UNCHANGED <<bank, hw, step, cfg, is_initialized, shadow, doubt>>

-----------------------------------------------------------------------------
Next ==
  \/ StartInit \/ Deinit
  \/ \E ok \in BOOLEAN :
       \/ InitWrite(ok)
       \/ \E r \in ShadowRegs :
            \/ \E v \in Masks[r[2]] : PortWrite(r, v, ok)
            \/ \E n \in Pins[r[2]], value \in BOOLEAN : SetPin(r, n, value, ok)
       \/ \E r \in Regs \ ShadowRegs : \E v \in Masks[r[2]] : Unshadowed(r, v, ok)
       \/ \E p \in Ports : \E n \in Pins[p] : TogglePin(p, n, ok)
  \/ \E p \in Ports : ReadPort(p) \/ \E n \in Pins[p] : ReadPin(p, n)

Spec == Init /\ [][Next]_vars

-----------------------------------------------------------------------------
(***************************************************************************)
(* Type correctness; the registers hold pins of the chip.                  *)
(***************************************************************************)
TypeOK ==
  /\ bank \in {0, 1}
  /\ hw \in [Regs -> SUBSET AnyPin]
  /\ step \in 0..8
  /\ cfg \in Configs
  /\ is_initialized \in BOOLEAN
  /\ shadow \in [ShadowRegs -> SUBSET AnyPin]
  /\ doubt \subseteq ShadowRegs
  /\ answer \in [port : Ports, about : SUBSET AnyPin, high : SUBSET AnyPin]

(***************************************************************************)
(* A driver that is ready talks to a chip in BANK 0 ("locked to            *)
(* IOCON.BANK = 0", mcp23017.h:9-10), and only a failed call can part a    *)
(* shadow from its register: the next call to that register that succeeds  *)
(* brings them together again, at either level.  So what a read tells of   *)
(* an output pin is what the calls before it have set, inverted where the  *)
(* polarity register, which no init writes, says so.                       *)
(***************************************************************************)
ReadsBack ==
  \A n \in answer.about \ shadow[<<"IODIR", answer.port>>] :
    {<<"IODIR", answer.port>>, <<"OLAT", answer.port>>} \intersect doubt = {} =>
      (n \in answer.high <=>
         (n \in shadow[<<"OLAT", answer.port>>]) # (n \in hw[<<"IPOL", answer.port>>]))

InSync ==
  is_initialized =>
    /\ bank = 0
    /\ \A r \in ShadowRegs \ doubt : shadow[r] = hw[r]
    /\ ReadsBack

(***************************************************************************)
(* Whatever the chip held and however many inits failed before, an init    *)
(* that succeeds has put the whole configuration into the chip: the ready  *)
(* flag is set only after every write (mcp23017.c:142).                    *)
(***************************************************************************)
ReadyMeansConfigured ==
  [][~is_initialized /\ is_initialized' =>
       \A p \in Ports : /\ hw'[<<"IODIR", p>>] = cfg.dir[p]
                        /\ hw'[<<"GPPU", p>>] = cfg.pullup[p]
                        /\ hw'[<<"OLAT", p>>] = {}]_vars
=============================================================================
