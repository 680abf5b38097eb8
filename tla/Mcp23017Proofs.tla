--------------------------- MODULE Mcp23017Proofs ---------------------------
(***************************************************************************)
(* Proofs about Mcp23017, for every wiring of the pins, every set of       *)
(* configurations and every set of masks.                                  *)
(***************************************************************************)
EXTENDS Mcp23017, TLAPS

(***************************************************************************)
(* Under BANK 0 a write reaches its own register and no other.             *)
(***************************************************************************)
LEMMA WriteInBank0 ==
  ASSUME bank = 0, hw \in [Regs -> SUBSET AnyPin],
         NEW r \in Regs, NEW v \in SUBSET AnyPin, NEW ok \in BOOLEAN, Write(r, v, ok)
  PROVE  /\ bank' = 0 /\ hw' \in [Regs -> SUBSET AnyPin]
         /\ \A q \in Regs \ {r} : hw'[q] = hw[q]
         /\ ok => hw'[r] = v
<1>1. r # IoconAt5 /\ r # Iocon
  BY DEF Regs, Shadowed, Ports, IoconAt5, Iocon
<1>2. Lands(r) = r
  BY <1>1 DEF Lands
<1>3. \/ bank' = bank /\ hw' = [hw EXCEPT ![r] = v]
      \/ ~ok /\ bank' = bank /\ hw' = hw
  BY <1>1, <1>2 DEF Write, Reaches
<1>4. QED
  BY <1>3

(***************************************************************************)
(* Under either bank the first write of init, when it arrives, leaves      *)
(* BANK 0, and no register the driver uses is changed by it.               *)
(***************************************************************************)
LEMMA WriteIocon ==
  ASSUME bank \in {0, 1}, NEW ok \in BOOLEAN, Write(IoconAt5, {}, ok)
  PROVE  /\ bank' \in {0, 1} /\ hw' = hw
         /\ ok => bank' = 0
<1>1. Iocon \notin Regs /\ Elsewhere \notin Regs /\ Iocon # Elsewhere
  BY DEF Regs, Shadowed, Ports, Elsewhere, Iocon
<1>2. Lands(IoconAt5) = IF bank = 1 THEN Iocon ELSE Elsewhere
  BY DEF Lands
<1>3. QED
  BY <1>1, <1>2 DEF Write, Reaches

(***************************************************************************)
(* What the writes of a running init have done so far.                     *)
(***************************************************************************)
Progress ==
  /\ step > 0 => ~is_initialized
  /\ step > 1 => bank = 0
  /\ step > 3 => hw[<<"IODIR", "A">>] = cfg.dir["A"]
  /\ step > 4 => hw[<<"IODIR", "B">>] = cfg.dir["B"]
  /\ step > 5 => hw[<<"GPPU", "A">>] = cfg.pullup["A"]
  /\ step > 6 => hw[<<"GPPU", "B">>] = cfg.pullup["B"]
  /\ step > 7 => hw[<<"OLAT", "A">>] = {}

IInv == TypeOK /\ InSync /\ Progress

(***************************************************************************)
(* A call that answers nothing owes nothing.                               *)
(***************************************************************************)
LEMMA SilenceIsTyped ==
  ASSUME NoAnswer
  PROVE  /\ ReadsBack'
         /\ answer' \in [port : Ports, about : SUBSET AnyPin, high : SUBSET AnyPin]
<1>1. answer' = [port |-> "A", about |-> {}, high |-> {}]
  BY DEF NoAnswer, Silence
<1>2. answer'.about = {}
  BY <1>1
<1>3. ReadsBack'
  BY <1>2 DEF ReadsBack
<1>4. QED
  BY <1>1, <1>3 DEF Ports

(***************************************************************************)
(* The initial states satisfy the invariant.                               *)
(***************************************************************************)
LEMMA InvInit == Init => IInv
<1>1. SUFFICES ASSUME Init PROVE IInv
  OBVIOUS
<1>2. \A p \in Ports : Pins[p] \subseteq AnyPin
  BY DEF Ports, AnyPin
<1>3. hw \in [Regs -> SUBSET AnyPin]
  BY <1>1, <1>2 DEF Init, Regs
<1>4. shadow \in [ShadowRegs -> SUBSET AnyPin] /\ doubt \subseteq ShadowRegs
  BY <1>1 DEF Init, Zeroed
<1>10. answer = Silence
  BY <1>1 DEF Init
<1>11. answer \in [port : Ports, about : SUBSET AnyPin, high : SUBSET AnyPin]
  BY <1>10 DEF Silence, Ports
<1>5. bank \in {0, 1} /\ step = 0 /\ cfg \in Configs /\ ~is_initialized
  BY <1>1 DEF Init
<1>6. step \in 0 .. 8
  BY <1>5
<1>7. is_initialized \in BOOLEAN
  BY <1>1 DEF Init
<1>8. TypeOK
  BY <1>3, <1>4, <1>5, <1>6, <1>7, <1>11 DEF TypeOK
<1>9. QED
  BY <1>5, <1>8 DEF IInv, InSync, Progress

(***************************************************************************)
(* A call of a ready driver keeps the invariant: it addresses one register *)
(* and leaves it, its shadow and the doubt about it consistent.            *)
(***************************************************************************)
LEMMA CallKeepsInv ==
  ASSUME IInv, _mcp23017_is_ready,
         NEW r \in Regs, NEW v \in SUBSET AnyPin, NEW ok \in BOOLEAN,
         Write(r, v, ok), UNCHANGED <<step, cfg, is_initialized>>, NoAnswer,
         \/ r \notin ShadowRegs /\ UNCHANGED <<shadow, doubt>>
         \/ /\ r \in ShadowRegs /\ Note(r, ok)
            /\ shadow' = [shadow EXCEPT ![r] = v] \/ (~ok /\ shadow' = shadow)
  PROVE  IInv'
<1>1. bank = 0 /\ hw \in [Regs -> SUBSET AnyPin]
  BY DEF IInv, InSync, TypeOK, _mcp23017_is_ready
<1>2. /\ bank' = 0 /\ hw' \in [Regs -> SUBSET AnyPin]
      /\ \A q \in Regs \ {r} : hw'[q] = hw[q]
      /\ ok => hw'[r] = v
  BY <1>1, WriteInBank0
<1>3. ShadowRegs \subseteq Regs
  BY DEF ShadowRegs, Regs
<1>4. TypeOK'
  BY <1>2, SilenceIsTyped DEF IInv, TypeOK, Note
<1>5. InSync'
  <2>1. SUFFICES ASSUME NEW q \in ShadowRegs \ doubt' PROVE shadow'[q] = hw'[q]
    BY <1>2, SilenceIsTyped DEF InSync
  <2>2. \A s \in ShadowRegs \ doubt : shadow[s] = hw[s]
    BY DEF IInv, InSync, _mcp23017_is_ready
  <2>3. shadow \in [ShadowRegs -> SUBSET AnyPin]
    BY DEF IInv, TypeOK
  <2>4. CASE q = r
    BY <1>2, <2>1, <2>3, <2>4 DEF Note
  <2>5. CASE q # r
    BY <1>2, <1>3, <2>1, <2>2, <2>3, <2>5 DEF Note
  <2>6. QED
    BY <2>4, <2>5
<1>6. Progress'
  BY DEF _mcp23017_is_ready, IInv, TypeOK, Progress
<1>7. QED
  BY <1>4, <1>5, <1>6 DEF IInv

(***************************************************************************)
(* The registers init writes, in the order it writes them.                 *)
(***************************************************************************)
LEMMA InitTargets ==
  ASSUME NEW c \in Configs, NEW i \in 1 .. 8
  PROVE  LET r == InitWrites(c)[i][1]  v == InitWrites(c)[i][2]
         IN  /\ i = 1 => r = IoconAt5 /\ v = {}
             /\ i = 2 => r = Iocon /\ v = {}
             /\ i = 3 => r = <<"IODIR", "A">> /\ v = c.dir["A"]
             /\ i = 4 => r = <<"IODIR", "B">> /\ v = c.dir["B"]
             /\ i = 5 => r = <<"GPPU", "A">> /\ v = c.pullup["A"]
             /\ i = 6 => r = <<"GPPU", "B">> /\ v = c.pullup["B"]
             /\ i = 7 => r = <<"OLAT", "A">> /\ v = {}
             /\ i = 8 => r = <<"OLAT", "B">> /\ v = {}
             /\ i > 2 => r \in Regs /\ v \in SUBSET AnyPin
<1>1. /\ c.dir["A"] \in SUBSET AnyPin /\ c.dir["B"] \in SUBSET AnyPin
      /\ c.pullup["A"] \in SUBSET AnyPin /\ c.pullup["B"] \in SUBSET AnyPin
  BY McpAssumption DEF Ports
<1>2. /\ <<"IODIR", "A">> \in Regs /\ <<"IODIR", "B">> \in Regs
      /\ <<"GPPU", "A">> \in Regs /\ <<"GPPU", "B">> \in Regs
      /\ <<"OLAT", "A">> \in Regs /\ <<"OLAT", "B">> \in Regs
  BY DEF Regs, Shadowed, Ports
<1>3. CASE i = 1
  BY <1>3 DEF InitWrites
<1>4. CASE i = 2
  BY <1>4 DEF InitWrites
<1>5. CASE i = 3
  BY <1>1, <1>2, <1>5 DEF InitWrites
<1>6. CASE i = 4
  BY <1>1, <1>2, <1>6 DEF InitWrites
<1>7. CASE i = 5
  BY <1>1, <1>2, <1>7 DEF InitWrites
<1>8. CASE i = 6
  BY <1>1, <1>2, <1>8 DEF InitWrites
<1>9. CASE i = 7
  BY <1>1, <1>2, <1>9 DEF InitWrites
<1>10. CASE i = 8
  BY <1>1, <1>2, <1>10 DEF InitWrites
<1>11. QED
  BY <1>3, <1>4, <1>5, <1>6, <1>7, <1>8, <1>9, <1>10

(***************************************************************************)
(* A write of init keeps the registers in use well typed, keeps what the   *)
(* earlier writes did, and if it succeeds has done its own part.           *)
(***************************************************************************)
LEMMA InitWriteEffect ==
  ASSUME IInv, step > 0, NEW ok \in BOOLEAN,
         Write(InitWrites(cfg)[step][1], InitWrites(cfg)[step][2], ok)
  PROVE  /\ bank' \in {0, 1} /\ hw' \in [Regs -> SUBSET AnyPin]
         /\ step > 1 => bank' = 0
         /\ ok => bank' = 0
         /\ step < 3 => hw' = hw
         /\ step > 2 => /\ InitWrites(cfg)[step][1] \in Regs
                        /\ \A q \in Regs \ {InitWrites(cfg)[step][1]} : hw'[q] = hw[q]
                        /\ ok => hw'[InitWrites(cfg)[step][1]] = InitWrites(cfg)[step][2]
<1>1. /\ step \in 1 .. 8 /\ cfg \in Configs /\ bank \in {0, 1}
      /\ hw \in [Regs -> SUBSET AnyPin]
      /\ step > 1 => bank = 0
  BY DEF IInv, TypeOK, Progress
<1>2. CASE step = 1
  <2>1. Write(IoconAt5, {}, ok)
    BY <1>1, <1>2, InitTargets
  <2>2. QED
    BY <1>1, <1>2, <2>1, WriteIocon
<1>3. CASE step = 2
  <2>1. InitWrites(cfg)[step][1] = Iocon /\ InitWrites(cfg)[step][2] = {} /\ bank = 0
    BY <1>1, <1>3, InitTargets
  <2>2. Iocon \notin Regs /\ Iocon # IoconAt5
    BY DEF Regs, Shadowed, Ports, Iocon, IoconAt5
  <2>3. bank' = 0 /\ hw' = hw
    BY <2>1, <2>2 DEF Write, Reaches, Lands
  <2>4. QED
    BY <1>1, <1>3, <2>3
<1>4. CASE step > 2
  <2>1. InitWrites(cfg)[step][1] \in Regs /\ InitWrites(cfg)[step][2] \in SUBSET AnyPin
    BY <1>1, <1>4, InitTargets
  <2> DEFINE r == InitWrites(cfg)[step][1]
             v == InitWrites(cfg)[step][2]
  <2>2. r \in Regs /\ v \in SUBSET AnyPin /\ Write(r, v, ok)
    BY <2>1
  <2> HIDE DEF r, v
  <2>3. /\ bank' = 0 /\ hw' \in [Regs -> SUBSET AnyPin]
        /\ \A q \in Regs \ {r} : hw'[q] = hw[q]
        /\ ok => hw'[r] = v
    BY <1>1, <1>4, <2>2, WriteInBank0
  <2>4. QED
    BY <1>1, <1>4, <2>2, <2>3 DEF r, v
<1>5. QED
  BY <1>1, <1>2, <1>3, <1>4

(***************************************************************************)
(* An init that ends well has put the whole configuration into the chip.   *)
(***************************************************************************)
LEMMA InitDone ==
  ASSUME IInv, step = 8, NEW ok \in BOOLEAN, ok,
         Write(InitWrites(cfg)[step][1], InitWrites(cfg)[step][2], ok)
  PROVE  /\ \A p \in Ports : /\ hw'[<<"IODIR", p>>] = cfg.dir[p]
                             /\ hw'[<<"GPPU", p>>] = cfg.pullup[p]
                             /\ hw'[<<"OLAT", p>>] = {}
         /\ bank' = 0
<1>1. step > 0 /\ step > 2
  OBVIOUS
<1>2. /\ bank' = 0
      /\ \A q \in Regs \ {InitWrites(cfg)[step][1]} : hw'[q] = hw[q]
      /\ hw'[InitWrites(cfg)[step][1]] = InitWrites(cfg)[step][2]
  BY <1>1, InitWriteEffect
<1>3. InitWrites(cfg)[step][1] = <<"OLAT", "B">> /\ InitWrites(cfg)[step][2] = {}
  <2>1. cfg \in Configs /\ step \in 1 .. 8
    BY DEF IInv, TypeOK
  <2>2. QED
    BY <2>1, InitTargets
<1>4. /\ hw[<<"IODIR", "A">>] = cfg.dir["A"] /\ hw[<<"IODIR", "B">>] = cfg.dir["B"]
      /\ hw[<<"GPPU", "A">>] = cfg.pullup["A"] /\ hw[<<"GPPU", "B">>] = cfg.pullup["B"]
      /\ hw[<<"OLAT", "A">>] = {}
  BY DEF IInv, Progress
<1>5. QED
  BY <1>2, <1>3, <1>4 DEF Regs, Shadowed, Ports

(***************************************************************************)
(* A write of init preserves the invariant.                                *)
(***************************************************************************)
LEMMA InitKeepsInv ==
  ASSUME IInv, NEW ok \in BOOLEAN, InitWrite(ok)
  PROVE  IInv'
<1> DEFINE r == InitWrites(cfg)[step][1]
           v == InitWrites(cfg)[step][2]
<1>1. /\ step \in 1 .. 8 /\ cfg \in Configs /\ cfg' = cfg /\ ~is_initialized
      /\ is_initialized \in BOOLEAN
      /\ shadow \in [ShadowRegs -> SUBSET AnyPin] /\ doubt \subseteq ShadowRegs
  BY DEF IInv, TypeOK, Progress, InitWrite
<1>2. Write(r, v, ok) /\ step > 0
  BY DEF InitWrite
<1>0. ReadsBack' /\ answer' \in [port : Ports, about : SUBSET AnyPin, high : SUBSET AnyPin]
  BY SilenceIsTyped DEF InitWrite
<1>3. /\ bank' \in {0, 1} /\ hw' \in [Regs -> SUBSET AnyPin]
      /\ step > 1 => bank' = 0
      /\ ok => bank' = 0
      /\ step < 3 => hw' = hw
      /\ step > 2 => /\ r \in Regs
                     /\ \A q \in Regs \ {r} : hw'[q] = hw[q]
                     /\ ok => hw'[r] = v
  BY <1>2, InitWriteEffect
<1>4. CASE ~ok
  <2>1. step' = 0 /\ UNCHANGED <<is_initialized, shadow, doubt>>
    BY <1>4 DEF InitWrite
  <2>2. TypeOK'
    BY <1>0, <1>1, <1>3, <2>1 DEF TypeOK
  <2>3. QED
    BY <1>1, <2>1, <2>2 DEF IInv, InSync, Progress
<1>5. CASE ok /\ step = 8
  <2>1. step' = 0 /\ is_initialized' /\ shadow' = ConfigShadow(cfg) /\ doubt' = {}
    BY <1>5 DEF InitWrite, LastWrite
  <2>2. is_initialized' \in BOOLEAN
    BY <1>5 DEF InitWrite, LastWrite
  <2>3. /\ \A p \in Ports : /\ hw'[<<"IODIR", p>>] = cfg.dir[p]
                            /\ hw'[<<"OLAT", p>>] = {}
        /\ bank' = 0
    BY <1>2, <1>5, InitDone
  <2>4. \A q \in ShadowRegs : ConfigShadow(cfg)[q] = hw'[q]
    BY <2>3 DEF ConfigShadow, ShadowRegs, Shadowed, Ports
  <2>5. ConfigShadow(cfg) \in [ShadowRegs -> SUBSET AnyPin]
    BY <1>1, McpAssumption DEF ConfigShadow, ShadowRegs, Shadowed
  <2>6. TypeOK'
    BY <1>0, <1>1, <1>3, <2>1, <2>2, <2>5 DEF TypeOK
  <2>7. QED
    BY <1>0, <2>1, <2>3, <2>4, <2>6 DEF IInv, InSync, Progress
<1>6. CASE ok /\ step # 8
  <2>1. step' = step + 1 /\ UNCHANGED <<is_initialized, shadow, doubt>>
    BY <1>6 DEF InitWrite, LastWrite
  <2>2. step \in 1 .. 7 /\ step' \in 0 .. 8
    BY <1>1, <1>6, <2>1
  <2>3. TypeOK'
    BY <1>0, <1>1, <1>3, <2>1, <2>2 DEF TypeOK
  <2>4. bank' = 0
    BY <1>3, <1>6
  <2>5. Progress'
    <3>1. /\ step > 3 => hw[<<"IODIR", "A">>] = cfg.dir["A"]
          /\ step > 4 => hw[<<"IODIR", "B">>] = cfg.dir["B"]
          /\ step > 5 => hw[<<"GPPU", "A">>] = cfg.pullup["A"]
          /\ step > 6 => hw[<<"GPPU", "B">>] = cfg.pullup["B"]
      BY DEF IInv, Progress
    <3>2. /\ step = 3 => r = <<"IODIR", "A">> /\ v = cfg.dir["A"]
          /\ step = 4 => r = <<"IODIR", "B">> /\ v = cfg.dir["B"]
          /\ step = 5 => r = <<"GPPU", "A">> /\ v = cfg.pullup["A"]
          /\ step = 6 => r = <<"GPPU", "B">> /\ v = cfg.pullup["B"]
          /\ step = 7 => r = <<"OLAT", "A">> /\ v = {}
      BY <1>1, InitTargets
    <3>3. /\ <<"IODIR", "A">> \in Regs /\ <<"IODIR", "B">> \in Regs
          /\ <<"GPPU", "A">> \in Regs /\ <<"GPPU", "B">> \in Regs
          /\ <<"OLAT", "A">> \in Regs
      BY DEF Regs, Shadowed, Ports
    <3>4. step > 2 => hw'[r] = v /\ \A q \in Regs \ {r} : hw'[q] = hw[q]
      BY <1>3, <1>6
    <3> HIDE DEF r, v
    <3>5. /\ step > 2 => hw'[<<"IODIR", "A">>] = cfg.dir["A"]
          /\ step > 3 => hw'[<<"IODIR", "B">>] = cfg.dir["B"]
          /\ step > 4 => hw'[<<"GPPU", "A">>] = cfg.pullup["A"]
          /\ step > 5 => hw'[<<"GPPU", "B">>] = cfg.pullup["B"]
          /\ step > 6 => hw'[<<"OLAT", "A">>] = {}
      BY <2>2, <3>1, <3>2, <3>3, <3>4
    <3>6. QED
      BY <1>1, <2>1, <2>2, <2>4, <3>5 DEF Progress
  <2>6. QED
    BY <1>0, <1>1, <2>1, <2>3, <2>5 DEF IInv, InSync
<1>7. QED
  BY <1>4, <1>5, <1>6

(***************************************************************************)
(* A read of a ready driver tells of an output pin what was set.           *)
(***************************************************************************)
LEMMA ReadKeepsInv ==
  ASSUME IInv, _mcp23017_is_ready, NEW p \in Ports, NEW pins \in SUBSET Pins[p],
         Pins[p] \subseteq AnyPin, _mcp23017_read_reg(p, pins),
         UNCHANGED <<bank, hw, step, cfg, is_initialized, shadow, doubt>>
  PROVE  IInv'
<1>1. CASE NoAnswer
  BY <1>1, SilenceIsTyped DEF IInv, TypeOK, InSync, Progress
<1>2. CASE \E high \in SUBSET pins :
             Gpio(p, pins, high) /\ answer' = [port |-> p, about |-> pins, high |-> high]
  <2>1. PICK high \in SUBSET pins :
             Gpio(p, pins, high) /\ answer' = [port |-> p, about |-> pins, high |-> high]
    BY <1>2
  <2>2. /\ answer'.port = p /\ answer'.about = pins /\ answer'.high = high
        /\ answer' \in [port : Ports, about : SUBSET AnyPin, high : SUBSET AnyPin]
    BY <2>1
  <2>3. TypeOK'
    BY <2>2 DEF IInv, TypeOK
  <2>4. bank = 0 /\ \A r \in ShadowRegs \ doubt : shadow[r] = hw[r]
    BY DEF IInv, InSync, _mcp23017_is_ready
  <2>5. <<"IODIR", p>> \in ShadowRegs /\ <<"OLAT", p>> \in ShadowRegs
    BY DEF ShadowRegs, Shadowed
  <2>6. ASSUME {<<"IODIR", p>>, <<"OLAT", p>>} \intersect doubt = {},
               NEW n \in pins \ shadow[<<"IODIR", p>>]
        PROVE  n \in high <=> (n \in shadow[<<"OLAT", p>>]) # (n \in hw[<<"IPOL", p>>])
    <3>1. shadow[<<"IODIR", p>>] = hw[<<"IODIR", p>>] /\ shadow[<<"OLAT", p>>] = hw[<<"OLAT", p>>]
      BY <2>4, <2>5, <2>6
    <3>2. QED
      BY <2>1, <2>4, <2>6, <3>1 DEF Gpio
  <2>7. ReadsBack'
    BY <2>2, <2>6 DEF ReadsBack
  <2>8. QED
    BY <2>3, <2>4, <2>7 DEF IInv, InSync, Progress
<1>3. QED
  BY <1>1, <1>2 DEF _mcp23017_read_reg

(***************************************************************************)
(* Every step preserves the invariant.                                     *)
(***************************************************************************)
LEMMA InvNext == IInv /\ [Next]_vars => IInv'
<1> SUFFICES ASSUME IInv, [Next]_vars PROVE IInv'
  OBVIOUS
<1>1. CASE StartInit
  <2>1. step' \in {0, 1} /\ ~is_initialized' /\ cfg' \in Configs
        /\ UNCHANGED <<bank, hw, shadow, doubt>>
    BY <1>1 DEF StartInit
  <2>2. is_initialized' \in BOOLEAN
    BY <1>1 DEF StartInit
  <2>5. ReadsBack' /\ answer' \in [port : Ports, about : SUBSET AnyPin, high : SUBSET AnyPin]
    BY <1>1, SilenceIsTyped DEF StartInit
  <2>3. TypeOK'
    BY <2>1, <2>2, <2>5 DEF IInv, TypeOK
  <2>4. QED
    BY <2>1, <2>3 DEF IInv, InSync, Progress
<1>2. CASE Deinit
  <2>1. step = 0 /\ ~is_initialized' /\ shadow' = Zeroed
        /\ UNCHANGED <<bank, hw, step, cfg, doubt>>
    BY <1>2 DEF Deinit
  <2>2. is_initialized' \in BOOLEAN
    BY <1>2 DEF Deinit
  <2>3. Zeroed \in [ShadowRegs -> SUBSET AnyPin]
    BY DEF Zeroed
  <2>6. ReadsBack' /\ answer' \in [port : Ports, about : SUBSET AnyPin, high : SUBSET AnyPin]
    BY <1>2, SilenceIsTyped DEF Deinit
  <2>4. TypeOK'
    BY <2>1, <2>2, <2>3, <2>6 DEF IInv, TypeOK
  <2>5. QED
    BY <2>1, <2>4 DEF IInv, InSync, Progress
<1>3. ASSUME NEW ok \in BOOLEAN, InitWrite(ok) PROVE IInv'
  BY <1>3, InitKeepsInv
<1>4. ShadowRegs \subseteq Regs
  BY DEF ShadowRegs, Regs
<1>5. \A q \in Regs : q[2] \in Ports
  BY DEF Regs
<1>6. \A p \in Ports : Pins[p] \subseteq AnyPin /\ Masks[p] \subseteq SUBSET AnyPin
  BY McpAssumption DEF Ports, AnyPin
<1>7. shadow \in [ShadowRegs -> SUBSET AnyPin]
  BY DEF IInv, TypeOK
<1>8. ASSUME NEW ok \in BOOLEAN, NEW q \in ShadowRegs, NEW v \in Masks[q[2]],
             PortWrite(q, v, ok)
      PROVE  IInv'
  <2>1. v \in SUBSET AnyPin /\ q \in Regs
    BY <1>4, <1>5, <1>6, <1>8
  <2>2. shadow' = [shadow EXCEPT ![q] = v] \/ (~ok /\ shadow' = shadow)
    BY <1>8 DEF PortWrite, Confirm
  <2>3. /\ _mcp23017_is_ready /\ Write(q, v, ok) /\ Note(q, ok)
        /\ NoAnswer /\ UNCHANGED <<step, cfg, is_initialized>>
    BY <1>8 DEF PortWrite
  <2>4. QED
    BY <1>8, <2>1, <2>2, <2>3, CallKeepsInv
<1>9. ASSUME NEW ok \in BOOLEAN, NEW q \in ShadowRegs, NEW v \in SUBSET AnyPin,
             PinWrite(q, v, ok)
      PROVE  IInv'
  BY <1>4, <1>9, CallKeepsInv DEF PinWrite
<1>10. ASSUME NEW ok \in BOOLEAN, NEW q \in ShadowRegs, NEW n \in Pins[q[2]],
              NEW value \in BOOLEAN, SetPin(q, n, value, ok)
       PROVE  IInv'
  <2>1. (IF value THEN shadow[q] \union {n} ELSE shadow[q] \ {n}) \in SUBSET AnyPin
    BY <1>4, <1>5, <1>6, <1>7
  <2>2. QED
    BY <1>9, <1>10, <2>1 DEF SetPin
<1>11. ASSUME NEW ok \in BOOLEAN, NEW p \in Ports, NEW n \in Pins[p], TogglePin(p, n, ok)
       PROVE  IInv'
  <2>1. <<"OLAT", p>> \in ShadowRegs
    BY DEF ShadowRegs, Shadowed
  <2> DEFINE s == shadow[<<"OLAT", p>>]
  <2>2. (IF n \in s THEN s \ {n} ELSE s \union {n}) \in SUBSET AnyPin
    BY <1>6, <1>7, <2>1
  <2>3. QED
    BY <1>9, <1>11, <2>1, <2>2 DEF TogglePin
<1>12. ASSUME NEW ok \in BOOLEAN, NEW q \in Regs \ ShadowRegs, NEW v \in Masks[q[2]],
              Unshadowed(q, v, ok)
       PROVE  IInv'
  <2>1. v \in SUBSET AnyPin
    BY <1>5, <1>6, <1>12
  <2>2. QED
    BY <1>12, <2>1, CallKeepsInv DEF Unshadowed
<1>13. ASSUME NEW p \in Ports, NEW pins \in SUBSET Pins[p],
              _mcp23017_is_ready, _mcp23017_read_reg(p, pins),
              UNCHANGED <<bank, hw, step, cfg, is_initialized, shadow, doubt>>
       PROVE  IInv'
  BY <1>6, <1>13, ReadKeepsInv
<1>14. CASE UNCHANGED vars
  BY <1>14 DEF vars, IInv, TypeOK, InSync, ReadsBack, Progress
<1>15. ASSUME NEW p \in Ports, ReadPort(p) PROVE IInv'
  BY <1>13, <1>15 DEF ReadPort
<1>16. ASSUME NEW p \in Ports, NEW n \in Pins[p], ReadPin(p, n) PROVE IInv'
  BY <1>13, <1>16 DEF ReadPin
<1>17. QED
  BY <1>1, <1>2, <1>3, <1>8, <1>10, <1>11, <1>12, <1>14, <1>15, <1>16 DEF Next

(***************************************************************************)
(* The invariant holds in every reachable state.                           *)
(***************************************************************************)
THEOREM Invariance == Spec => []IInv
  BY InvInit, InvNext, PTL DEF Spec

(***************************************************************************)
(* The expander's variables keep their types, whatever the masks.          *)
(***************************************************************************)
THEOREM TypeCorrect == Spec => []TypeOK
<1>1. IInv => TypeOK
  BY DEF IInv
<1>2. QED
  BY <1>1, Invariance, PTL

(***************************************************************************)
(* A ready driver's chip is in BANK 0, and only a failed call can part a   *)
(* shadow from its register.                                               *)
(***************************************************************************)
THEOREM ShadowsInSync == Spec => []InSync
<1>1. IInv => InSync
  BY DEF IInv
<1>2. QED
  BY <1>1, Invariance, PTL

(***************************************************************************)
(* The ready flag goes up only over a chip that holds the whole            *)
(* configuration, whatever it held before.                                 *)
(***************************************************************************)
THEOREM ReadyIsConfigured == Spec => ReadyMeansConfigured
<1>1. IInv /\ [Next]_vars =>
        [~is_initialized /\ is_initialized' =>
           \A p \in Ports : /\ hw'[<<"IODIR", p>>] = cfg.dir[p]
                            /\ hw'[<<"GPPU", p>>] = cfg.pullup[p]
                            /\ hw'[<<"OLAT", p>>] = {}]_vars
  <2>1. SUFFICES ASSUME IInv, Next, ~is_initialized, is_initialized'
                 PROVE  \A p \in Ports : /\ hw'[<<"IODIR", p>>] = cfg.dir[p]
                                         /\ hw'[<<"GPPU", p>>] = cfg.pullup[p]
                                         /\ hw'[<<"OLAT", p>>] = {}
    OBVIOUS
  <2>2. PICK ok \in BOOLEAN : InitWrite(ok)
    BY <2>1 DEF Next, StartInit, Deinit, PortWrite, SetPin, PinWrite, TogglePin, Unshadowed,
                ReadPort, ReadPin
  <2>3. ok /\ step = 8
    BY <2>1, <2>2 DEF InitWrite, LastWrite
  <2>4. Write(InitWrites(cfg)[step][1], InitWrites(cfg)[step][2], ok)
    BY <2>2 DEF InitWrite
  <2>5. QED
    BY <2>1, <2>3, <2>4, InitDone
<1>2. QED
  BY <1>1, Invariance, PTL DEF Spec, ReadyMeansConfigured

-----------------------------------------------------------------------------
(***************************************************************************)
(* What a call about pin n of register r may change of the chip.           *)
(***************************************************************************)
OnlyPin(r, n) ==
  /\ \A q \in Regs \ {r} : hw'[q] = hw[q]
  /\ hw'[r] \ {n} = hw[r] \ {n}

(***************************************************************************)
(* Read, modify and write without a read (mcp23017.h:13-17): a call about  *)
(* one pin of a register that is not in doubt changes no other pin and no  *)
(* other register of the chip, whether or not it succeeds, although the    *)
(* whole byte is written; and one that succeeds sets the pin to what was   *)
(* asked for, a toggle to the opposite of what the chip drove.             *)
(***************************************************************************)
PinsApart ==
  [][\A r \in ShadowRegs \ doubt, ok \in BOOLEAN : \A n \in Pins[r[2]] :
       /\ \A value \in BOOLEAN :
            SetPin(r, n, value, ok) => OnlyPin(r, n) /\ (ok => (n \in hw'[r] <=> value))
       /\ r[1] = "OLAT" /\ TogglePin(r[2], n, ok) =>
            OnlyPin(r, n) /\ (ok => (n \in hw'[r] <=> n \notin hw[r]))]_vars

\* What is written is the shadow with the pin changed, and the shadow is the register.
LEMMA PinWriteIsLocal ==
  ASSUME IInv, NEW r \in ShadowRegs \ doubt, NEW ok \in BOOLEAN, NEW n \in AnyPin,
         NEW v \in SUBSET AnyPin, v \ {n} = shadow[r] \ {n}, PinWrite(r, v, ok)
  PROVE  OnlyPin(r, n) /\ shadow[r] = hw[r] /\ (ok => hw'[r] = v)
<1>1. bank = 0 /\ shadow[r] = hw[r] /\ hw \in [Regs -> SUBSET AnyPin] /\ r \in Regs
  BY DEF IInv, InSync, TypeOK, PinWrite, _mcp23017_is_ready, ShadowRegs, Regs
<1>2. Write(r, v, ok)
  BY DEF PinWrite
<1>3. /\ \A q \in Regs \ {r} : hw'[q] = hw[q]
      /\ ok => hw'[r] = v
  BY <1>1, <1>2, WriteInBank0
<1>4. hw'[r] = v \/ hw'[r] = hw[r]
  <2>1. r # IoconAt5 /\ r # Iocon
    BY <1>1 DEF Regs, Shadowed, Ports, IoconAt5, Iocon
  <2>2. Lands(r) = r
    BY <1>1, <2>1 DEF Lands
  <2>3. hw' = [hw EXCEPT ![r] = v] \/ hw' = hw
    BY <1>1, <1>2, <2>2 DEF Write, Reaches
  <2>4. QED
    BY <1>1, <2>3
<1>5. QED
  BY <1>1, <1>3, <1>4 DEF OnlyPin

(***************************************************************************)
(* Two pins of one port never disturb each other, for every wiring         *)
(* (mcp23017.c:250-260, 272-282, 315-321).                                 *)
(***************************************************************************)
THEOREM PinsStayApart == Spec => PinsApart
<1>1. IInv /\ [Next]_vars =>
        [\A r \in ShadowRegs \ doubt, ok \in BOOLEAN : \A n \in Pins[r[2]] :
           /\ \A value \in BOOLEAN :
                SetPin(r, n, value, ok) => OnlyPin(r, n) /\ (ok => (n \in hw'[r] <=> value))
           /\ r[1] = "OLAT" /\ TogglePin(r[2], n, ok) =>
                OnlyPin(r, n) /\ (ok => (n \in hw'[r] <=> n \notin hw[r]))]_vars
  <2>1. SUFFICES ASSUME IInv, NEW r \in ShadowRegs \ doubt, NEW ok \in BOOLEAN,
                        NEW n \in Pins[r[2]]
                 PROVE  /\ \A value \in BOOLEAN :
                             SetPin(r, n, value, ok) =>
                               OnlyPin(r, n) /\ (ok => (n \in hw'[r] <=> value))
                        /\ r[1] = "OLAT" /\ TogglePin(r[2], n, ok) =>
                             OnlyPin(r, n) /\ (ok => (n \in hw'[r] <=> n \notin hw[r]))
    BY Zenon
  <2>2. n \in AnyPin /\ shadow[r] \in SUBSET AnyPin
    BY <2>1 DEF IInv, TypeOK, AnyPin, ShadowRegs, Ports
  <2>3. ASSUME NEW value \in BOOLEAN, SetPin(r, n, value, ok)
        PROVE  OnlyPin(r, n) /\ (ok => (n \in hw'[r] <=> value))
    <3> DEFINE v == IF value THEN shadow[r] \union {n} ELSE shadow[r] \ {n}
    <3>1. v \in SUBSET AnyPin /\ v \ {n} = shadow[r] \ {n} /\ (n \in v <=> value)
      BY <2>2
    <3>2. PinWrite(r, v, ok)
      BY <2>3 DEF SetPin
    <3> HIDE DEF v
    <3>3. OnlyPin(r, n) /\ (ok => hw'[r] = v)
      BY <2>1, <2>2, <3>1, <3>2, PinWriteIsLocal
    <3>4. QED
      BY <3>1, <3>3, Zenon
  <2>4. ASSUME r[1] = "OLAT", TogglePin(r[2], n, ok)
        PROVE  OnlyPin(r, n) /\ (ok => (n \in hw'[r] <=> n \notin hw[r]))
    <3> DEFINE s == shadow[r]
               v == IF n \in s THEN s \ {n} ELSE s \union {n}
    <3>1. v \in SUBSET AnyPin /\ v \ {n} = s \ {n} /\ (n \in v <=> n \notin s)
      BY <2>2
    <3>2. r = <<"OLAT", r[2]>>
      BY <2>4 DEF ShadowRegs, Shadowed, Ports
    <3>3. PinWrite(r, v, ok)
      BY <2>4, <3>2 DEF TogglePin
    <3> HIDE DEF v
    <3>4. OnlyPin(r, n) /\ s = hw[r] /\ (ok => hw'[r] = v)
      BY <2>1, <2>2, <3>1, <3>3, PinWriteIsLocal
    <3>5. QED
      BY <3>1, <3>4, Zenon
  <2>5. QED
    BY <2>3, <2>4
<1>2. QED
  BY <1>1, Invariance, PTL DEF Spec, PinsApart
=============================================================================
