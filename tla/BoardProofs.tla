---------------------------- MODULE BoardProofs ----------------------------
(***************************************************************************)
(* Proofs about Board, for every range of voltages and every depth of the  *)
(* queues: the types, the command that wins, and the safety part of the    *)
(* refinement of CommandLine.                                              *)
(***************************************************************************)
EXTENDS Board, TLAPS, SequenceTheorems

-----------------------------------------------------------------------------
(***************************************************************************)
(* Sequences.                                                              *)
(***************************************************************************)

\* The last element of a queue after a command was appended.
LEMMA LastOfAppend ==
  ASSUME NEW S, NEW q \in Seq(S), NEW c \in S
  PROVE  /\ Append(q, c) # <<>>
         /\ Append(q, c)[Len(Append(q, c))] = c
BY AppendProperties

\* Taking the first of several leaves the last one; taking the only one empties.
LEMMA LastOfTail ==
  ASSUME NEW S, NEW q \in Seq(S), q # <<>>
  PROVE  /\ Tail(q) # <<>> => Tail(q)[Len(Tail(q))] = q[Len(q)]
         /\ Tail(q) = <<>> => Head(q) = q[Len(q)]
<1>1. /\ Tail(q) \in Seq(S) /\ Len(Tail(q)) = Len(q) - 1
      /\ \A i \in 1 .. Len(Tail(q)) : Tail(q)[i] = q[i + 1]
  BY HeadTailProperties
<1>2. Len(q) \in Nat \ {0}
  BY EmptySeq
<1>3. ASSUME Tail(q) # <<>>
      PROVE  Tail(q)[Len(Tail(q))] = q[Len(q)]
  <2>1. Len(Tail(q)) \in Nat \ {0}
    BY <1>1, <1>3, EmptySeq
  <2>2. QED
    BY <1>1, <1>2, <2>1
<1>4. ASSUME Tail(q) = <<>>
      PROVE  Head(q) = q[Len(q)]
  <2>1. Len(Tail(q)) = 0
    BY <1>4, EmptySeq
  <2>2. Len(Tail(q)) = Len(q) - 1 /\ Len(q) \in Int
    BY <1>1, <1>2
  <2>3. Len(q) = 1
    BY <2>1, <2>2
  <2>4. QED
    BY <2>3
<1>5. QED
  BY <1>3, <1>4

\* A queue is its head and, behind it, its tail.
LEMMA HeadThenTail ==
  ASSUME NEW S, NEW q \in Seq(S), q # <<>>
  PROVE  <<Head(q)>> \o Tail(q) = q
<1>1. Len(q) \in Nat \ {0}
  BY EmptySeq
<1>2. 1 \in 1 .. Len(q) /\ Len(q) \in 1 .. Len(q) /\ Len(q) \in Int
  BY <1>1
<1>3. SubSeq(q, 1, Len(q)) = <<q[1]>> \o SubSeq(q, 1 + 1, Len(q))
  BY <1>2, SubSeqRecursiveFirst
<1>4. Tail(q) = SubSeq(q, 2, Len(q))
  BY TailIsSubSeq
<1>5. SubSeq(q, 1, Len(q)) = q
  BY SubSeqFull
<1>6. Head(q) = q[1]
  OBVIOUS
<1>7. QED
  BY <1>3, <1>4, <1>5, <1>6

\* The head and the tail of a queue with one element in front of it.
LEMMA FrontOfConcat ==
  ASSUME NEW S, NEW e \in S, NEW q \in Seq(S)
  PROVE  /\ <<e>> \o q # <<>>
         /\ Head(<<e>> \o q) = e
         /\ Tail(<<e>> \o q) = q
         /\ Len(<<e>> \o q) = Len(q) + 1
<1>1. <<e>> \in Seq(S) /\ Len(<<e>>) = 1 /\ <<e>>[1] = e
  OBVIOUS
<1>2. /\ <<e>> \o q \in Seq(S)
      /\ Len(<<e>> \o q) = 1 + Len(q)
      /\ \A i \in 1 .. 1 + Len(q) : (<<e>> \o q)[i] = IF i <= 1 THEN <<e>>[i] ELSE q[i - 1]
  BY <1>1, ConcatProperties
<1>3. Len(q) \in Nat
  BY LenProperties
<1>4. <<e>> \o q # <<>>
  <2>1. Len(<<e>> \o q) # 0
    BY <1>2, <1>3
  <2>2. QED
    BY <2>1, EmptySeq
<1>5. Head(<<e>> \o q) = e
  BY <1>1, <1>2, <1>3
<1>6. Tail(<<e>> \o q) = q
  <2>1. /\ Tail(<<e>> \o q) \in Seq(S)
        /\ Len(Tail(<<e>> \o q)) = Len(<<e>> \o q) - 1
        /\ \A i \in 1 .. Len(Tail(<<e>> \o q)) : Tail(<<e>> \o q)[i] = (<<e>> \o q)[i + 1]
    BY <1>2, <1>4, HeadTailProperties
  <2>2. Len(Tail(<<e>> \o q)) = Len(q)
    BY <1>2, <1>3, <2>1
  <2>3. ASSUME NEW i \in 1 .. Len(q)
        PROVE  Tail(<<e>> \o q)[i] = q[i]
    <3>1. i \in 1 .. Len(Tail(<<e>> \o q)) /\ i + 1 \in 1 .. 1 + Len(q) /\ ~(i + 1 <= 1)
          /\ (i + 1) - 1 = i
      BY <1>3, <2>2
    <3>2. QED
      BY <1>2, <2>1, <3>1
  <2>4. QED
    BY <2>1, <2>2, <2>3, SeqEqual
<1>7. QED
  BY <1>2, <1>3, <1>4, <1>5, <1>6

-----------------------------------------------------------------------------
(***************************************************************************)
(* The adapter's cast of the converter's 16 bits gives back the voltage,   *)
(* one below 0 included (sensor_ads1115.c:130-141).                        *)
(***************************************************************************)
THEOREM SignedCodeIsVoltage ==
  ASSUME NEW v \in Volts
  PROVE  SignedCode(Bits(v)) = v
<1> v \in Int /\ -32768 <= v /\ v < 32768
  BY BoardAssumption
<1>1. CASE v >= 0
  <2>1. v % 65536 = v
    BY <1>1
  <2>2. QED
    BY <1>1, <2>1 DEF SignedCode, Bits
<1>2. CASE v < 0
  <2>1. v % 65536 = v + 65536
    BY <1>2
  <2>2. QED
    BY <1>2, <2>1 DEF SignedCode, Bits
<1>3. QED
  BY <1>1, <1>2

(***************************************************************************)
(* What the steps keep: the types, the winning command, and that a turn of *)
(* task_sensor that got past its read has a sample.                        *)
(***************************************************************************)
Sampled == sensor \in {"mailbox", "volt", "compare"} => reading \in Volts

IInv == TypeOK /\ LastCommandWins /\ Sampled

LEMMA InvInit == Init => IInv
<1> SUFFICES ASSUME Init PROVE IInv
  OBVIOUS
<1>1. <<>> \in Seq(States) /\ <<>> \in Seq(Volts \union {Status}) /\ Len(<<>>) = 0
  BY EmptySeq
<1>2. TypeOK
  BY <1>1, BoardAssumption DEF Init, TypeOK, States
<1>3. LastCommandWins
  BY DEF Init, LastCommandWins
<1>4. Sampled
  BY DEF Init, Sampled
<1>5. QED
  BY <1>2, <1>3, <1>4 DEF IInv

(***************************************************************************)
(* A command sent from either task keeps the queue a queue of commands and *)
(* the last accepted command the one that wins.                            *)
(***************************************************************************)
LEMMA SendCommandKeeps ==
  ASSUME TypeOK, LastCommandWins, NEW c \in States, SendCommand(c),
         UNCHANGED <<actuator, led>>
  PROVE  /\ commands' \in Seq(States) /\ Len(commands') <= ActuatorDepth
         /\ accepted' \in States
         /\ LastCommandWins'
<1>1. commands \in Seq(States) /\ Len(commands) <= ActuatorDepth /\ accepted \in States
  BY DEF TypeOK
<1>2. CASE Len(commands) < ActuatorDepth
  <2>1. commands' = Append(commands, c) /\ accepted' = c
    BY <1>2 DEF SendCommand
  <2>2. commands' \in Seq(States) /\ Len(commands') = Len(commands) + 1 /\ Len(commands) \in Nat
    BY <1>1, <2>1, AppendProperties, LenProperties
  <2>3. commands' # <<>> /\ commands'[Len(commands')] = c
    BY <1>1, <2>1, LastOfAppend
  <2>4. LastCommandWins'
    BY <2>1, <2>3 DEF LastCommandWins
  <2>5. QED
    BY <1>2, <2>1, <2>2, <2>4, BoardAssumption
<1>3. CASE ~(Len(commands) < ActuatorDepth)
  <2>1. UNCHANGED <<commands, accepted>>
    BY <1>3 DEF SendCommand
  <2>2. QED
    BY <1>1, <2>1 DEF LastCommandWins
<1>4. QED
  BY <1>2, <1>3

LEMMA SendTextKeeps ==
  ASSUME TypeOK, NEW t \in Volts \union {Status}, SendText(t)
  PROVE  texts' \in Seq(Volts \union {Status}) /\ Len(texts') <= DisplayDepth
<1>1. texts \in Seq(Volts \union {Status}) /\ Len(texts) <= DisplayDepth /\ Len(texts) \in Nat
  BY LenProperties DEF TypeOK
<1>2. CASE Len(texts) < DisplayDepth
  <2>1. texts' = Append(texts, t)
    BY <1>2 DEF SendText
  <2>2. QED
    BY <1>1, <1>2, <2>1, AppendProperties, BoardAssumption
<1>3. CASE ~(Len(texts) < DisplayDepth)
  BY <1>1, <1>3 DEF SendText
<1>4. QED
  BY <1>2, <1>3

\* A step that leaves the commands and their application alone.
LEMMA WinsUnchanged ==
  ASSUME LastCommandWins, UNCHANGED <<commands, accepted, actuatorVars>>
  PROVE  LastCommandWins'
BY DEF LastCommandWins, actuatorVars

(***************************************************************************)
(* The steps of task_sensor.                                               *)
(***************************************************************************)
LEMMA SensorStep ==
  ASSUME IInv, TaskSensor
  PROVE  IInv'
<1>1. TypeOK /\ LastCommandWins /\ Sampled
  BY DEF IInv
<1>2. CASE Read
  <2>1. reading' \in Volts \union {NoData}
    BY <1>1, <1>2, SignedCodeIsVoltage, BoardAssumption DEF TypeOK, Read
  <2>2. Sampled'
    BY <1>1, <1>2, SignedCodeIsVoltage, BoardAssumption DEF TypeOK, Read, Sampled
  <2>3. TypeOK'
    BY <1>1, <1>2, <2>1 DEF TypeOK, Read, actuatorVars, displayVars
  <2>4. LastCommandWins'
    BY <1>1, <1>2, WinsUnchanged DEF Read
  <2>5. QED
    BY <2>2, <2>3, <2>4 DEF IInv
<1>3. CASE Mailbox
  <2>1. Sampled' /\ comm' \in Volts
    BY <1>1, <1>3 DEF Sampled, Mailbox, Overwrite
  <2>2. TypeOK'
    BY <1>1, <1>3, <2>1 DEF TypeOK, Mailbox, actuatorVars, displayVars
  <2>3. LastCommandWins'
    BY <1>1, <1>3, WinsUnchanged DEF Mailbox
  <2>4. QED
    BY <2>1, <2>2, <2>3 DEF IInv
<1>4. CASE SendVolt
  <2>1. Sampled' /\ reading \in Volts
    BY <1>1, <1>4 DEF Sampled, SendVolt
  <2>2. texts' \in Seq(Volts \union {Status}) /\ Len(texts') <= DisplayDepth
    BY <1>1, <1>4, <2>1, SendTextKeeps DEF SendVolt
  <2>3. TypeOK'
    BY <1>1, <1>4, <2>2 DEF TypeOK, SendVolt, actuatorVars, displayVars
  <2>4. LastCommandWins'
    BY <1>1, <1>4, WinsUnchanged DEF SendVolt
  <2>5. QED
    BY <2>1, <2>3, <2>4 DEF IInv
<1>5. CASE Compare
  <2>1. LedState(reading) \in States
    BY DEF LedState, States
  <2>2. Sampled'
    BY <1>5 DEF Sampled, Compare
  <2>3. UNCHANGED actuatorVars
    BY <1>5 DEF Compare
  <2>4. /\ commands' \in Seq(States) /\ Len(commands') <= ActuatorDepth
        /\ accepted' \in States
        /\ LastCommandWins'
    <3>1. CASE LedState(reading) # last_led_state
      BY <1>1, <1>5, <2>1, <2>3, <3>1, SendCommandKeeps DEF Compare, actuatorVars
    <3>2. CASE LedState(reading) = last_led_state
      BY <1>1, <1>5, <2>3, <3>2, WinsUnchanged DEF Compare, TypeOK
    <3>3. QED
      BY <3>1, <3>2
  <2>5. sensor' \in {"status", "delay"} /\ last_led_state' \in States
    BY <1>5, <2>1 DEF Compare
  <2>6. TypeOK'
    BY <1>1, <1>5, <2>4, <2>5 DEF TypeOK, Compare, actuatorVars, displayVars
  <2>7. QED
    BY <2>2, <2>4, <2>6 DEF IInv
<1>6. CASE SendStatus
  <2>1. Sampled'
    BY <1>6 DEF Sampled, SendStatus
  <2>2. texts' \in Seq(Volts \union {Status}) /\ Len(texts') <= DisplayDepth
    BY <1>1, <1>6, SendTextKeeps DEF SendStatus
  <2>3. TypeOK'
    BY <1>1, <1>6, <2>2 DEF TypeOK, SendStatus, actuatorVars, displayVars
  <2>4. LastCommandWins'
    BY <1>1, <1>6, WinsUnchanged DEF SendStatus
  <2>5. QED
    BY <2>1, <2>3, <2>4 DEF IInv
<1>7. CASE Delay
  <2>1. Sampled'
    BY <1>7 DEF Sampled, Delay
  <2>2. TypeOK'
    BY <1>1, <1>7 DEF TypeOK, Delay, actuatorVars, displayVars
  <2>3. LastCommandWins'
    BY <1>1, <1>7, WinsUnchanged DEF Delay
  <2>4. QED
    BY <2>1, <2>2, <2>3 DEF IInv
<1>8. QED
  BY <1>2, <1>3, <1>4, <1>5, <1>6, <1>7 DEF TaskSensor

(***************************************************************************)
(* The steps of task_actuator.                                             *)
(***************************************************************************)
LEMMA ActuatorStep ==
  ASSUME IInv, TaskActuator
  PROVE  IInv'
<1>1. TypeOK /\ LastCommandWins /\ Sampled
  BY DEF IInv
<1>2. CASE ReceiveCommand
  <2>1. /\ commands \in Seq(States) /\ Len(commands) <= ActuatorDepth
        /\ actuator = NoData /\ commands # <<>>
        /\ actuator' = Head(commands) /\ commands' = Tail(commands)
        /\ accepted' = accepted /\ led' = led
    BY <1>1, <1>2 DEF TypeOK, ReceiveCommand, TakeCommand
  <2>2. Head(commands) \in States /\ Tail(commands) \in Seq(States)
        /\ Len(Tail(commands)) = Len(commands) - 1 /\ Len(commands) \in Nat
    BY <2>1, HeadTailProperties, LenProperties
  <2>3. LastCommandWins'
    <3>1. accepted = commands[Len(commands)]
      BY <1>1, <2>1 DEF LastCommandWins
    <3>2. Head(commands) # NoData
      BY <2>2, BoardAssumption
    <3>3. QED
      BY <2>1, <3>1, <3>2, LastOfTail DEF LastCommandWins
  <2>4. Len(commands') <= ActuatorDepth
    BY <2>1, <2>2, BoardAssumption
  <2>5. TypeOK'
    BY <1>1, <1>2, <2>1, <2>2, <2>4 DEF TypeOK, ReceiveCommand, sensorVars, displayVars
  <2>6. Sampled'
    BY <1>1, <1>2 DEF Sampled, ReceiveCommand, sensorVars
  <2>7. QED
    BY <2>3, <2>5, <2>6 DEF IInv
<1>3. CASE Drive
  <2>1. /\ actuator # NoData /\ led' = actuator /\ actuator' = NoData
        /\ UNCHANGED <<commands, accepted>>
    BY <1>3 DEF Drive, dummy_output_set
  <2>2. LastCommandWins'
    BY <1>1, <2>1 DEF LastCommandWins
  <2>3. actuator \in States
    BY <1>1, <2>1 DEF TypeOK
  <2>4. TypeOK'
    BY <1>1, <1>3, <2>1, <2>3 DEF TypeOK, Drive, sensorVars, displayVars
  <2>5. Sampled'
    BY <1>1, <1>3 DEF Sampled, Drive, sensorVars
  <2>6. QED
    BY <2>2, <2>4, <2>5 DEF IInv
<1>4. QED
  BY <1>2, <1>3 DEF TaskActuator

(***************************************************************************)
(* The other steps: the input, the broker, the OTA task, telemetry and the *)
(* display.                                                                *)
(***************************************************************************)
LEMMA OtherStep ==
  ASSUME IInv,
         \/ InputChanges \/ OtaStatus \/ Telemetry
         \/ ReceiveText \/ Show \/ ShowFails
         \/ \E c \in States : RemoteCommand(c)
  PROVE  IInv'
<1>1. TypeOK /\ LastCommandWins /\ Sampled
  BY DEF IInv
<1>2. CASE InputChanges
  <2>1. TypeOK'
    BY <1>1, <1>2 DEF TypeOK, InputChanges, sensorVars, actuatorVars, displayVars
  <2>2. LastCommandWins'
    BY <1>1, <1>2, WinsUnchanged DEF InputChanges
  <2>3. Sampled'
    BY <1>1, <1>2 DEF Sampled, InputChanges, sensorVars
  <2>4. QED
    BY <2>1, <2>2, <2>3 DEF IInv
<1>3. CASE OtaStatus
  <2>1. texts' \in Seq(Volts \union {Status}) /\ Len(texts') <= DisplayDepth
    BY <1>1, <1>3, SendTextKeeps DEF OtaStatus
  <2>2. TypeOK'
    BY <1>1, <1>3, <2>1 DEF TypeOK, OtaStatus, sensorVars, actuatorVars, displayVars
  <2>3. LastCommandWins'
    BY <1>1, <1>3, WinsUnchanged DEF OtaStatus
  <2>4. Sampled'
    BY <1>1, <1>3 DEF Sampled, OtaStatus, sensorVars
  <2>5. QED
    BY <2>2, <2>3, <2>4 DEF IInv
<1>4. CASE Telemetry
  <2>1. TypeOK'
    BY <1>1, <1>4 DEF TypeOK, Telemetry, sensorVars, actuatorVars, displayVars
  <2>2. LastCommandWins'
    BY <1>1, <1>4, WinsUnchanged DEF Telemetry
  <2>3. Sampled'
    BY <1>1, <1>4 DEF Sampled, Telemetry, sensorVars
  <2>4. QED
    BY <2>1, <2>2, <2>3 DEF IInv
<1>5. CASE ReceiveText
  <2>1. /\ texts \in Seq(Volts \union {Status}) /\ Len(texts) <= DisplayDepth /\ texts # <<>>
        /\ display' = Head(texts) /\ texts' = Tail(texts)
    BY <1>1, <1>5 DEF TypeOK, ReceiveText, TakeText
  <2>2. /\ Head(texts) \in Volts \union {Status} /\ Tail(texts) \in Seq(Volts \union {Status})
        /\ Len(Tail(texts)) = Len(texts) - 1 /\ Len(texts) \in Nat
    BY <2>1, HeadTailProperties, LenProperties
  <2>3. Len(texts') <= DisplayDepth
    BY <2>1, <2>2, BoardAssumption
  <2>4. TypeOK'
    BY <1>1, <1>5, <2>1, <2>2, <2>3 DEF TypeOK, ReceiveText, sensorVars, actuatorVars
  <2>5. LastCommandWins'
    BY <1>1, <1>5, WinsUnchanged DEF ReceiveText
  <2>6. Sampled'
    BY <1>1, <1>5 DEF Sampled, ReceiveText, sensorVars
  <2>7. QED
    BY <2>4, <2>5, <2>6 DEF IInv
<1>6. CASE Show \/ ShowFails
  <2>1. TypeOK'
    BY <1>1, <1>6 DEF TypeOK, Show, ShowFails, sensorVars, actuatorVars
  <2>2. LastCommandWins'
    BY <1>1, <1>6, WinsUnchanged DEF Show, ShowFails
  <2>3. Sampled'
    BY <1>1, <1>6 DEF Sampled, Show, ShowFails, sensorVars
  <2>4. QED
    BY <2>1, <2>2, <2>3 DEF IInv
<1>7. ASSUME NEW c \in States, RemoteCommand(c)
      PROVE  IInv'
  <2>1. SendCommand(c) /\ UNCHANGED <<actuator, led>>
    BY <1>7 DEF RemoteCommand, actuatorVars
  <2>2. /\ commands' \in Seq(States) /\ Len(commands') <= ActuatorDepth
        /\ accepted' \in States
        /\ LastCommandWins'
    BY <1>1, <2>1, SendCommandKeeps
  <2>3. TypeOK'
    BY <1>1, <1>7, <2>2 DEF TypeOK, RemoteCommand, sensorVars, actuatorVars, displayVars
  <2>4. Sampled'
    BY <1>1, <1>7 DEF Sampled, RemoteCommand, sensorVars
  <2>5. QED
    BY <2>2, <2>3, <2>4 DEF IInv
<1>8. QED
  BY <1>2, <1>3, <1>4, <1>5, <1>6, <1>7

LEMMA InvNext == IInv /\ [Next]_vars => IInv'
<1> SUFFICES ASSUME IInv, [Next]_vars PROVE IInv'
  OBVIOUS
<1>1. CASE Next
  BY <1>1, SensorStep, ActuatorStep, OtherStep DEF Next, TaskDisplay
<1>2. CASE UNCHANGED vars
  <2>1. UNCHANGED actuatorVars /\ UNCHANGED <<commands, accepted>>
    BY <1>2 DEF vars
  <2>2. LastCommandWins'
    BY <2>1, WinsUnchanged DEF IInv
  <2>3. Sampled'
    BY <1>2 DEF IInv, Sampled, vars, sensorVars
  <2>4. TypeOK'
    BY <1>2 DEF IInv, TypeOK, vars, sensorVars, actuatorVars, displayVars
  <2>5. QED
    BY <2>2, <2>3, <2>4 DEF IInv
<1>3. QED
  BY <1>1, <1>2

(***************************************************************************)
(* The invariant in every behaviour: the types, that the last command      *)
(* wins, and that a turn past its read has a sample.                       *)
(***************************************************************************)
LEMMA Invariance == Spec => []IInv
<1>1. QED
  BY InvInit, InvNext, PTL DEF Spec

(***************************************************************************)
(* Every queue, mailbox and register of the tasks keeps its type.          *)
(***************************************************************************)
THEOREM TypeCorrect == Spec => []TypeOK
<1>1. IInv => TypeOK
  BY DEF IInv
<1>2. QED
  BY <1>1, Invariance, PTL

(***************************************************************************)
(* Whichever of the sensor task and the MQTT client's task sent it, the    *)
(* command accepted last is the one the output has or is going to have     *)
(* (task_actuator.c:28-33, main.c:180, 184).                               *)
(***************************************************************************)
THEOREM LastCommandWinsAlways == Spec => []LastCommandWins
<1>1. IInv => LastCommandWins
  BY DEF IInv
<1>2. QED
  BY <1>1, Invariance, PTL

-----------------------------------------------------------------------------
(***************************************************************************)
(* The refinement of CommandLine: a command sent is Accept, the driver's   *)
(* set is Apply, and every other step a stutter.                           *)
(***************************************************************************)
pendingLine == InHand \o commands

\* Receiving a command moves it from the queue to the hand: the line is the same.
LEMMA ReceiveStutters ==
  ASSUME TypeOK, ReceiveCommand
  PROVE  pendingLine' = pendingLine
<1>1. /\ commands \in Seq(States) /\ commands # <<>> /\ actuator = NoData
      /\ actuator' = Head(commands) /\ commands' = Tail(commands)
  BY DEF TypeOK, ReceiveCommand, TakeCommand
<1>2. Head(commands) # NoData
  BY <1>1, HeadTailProperties, BoardAssumption
<1>3. pendingLine = commands
  BY <1>1, ConcatEmptySeq DEF pendingLine, InHand
<1>4. pendingLine' = <<Head(commands)>> \o Tail(commands)
  BY <1>1, <1>2 DEF pendingLine, InHand
<1>5. QED
  BY <1>1, <1>3, <1>4, HeadThenTail

\* Driving the pin applies the first command of the line.
LEMMA DriveApplies ==
  ASSUME TypeOK, Drive
  PROVE  /\ pendingLine # <<>>
         /\ led' = Head(pendingLine)
         /\ pendingLine' = Tail(pendingLine)
<1>1. /\ commands \in Seq(States) /\ actuator \in States /\ actuator # NoData
      /\ led' = actuator /\ actuator' = NoData /\ commands' = commands
  BY DEF TypeOK, Drive, dummy_output_set
<1>2. pendingLine = <<actuator>> \o commands
  BY <1>1 DEF pendingLine, InHand
<1>3. pendingLine' = commands
  BY <1>1, ConcatEmptySeq DEF pendingLine, InHand
<1>4. QED
  BY <1>1, <1>2, <1>3, FrontOfConcat

\* A command that fits the queue is appended to the line, for which there is room.
LEMMA SendAccepts ==
  ASSUME TypeOK, NEW c \in States, SendCommand(c), UNCHANGED <<actuator, led>>
  PROVE  \/ /\ Len(pendingLine) < ActuatorDepth + 1
            /\ pendingLine' = Append(pendingLine, c)
         \/ pendingLine' = pendingLine
<1>1. commands \in Seq(States) /\ actuator \in States \union {NoData} /\ Len(commands) \in Nat
  BY LenProperties DEF TypeOK
<1>2. InHand \in Seq(States) /\ Len(InHand) <= 1 /\ Len(InHand) \in Nat
  <2>1. CASE actuator = NoData
    BY <2>1, EmptySeq DEF InHand
  <2>2. CASE actuator # NoData
    BY <1>1, <2>2 DEF InHand
  <2>3. QED
    BY <2>1, <2>2
<1>3. InHand' = InHand
  BY DEF InHand
<1>4. CASE Len(commands) < ActuatorDepth
  <2>1. commands' = commands \o <<c>>
    BY <1>1, <1>4, AppendIsConcat DEF SendCommand
  <2>2. pendingLine \in Seq(States) /\ Len(pendingLine) = Len(InHand) + Len(commands)
    BY <1>1, <1>2, ConcatProperties DEF pendingLine
  <2>3. <<c>> \in Seq(States)
    OBVIOUS
  <2>4. pendingLine' = InHand \o (commands \o <<c>>)
    BY <1>3, <2>1 DEF pendingLine
  <2>5. pendingLine' = pendingLine \o <<c>>
    BY <1>1, <1>2, <2>3, <2>4, ConcatAssociative DEF pendingLine
  <2>6. pendingLine' = Append(pendingLine, c)
    BY <2>2, <2>5, AppendIsConcat
  <2>7. QED
    BY <1>1, <1>2, <1>4, <2>2, <2>6, BoardAssumption
<1>5. CASE ~(Len(commands) < ActuatorDepth)
  BY <1>3, <1>5 DEF SendCommand, pendingLine
<1>6. QED
  BY <1>4, <1>5

LEMMA LineInit == Init => Line!Init
<1> SUFFICES ASSUME Init PROVE Line!Init
  OBVIOUS
<1>1. InHand \o commands = <<>>
  BY EmptySeq, ConcatEmptySeq DEF Init, InHand
<1>2. QED
  BY <1>1 DEF Init, Line!Init

\* A step that leaves the commands and their application alone stutters.
LEMMA LineUnchanged ==
  ASSUME UNCHANGED <<commands, actuatorVars>>
  PROVE  UNCHANGED Line!vars
BY DEF actuatorVars, Line!vars, InHand

LEMMA LineNext == IInv /\ [Next]_vars => [Line!Next]_(Line!vars)
<1> SUFFICES ASSUME IInv, [Next]_vars PROVE [Line!Next]_(Line!vars)
  OBVIOUS
<1>1. TypeOK
  BY DEF IInv
<1>2. ASSUME NEW c \in States, SendCommand(c), UNCHANGED <<actuator, led>>
      PROVE  [Line!Next]_(Line!vars)
  <2>1. CASE pendingLine' = pendingLine
    BY <1>2, <2>1 DEF Line!vars, pendingLine
  <2>2. CASE /\ Len(pendingLine) < ActuatorDepth + 1
             /\ pendingLine' = Append(pendingLine, c)
    <3>1. Line!Accept(c)
      BY <1>2, <2>2 DEF Line!Accept, pendingLine
    <3>2. QED
      BY <3>1 DEF Line!Next
  <2>3. QED
    BY <1>1, <1>2, <2>1, <2>2, SendAccepts
<1>3. CASE Compare
  <2>1. LedState(reading) \in States
    BY DEF LedState, States
  <2>2. UNCHANGED <<actuator, led>>
    BY <1>3 DEF Compare, actuatorVars
  <2>3. CASE LedState(reading) # last_led_state
    BY <1>2, <1>3, <2>1, <2>2, <2>3 DEF Compare
  <2>4. CASE LedState(reading) = last_led_state
    BY <1>3, <2>4, LineUnchanged DEF Compare
  <2>5. QED
    BY <2>3, <2>4
<1>4. ASSUME NEW c \in States, RemoteCommand(c)
      PROVE  [Line!Next]_(Line!vars)
  BY <1>2, <1>4 DEF RemoteCommand, actuatorVars
<1>5. CASE ReceiveCommand
  <2>1. pendingLine' = pendingLine /\ led' = led
    BY <1>1, <1>5, ReceiveStutters DEF ReceiveCommand
  <2>2. QED
    BY <2>1 DEF Line!vars, pendingLine
<1>6. CASE Drive
  <2>1. Line!Apply
    BY <1>1, <1>6, DriveApplies DEF Line!Apply, pendingLine
  <2>2. QED
    BY <2>1 DEF Line!Next
<1>7. CASE Read \/ Mailbox \/ SendVolt \/ SendStatus \/ Delay
  <2>1. UNCHANGED <<commands, actuatorVars>>
    BY <1>7 DEF Read, Mailbox, SendVolt, SendStatus, Delay
  <2>2. QED
    BY <2>1, LineUnchanged
<1>8. CASE InputChanges \/ OtaStatus \/ Telemetry \/ ReceiveText \/ Show \/ ShowFails
  <2>1. UNCHANGED <<commands, actuatorVars>>
    BY <1>8 DEF InputChanges, OtaStatus, Telemetry, ReceiveText, Show, ShowFails
  <2>2. QED
    BY <2>1, LineUnchanged
<1>9. CASE UNCHANGED vars
  <2>1. UNCHANGED <<commands, actuatorVars>>
    BY <1>9 DEF vars
  <2>2. QED
    BY <2>1, LineUnchanged
<1>10. QED
  BY <1>3, <1>4, <1>5, <1>6, <1>7, <1>8, <1>9 DEF Next, TaskSensor, TaskActuator,
     TaskDisplay

(***************************************************************************)
(* The safety part of CommandsInOrder: no accepted command is lost,        *)
(* applied twice or overtaken by a later one, whatever the depth of the    *)
(* queue and however the tasks interleave (task_actuator.c:27-33).         *)
(***************************************************************************)
THEOREM CommandsAreNeitherLostNorReordered ==
  Spec => Line!Init /\ [][Line!Next]_(Line!vars)
<1>1. QED
  BY LineInit, LineNext, Invariance, PTL DEF Spec

-----------------------------------------------------------------------------
(***************************************************************************)
(* The mailbox.  Between the steps of task_sensor it holds the last sample *)
(* read, also after reads that failed; only between the read and the       *)
(* overwrite is it one sample behind.                                      *)
(***************************************************************************)
MailboxIsCurrent == sensor # "mailbox" => comm = reading

LEMMA MailboxStays ==
  MailboxIsCurrent /\ [Next]_vars => MailboxIsCurrent'
<1>1. SUFFICES ASSUME MailboxIsCurrent, [Next]_vars PROVE MailboxIsCurrent'
  OBVIOUS
<1>2. CASE Read
  BY <1>1, <1>2 DEF MailboxIsCurrent, Read
<1>3. CASE Mailbox
  BY <1>3 DEF MailboxIsCurrent, Mailbox, Overwrite
<1>4. CASE SendVolt \/ Compare \/ SendStatus \/ Delay
  BY <1>1, <1>4 DEF MailboxIsCurrent, SendVolt, Compare, SendStatus, Delay
<1>5. CASE UNCHANGED <<comm, sensorVars>>
  BY <1>1, <1>5 DEF MailboxIsCurrent, sensorVars
<1>6. CASE InputChanges \/ OtaStatus \/ Telemetry \/ ReceiveCommand \/ Drive
             \/ ReceiveText \/ Show \/ ShowFails \/ UNCHANGED vars
             \/ \E c \in States : RemoteCommand(c)
  <2>1. UNCHANGED <<comm, sensorVars>>
    BY <1>6 DEF InputChanges, OtaStatus, Telemetry, ReceiveCommand, Drive, ReceiveText, Show,
       ShowFails, RemoteCommand, vars
  <2>2. QED
    BY <1>5, <2>1
<1>7. QED
  BY <1>1, <1>2, <1>3, <1>4, <1>6 DEF Next, TaskSensor, TaskActuator, TaskDisplay

(***************************************************************************)
(* "A slow reader sees the newest sample instead of a backlog"             *)
(* (app_types.h:34-37), as a property of steps: however long telemetry     *)
(* slept and however the tasks interleave, a new sample it reports is the  *)
(* last one read or, while task_sensor stands between its read and its     *)
(* overwrite, what the mailbox holds; and that is the sample read just     *)
(* before, since a new reading finds the last one in the mailbox and       *)
(* nothing but the newest is ever put there (task_sensor.c,                *)
(* network_manager.c).                                                     *)
(***************************************************************************)
OneBehindAtMost ==
  /\ reported' # reported => reported' = IF sensor = "mailbox" THEN comm ELSE reading
  /\ reading' # reading => comm' = reading
  /\ comm' # comm => comm' = reading

NoBacklog == [][OneBehindAtMost]_vars

(***************************************************************************)
(* NoBacklog holds in every behaviour, for any readings: outside its       *)
(* overwrite the mailbox holds the last one (task_sensor.c,                *)
(* network_manager.c).                                                     *)
(***************************************************************************)
THEOREM TelemetryHasNoBacklog == Spec => NoBacklog
<1>1. Init => MailboxIsCurrent
  BY DEF Init, MailboxIsCurrent
<1>2. MailboxIsCurrent /\ [Next]_vars => [OneBehindAtMost]_vars
  <2>1. SUFFICES ASSUME MailboxIsCurrent, Next PROVE OneBehindAtMost
    OBVIOUS
  <2>2. CASE Read
    BY <2>1, <2>2 DEF Read, MailboxIsCurrent, OneBehindAtMost
  <2>3. CASE Mailbox
    BY <2>3 DEF Mailbox, Overwrite, OneBehindAtMost
  <2>4. CASE Telemetry
    BY <2>1, <2>4 DEF Telemetry, MailboxIsCurrent, OneBehindAtMost, sensorVars
  <2>5. CASE UNCHANGED <<comm, reading, reported>>
    BY <2>5 DEF OneBehindAtMost
  <2>6. CASE SendVolt \/ Compare \/ SendStatus \/ Delay
    BY <2>5, <2>6 DEF SendVolt, Compare, SendStatus, Delay
  <2>7. CASE InputChanges \/ OtaStatus \/ TaskActuator \/ TaskDisplay
               \/ \E c \in States : RemoteCommand(c)
    <3>1. UNCHANGED <<comm, sensorVars, reported>>
      BY <2>7 DEF InputChanges, OtaStatus, TaskActuator, ReceiveCommand, Drive, TaskDisplay,
         ReceiveText, Show, ShowFails, RemoteCommand, sensorVars
    <3>2. QED
      BY <2>5, <3>1 DEF sensorVars
  <2>8. QED
    BY <2>1, <2>2, <2>3, <2>4, <2>6, <2>7 DEF Next, TaskSensor
<1>3. QED
  BY <1>1, <1>2, MailboxStays, PTL DEF Spec, NoBacklog
=============================================================================
