--------------------------- MODULE SystemLogProofs ---------------------------
(***************************************************************************)
(* Proofs about SystemLog, for every set of loggers, every queue depth and *)
(* every number of lines.                                                  *)
(***************************************************************************)
EXTENDS SystemLog, TLAPS, SequenceTheorems

(***************************************************************************)
(* A line added at the end of a log in order keeps it in order when it is  *)
(* younger than every line there.                                          *)
(***************************************************************************)
LEMMA AppendInOrder ==
  ASSUME NEW log \in Seq(Lines), NEW l \in Lines, InOrder(log),
         \A i \in 1 .. Len(log) : Younger(l, log[i])
  PROVE  InOrder(Append(log, l))
<1>1. /\ Len(Append(log, l)) = Len(log) + 1
      /\ \A i \in 1 .. Len(log) : Append(log, l)[i] = log[i]
      /\ Append(log, l)[Len(log) + 1] = l
  BY AppendProperties
<1>2. SUFFICES ASSUME NEW i \in 1 .. Len(log) + 1, NEW j \in 1 .. Len(log) + 1, i < j,
                      Append(log, l)[i][1] = Append(log, l)[j][1]
               PROVE  Append(log, l)[i][2] < Append(log, l)[j][2]
  BY <1>1 DEF InOrder
<1>3. Len(log) \in Nat
  BY LenProperties
<1>4. CASE j = Len(log) + 1
  <2>1. i \in 1 .. Len(log)
    BY <1>2, <1>3, <1>4
  <2>2. log[i] \in Lines
    BY <2>1, ElementOfSeq
  <2>3. QED
    BY <1>1, <1>2, <1>4, <2>1, <2>2 DEF Younger, Lines
<1>5. CASE j # Len(log) + 1
  BY <1>1, <1>2, <1>3, <1>5 DEF InOrder
<1>6. QED
  BY <1>4, <1>5

(***************************************************************************)
(* Taking the first line out of a log leaves it in order, and that line is *)
(* older than those that stay.                                             *)
(***************************************************************************)
LEMMA TailInOrder ==
  ASSUME NEW log \in Seq(Lines), log # <<>>, InOrder(log)
  PROVE  /\ InOrder(Tail(log))
         /\ \A i \in 1 .. Len(Tail(log)) : Younger(Tail(log)[i], Head(log))
<1>1. /\ Tail(log) \in Seq(Lines) /\ Len(Tail(log)) = Len(log) - 1
      /\ \A i \in 1 .. Len(Tail(log)) : Tail(log)[i] = log[i + 1]
      /\ Head(log) = log[1]
  BY HeadTailProperties
<1>2. Len(log) \in Nat /\ Len(log) >= 1
  BY EmptySeq, LenProperties
<1>3. InOrder(Tail(log))
  BY <1>1, <1>2 DEF InOrder
<1>4. ASSUME NEW i \in 1 .. Len(Tail(log))
      PROVE  Younger(Tail(log)[i], Head(log))
  <2>1. i + 1 \in 1 .. Len(log) /\ 1 \in 1 .. Len(log) /\ 1 < i + 1
    BY <1>1, <1>2
  <2>2. log[i + 1] \in Lines /\ log[1] \in Lines
    BY <2>1, ElementOfSeq
  <2>3. QED
    BY <1>1, <2>1, <2>2 DEF InOrder, Younger, Lines
<1>5. QED
  BY <1>3, <1>4

(***************************************************************************)
(* The invariant holds initially.                                          *)
(***************************************************************************)
LEMMA InvInit == Init => IInv
<1> SUFFICES ASSUME Init PROVE IInv
  OBVIOUS
<1>1. <<>> \in Seq(Lines) /\ Len(<<>>) = 0
  BY EmptySeq
<1>2. TypeOK
  <2>1. sink \in BOOLEAN /\ forwarding \in BOOLEAN
    BY DEF Init
  <2>2. queue \in Seq(Lines) /\ remote \in Seq(Lines)
    BY <1>1 DEF Init
  <2>3. Len(queue) <= QueueDepth
    BY <1>1, LogAssumption DEF Init
  <2>4. pc \in [Tasks -> {"idle", "test", "send"}]
    BY DEF Init
  <2>5. written \in [Tasks -> 0 .. MaxLines]
    BY LogAssumption DEF Init
  <2>6. fwd \in {"receive", "begin", "sink", "published"} /\ held \in Lines \union {NoLine}
    BY DEF Init
  <2>7. QED
    BY <2>1, <2>2, <2>3, <2>4, <2>5, <2>6 DEF TypeOK
<1>3. GuardCoversSink /\ NoEcho /\ LinesByAge
  BY <1>1 DEF Init, GuardCoversSink, NoEcho, LinesByAge, InOrder, InHand, Tasks
<1>4. QED
  BY <1>2, <1>3 DEF IInv

(***************************************************************************)
(* Every step preserves the invariant.                                     *)
(***************************************************************************)
LEMMA InvNext == IInv /\ [Next]_vars => IInv'
<1> SUFFICES ASSUME IInv, [Next]_vars PROVE IInv'
  OBVIOUS
<1> USE LogAssumption DEF IInv
<1>0. /\ Len(queue) \in Nat /\ Len(remote) \in Nat
      /\ \A i \in 1 .. Len(queue) : queue[i] \in Lines
      /\ \A j \in 1 .. Len(remote) : remote[j] \in Lines
      /\ \A l \in Lines : l = <<l[1], l[2]>> /\ l[1] \in Tasks /\ l[2] \in 1 .. MaxLines
  BY LenProperties, ElementOfSeq DEF TypeOK, Lines
<1>1. CASE Register
  BY <1>1 DEF Register, TypeOK, GuardCoversSink, NoEcho, LinesByAge, InHand
<1>2. ASSUME NEW t \in Tasks, Serial(t) PROVE IInv'
  <2>1. /\ pc' = [pc EXCEPT ![t] = "test"] /\ written' = [written EXCEPT ![t] = @ + 1]
        /\ pc[t] = "idle" /\ written[t] < MaxLines
        /\ t = Forwarder => fwd = "published"
        /\ UNCHANGED <<sink, forwarding, queue, fwd, held, remote>>
    BY <1>2 DEF Serial
  <2>2. TypeOK'
    <3>1. written[t] + 1 \in 0 .. MaxLines
      BY <2>1 DEF TypeOK
    <3>2. QED
      BY <2>1, <3>1 DEF TypeOK
  <2>3. \A u \in Tasks : u # t => pc'[u] = pc[u] /\ written'[u] = written[u]
    BY <2>1 DEF TypeOK
  <2>4. \A u \in Tasks : pc'[u] = "send" => pc[u] = "send"
    BY <2>1 DEF TypeOK
  <2>5. GuardCoversSink' /\ NoEcho'
    <3>1. pc'[Forwarder] # "idle" => fwd = "published"
      BY <2>1 DEF TypeOK, GuardCoversSink, Tasks
    <3>2. QED
      BY <2>1, <2>4, <3>1 DEF GuardCoversSink, NoEcho
  <2>6. \A u \in Tasks, n \in 1 .. MaxLines :
          n <= written[u] => n <= written'[u] /\ (u = t => n < written'[u])
    BY <2>1 DEF TypeOK
  <2>9. written'[t] > 0
    BY <2>1 DEF TypeOK
  <2>7. LinesByAge'
    BY <1>0, <2>1, <2>3, <2>6, <2>9 DEF LinesByAge, InOrder, Younger, InHand
  <2>8. QED
    BY <2>2, <2>5, <2>7
<1>3. ASSUME NEW t \in Tasks, Test(t) PROVE IInv'
  <2>1. \A u \in Tasks : pc'[u] # "idle" => pc[u] # "idle"
    BY <1>3 DEF Test, TypeOK
  <2>2. pc'[t] = "send" => t # Forwarder /\ sink
    BY <1>3 DEF Test, TypeOK, Accepts, GuardCoversSink, Tasks
  <2>3. \A u \in Tasks : u # t => pc'[u] = pc[u]
    BY <1>3 DEF Test, TypeOK
  <2>4. TypeOK' /\ NoEcho'
    BY <1>3 DEF Test, TypeOK, NoEcho
  <2>5. GuardCoversSink'
    BY <1>3, <2>1, <2>2, <2>3 DEF Test, GuardCoversSink, Tasks
  <2>6. LinesByAge'
    BY <1>0, <1>3, <2>1 DEF Test, LinesByAge, InHand
  <2>7. QED
    BY <2>4, <2>5, <2>6
<1>4. ASSUME NEW t \in Tasks, Send(t) PROVE IInv'
  <2>0. /\ pc' = [pc EXCEPT ![t] = "idle"]
        /\ \A u \in Tasks : pc'[u] # "idle" => u # t /\ pc'[u] = pc[u]
    BY <1>4 DEF Send, Drop, TypeOK
  <2>1. CASE ~Room /\ Drop(t)
    <3>1. UNCHANGED <<sink, forwarding, queue, written, fwd, held, remote>>
      BY <1>4, <2>1 DEF Send, Drop
    <3>2. TypeOK' /\ GuardCoversSink' /\ NoEcho'
      BY <2>0, <3>1 DEF TypeOK, GuardCoversSink, NoEcho, Tasks
    <3>3. LinesByAge'
      BY <1>0, <2>0, <3>1 DEF LinesByAge, InHand, InOrder
    <3>4. QED
      BY <3>2, <3>3
  <2>2. CASE Room /\ Enqueue(<<t, written[t]>>)
    <3> DEFINE l == <<t, written[t]>>
    <3>0. /\ UNCHANGED <<sink, forwarding, written, fwd, held, remote>>
          /\ pc[t] = "send" /\ queue' = Append(queue, l)
      BY <1>4, <2>2 DEF Send, Enqueue
    <3>1. l \in Lines /\ t # Forwarder /\ sink
      <4>1. written[t] \in 1 .. MaxLines
        BY <3>0 DEF LinesByAge, TypeOK
      <4>2. QED
        BY <3>0, <4>1 DEF GuardCoversSink, Lines
    <3>2. /\ queue' \in Seq(Lines) /\ Len(queue') = Len(queue) + 1
          /\ \A i \in 1 .. Len(queue) : queue'[i] = queue[i]
          /\ queue'[Len(queue) + 1] = l
      BY <3>0, <3>1, AppendProperties DEF TypeOK
    <3>3. \A i \in 1 .. Len(queue') : i \in 1 .. Len(queue) \/ queue'[i] = l
      BY <1>0, <3>2
    <3>4. TypeOK' /\ GuardCoversSink' /\ NoEcho'
      BY <1>0, <2>0, <2>2, <3>0, <3>1, <3>2, <3>3 DEF TypeOK, GuardCoversSink, NoEcho, Room, Tasks
    <3>5. InOrder(queue')
      BY <1>0, <3>0, <3>1, AppendInOrder DEF TypeOK, LinesByAge, Younger
    <3>6. LinesByAge'
      <4>1. \A u \in Tasks : pc'[u] # "idle" => pc[u] # "idle" /\ written'[u] > 0
        BY <2>0, <3>0 DEF LinesByAge
      <4>2. \A i \in 1 .. Len(queue'), j \in 1 .. Len(remote') : Younger(queue'[i], remote'[j])
        <5>1. \A j \in 1 .. Len(remote) : Younger(l, remote[j])
          BY <1>0, <3>0 DEF LinesByAge, Younger
        <5>2. QED
          BY <3>0, <3>2, <3>3, <5>1 DEF LinesByAge
      <4>3. InHand' => \A i \in 1 .. Len(queue') : Younger(queue'[i], held')
        <5>1. InHand => Younger(l, held)
          BY <1>0, <3>0 DEF LinesByAge, Younger
        <5>2. QED
          BY <3>0, <3>2, <3>3, <5>1 DEF LinesByAge, InHand
      <4>4. \A i \in 1 .. Len(queue') :
              /\ pc'[queue'[i][1]] # "idle" => queue'[i][2] < written'[queue'[i][1]]
              /\ queue'[i][2] <= written'[queue'[i][1]]
        <5>1. l[1] = t /\ l[2] = written[t] /\ pc'[t] = "idle" /\ written[t] <= written[t]
          BY <1>0, <2>0, <3>1
        <5>2. QED
          BY <1>0, <2>0, <3>0, <3>2, <3>3, <5>1 DEF LinesByAge
      <4>5. \A j \in 1 .. Len(remote') :
              /\ InHand' => Younger(held', remote'[j])
              /\ pc'[remote'[j][1]] # "idle" => remote'[j][2] < written'[remote'[j][1]]
              /\ remote'[j][2] <= written'[remote'[j][1]]
        BY <1>0, <3>0, <4>1 DEF LinesByAge, InHand
      <4>6. InHand' =>
              /\ held' \in Lines
              /\ pc'[held'[1]] # "idle" => held'[2] < written'[held'[1]]
              /\ held'[2] <= written'[held'[1]]
        BY <1>0, <3>0, <4>1 DEF LinesByAge, InHand
      <4>7. InOrder(remote')
        BY <3>0 DEF LinesByAge
      <4>8. QED
        BY <3>5, <4>1, <4>2, <4>3, <4>4, <4>5, <4>6, <4>7 DEF LinesByAge
    <3>7. QED
      BY <3>4, <3>6
  <2>3. QED
    BY <1>4, <2>1, <2>2 DEF Send
<1>5. CASE Receive
  <2>1. /\ fwd = "receive" /\ fwd' = "begin" /\ queue # <<>>
        /\ held' = Head(queue) /\ queue' = Tail(queue)
        /\ UNCHANGED <<sink, forwarding, pc, written, remote>>
    BY <1>5 DEF Receive, Dequeue
  <2>2. /\ queue' \in Seq(Lines) /\ Len(queue') = Len(queue) - 1
        /\ held' = queue[1] /\ 1 \in 1 .. Len(queue)
        /\ \A i \in 1 .. Len(queue') : queue'[i] = queue[i + 1] /\ i + 1 \in 1 .. Len(queue)
    <3>1. /\ queue' \in Seq(Lines) /\ Len(queue') = Len(queue) - 1
          /\ \A i \in 1 .. Len(queue') : queue'[i] = queue[i + 1]
      BY <2>1, HeadTailProperties DEF TypeOK
    <3>2. Len(queue) > 0
      BY <1>0, <2>1, EmptySeq DEF TypeOK
    <3>3. QED
      BY <1>0, <2>1, <3>1, <3>2
  <2>3. InOrder(queue') /\ \A i \in 1 .. Len(queue') : Younger(queue'[i], held')
    BY <2>1, TailInOrder DEF TypeOK, LinesByAge
  <2>4. TypeOK' /\ GuardCoversSink' /\ NoEcho'
    BY <1>0, <2>1, <2>2 DEF TypeOK, GuardCoversSink, NoEcho
  <2>5. LinesByAge'
    BY <1>0, <2>1, <2>2, <2>3 DEF LinesByAge, InHand, InOrder
  <2>6. QED
    BY <2>4, <2>5
<1>6. CASE Begin
  BY <1>6 DEF Begin, TypeOK, GuardCoversSink, NoEcho, LinesByAge, InHand
<1>7. CASE Publish
  <2>0. /\ fwd = "sink" /\ fwd' = "published"
        /\ UNCHANGED <<sink, forwarding, queue, pc, written, held>>
        /\ remote' = remote \/ remote' = Append(remote, held)
    BY <1>7 DEF Publish
  <2>1. held \in Lines
    BY <2>0 DEF LinesByAge, InHand
  <2>2. CASE remote' = remote
    BY <1>0, <2>0, <2>2 DEF TypeOK, GuardCoversSink, NoEcho, LinesByAge, InHand, InOrder
  <2>3. CASE remote' = Append(remote, held)
    <3>1. /\ remote' \in Seq(Lines) /\ Len(remote') = Len(remote) + 1
          /\ \A i \in 1 .. Len(remote) : remote'[i] = remote[i]
          /\ remote'[Len(remote) + 1] = held
      BY <2>1, <2>3, AppendProperties DEF TypeOK
    <3>2. \A i \in 1 .. Len(remote') : i \in 1 .. Len(remote) \/ remote'[i] = held
      BY <1>0, <3>1
    <3>3. TypeOK' /\ GuardCoversSink' /\ NoEcho'
      BY <2>0, <3>1 DEF TypeOK, GuardCoversSink, NoEcho
    <3>4. InOrder(remote')
      BY <2>0, <2>1, <2>3, AppendInOrder DEF TypeOK, LinesByAge, InHand
    <3>5. LinesByAge'
      BY <1>0, <2>0, <3>1, <3>2, <3>4 DEF LinesByAge, InHand, InOrder
    <3>6. QED
      BY <3>3, <3>5
  <2>4. QED
    BY <2>0, <2>2, <2>3
<1>8. CASE End
  BY <1>8 DEF End, TypeOK, GuardCoversSink, NoEcho, LinesByAge, InHand
<1>9. CASE UNCHANGED vars
  BY <1>9 DEF vars, TypeOK, GuardCoversSink, NoEcho, LinesByAge, InHand
<1>10. QED
  BY <1>1, <1>2, <1>3, <1>4, <1>5, <1>6, <1>7, <1>8, <1>9 DEF Next, task_log_forwarder, Logging

(***************************************************************************)
(* The invariant holds in every reachable state.                           *)
(***************************************************************************)
THEOREM Invariance == Spec => []IInv
  BY InvInit, InvNext, PTL DEF Spec

(***************************************************************************)
(* The queue never outgrows its depth, and every variable keeps its type.  *)
(***************************************************************************)
THEOREM TypeCorrect == Spec => []TypeOK
<1>1. IInv => TypeOK
  BY DEF IInv
<1>2. QED
  BY <1>1, Invariance, PTL

(***************************************************************************)
(* No line the forwarder logs while it delivers another is ever queued: a  *)
(* failing sink does not feed itself (system_log.c:51, 83-85).             *)
(***************************************************************************)
THEOREM GuardStopsEcho == Spec => []NoEcho
<1>1. IInv => NoEcho
  BY DEF IInv
<1>2. QED
  BY <1>1, Invariance, PTL

(***************************************************************************)
(* What reaches the sink is, task by task, in the order it was written and *)
(* without repetition, however many lines were dropped on the way.         *)
(***************************************************************************)
THEOREM OrderKept == Spec => []RemoteInOrder
<1>1. IInv => RemoteInOrder
  BY DEF IInv, LinesByAge, RemoteInOrder
<1>2. QED
  BY <1>1, Invariance, PTL

-----------------------------------------------------------------------------
(***************************************************************************)
(* No queued line is lost or overtaken: with each step a line stays at its *)
(* place, moves up by one, or is the first and comes to the forwarder's    *)
(* hand, and what the forwarder holds it takes to the sink, whatever is    *)
(* logged meanwhile (system_log.c:52-58, 80-85; the safety that LinesLeave *)
(* stands on).                                                             *)
(***************************************************************************)
LinesMoveUp ==
  [][/\ \A i \in 1 .. Len(queue) :
          \/ i <= Len(queue') /\ queue'[i] = queue[i]
          \/ i > 1 /\ i - 1 <= Len(queue') /\ queue'[i - 1] = queue[i]
          \/ i = 1 /\ held' = queue[1] /\ fwd' = "begin"
     /\ InHand => \/ held' = held /\ InHand'
                  \/ fwd = "sink" /\ remote' \in {remote, Append(remote, held)}]_vars

(***************************************************************************)
(* LinesMoveUp holds in every behaviour, for any lines and any depth of    *)
(* the queue: the worker's receive takes the first line and the callers'   *)
(* sends only add at the end (system_log.c:52-58, 80-85).                  *)
(***************************************************************************)
THEOREM QueuedLinesMoveUp == Spec => LinesMoveUp
<1>1. IInv /\ [Next]_vars =>
        [/\ \A i \in 1 .. Len(queue) :
              \/ i <= Len(queue') /\ queue'[i] = queue[i]
              \/ i > 1 /\ i - 1 <= Len(queue') /\ queue'[i - 1] = queue[i]
              \/ i = 1 /\ held' = queue[1] /\ fwd' = "begin"
         /\ InHand => \/ held' = held /\ InHand'
                      \/ fwd = "sink" /\ remote' \in {remote, Append(remote, held)}]_vars
  <2>1. SUFFICES ASSUME IInv, Next
                 PROVE  /\ \A i \in 1 .. Len(queue) :
                             \/ i <= Len(queue') /\ queue'[i] = queue[i]
                             \/ i > 1 /\ i - 1 <= Len(queue') /\ queue'[i - 1] = queue[i]
                             \/ i = 1 /\ held' = queue[1] /\ fwd' = "begin"
                        /\ InHand => \/ held' = held /\ InHand'
                                     \/ fwd = "sink" /\ remote' \in {remote, Append(remote, held)}
    OBVIOUS
  <2>2. Len(queue) \in Nat /\ queue \in Seq(Lines)
    BY <2>1, LenProperties DEF IInv, TypeOK
  <2>3. CASE queue' = queue
    <3>1. InHand => \/ held' = held /\ InHand'
                    \/ fwd = "sink" /\ remote' \in {remote, Append(remote, held)}
      <4>1. ASSUME NEW t \in Tasks, Serial(t) \/ Logging(t)
            PROVE  held' = held /\ fwd' = fwd
        BY <4>1 DEF Serial, Logging, Test, Send
      <4>2. ASSUME Register \/ Begin PROVE InHand => held' = held /\ InHand'
        BY <4>2 DEF Register, Begin, InHand
      <4>3. ASSUME Receive \/ End PROVE ~InHand
        BY <4>3 DEF Receive, End, InHand
      <4>4. ASSUME Publish PROVE fwd = "sink" /\ remote' \in {remote, Append(remote, held)}
        BY <4>4 DEF Publish
      <4>5. QED
        BY <2>1, <4>1, <4>2, <4>3, <4>4 DEF Next, task_log_forwarder, InHand
    <3>2. QED
      BY <2>2, <2>3, <3>1
  <2>4. ASSUME NEW t \in Tasks, Send(t), queue' # queue
        PROVE  /\ \A i \in 1 .. Len(queue) : i <= Len(queue') /\ queue'[i] = queue[i]
               /\ held' = held /\ fwd' = fwd
    <3>1. /\ queue' = Append(queue, <<t, written[t]>>) /\ pc[t] = "send"
          /\ held' = held /\ fwd' = fwd
      BY <2>4 DEF Send, Enqueue, Drop
    <3>2. <<t, written[t]>> \in Lines
      <4>1. written[t] \in 1 .. MaxLines
        BY <2>1, <3>1, LogAssumption DEF IInv, LinesByAge, TypeOK
      <4>2. QED
        BY <4>1 DEF Lines
    <3>3. /\ Len(queue') = Len(queue) + 1
          /\ \A i \in 1 .. Len(queue) : queue'[i] = queue[i]
      BY <2>2, <3>1, <3>2, AppendProperties
    <3>4. QED
      BY <2>2, <3>1, <3>3
  <2>5. CASE Receive
    <3>1. /\ queue' = Tail(queue) /\ held' = Head(queue) /\ fwd' = "begin" /\ queue # <<>>
          /\ ~InHand
      BY <2>5 DEF Receive, Dequeue, InHand
    <3>2. /\ Len(queue') = Len(queue) - 1 /\ held' = queue[1]
          /\ \A i \in 1 .. Len(queue') : queue'[i] = queue[i + 1]
      BY <2>2, <3>1, HeadTailProperties
    <3>3. ASSUME NEW i \in 1 .. Len(queue), i # 1
          PROVE  i > 1 /\ i - 1 <= Len(queue') /\ queue'[i - 1] = queue[i]
      <4>1. i - 1 \in 1 .. Len(queue') /\ (i - 1) + 1 = i
        BY <2>2, <3>2, <3>3
      <4>2. QED
        BY <3>2, <4>1
    <3>4. QED
      BY <3>1, <3>2, <3>3
  <2>6. ASSUME queue' # queue PROVE Receive \/ \E t \in Tasks : Send(t)
    BY <2>1, <2>6 DEF Next, Register, Serial, Logging, Test, task_log_forwarder, Begin, Publish, End
  <2>7. ASSUME NEW t \in Tasks, Send(t), queue' # queue
        PROVE  InHand => held' = held /\ InHand'
    BY <2>4, <2>7 DEF InHand
  <2>8. QED
    BY <2>3, <2>4, <2>5, <2>6, <2>7
<1>2. QED
  BY <1>1, Invariance, PTL DEF Spec, LinesMoveUp
=============================================================================
