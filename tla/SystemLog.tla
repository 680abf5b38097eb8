----------------------------- MODULE SystemLog -----------------------------
(***************************************************************************)
(* The logging facade of main/system/system_log.c: the vprintf hook that   *)
(* every task's ESP_LOGx runs through, the queue it copies lines to, the   *)
(* forwarder task that hands them to the remote sink, and the sink of      *)
(* main.c, which publishes a line or drops it.                             *)
(*                                                                         *)
(* The sink itself logs when a publish fails, so the forwarder is both the *)
(* reader of the queue and a writer to it; s_forwarding keeps its lines    *)
(* out.  A line is a pair <<task, n>>, the n-th line of its task.          *)
(*                                                                         *)
(* A definition that stands directly above the one it resembles and is     *)
(* used nowhere is a mistake the code might have made, kept to show which  *)
(* property notices it.                                                    *)
(***************************************************************************)
EXTENDS Sequences, Naturals

CONSTANTS
  Loggers,    \* the tasks that call ESP_LOGx
  Forwarder,  \* task_log_forwarder
  QueueDepth, \* SYSTEM_LOG_QUEUE_DEPTH (16)
  MaxLines    \* bound: how many lines each task logs

Tasks == Loggers \union {Forwarder}
Lines == Tasks \X (1 .. MaxLines)
NoLine == <<Forwarder, 0>>

ASSUME LogAssumption ==
  /\ Forwarder \notin Loggers
  /\ QueueDepth \in Nat \ {0}
  /\ MaxLines \in Nat

VARIABLES
  sink,       \* is s_sink set?
  forwarding, \* s_forwarding
  queue,      \* s_queue
  pc,         \* where each task is in log_vprintf
  written,    \* how many lines each task has written to serial
  fwd,        \* where the forwarder is in its loop
  held,       \* the line it has received
  remote      \* history: the lines published

vars == <<sink, forwarding, queue, pc, written, fwd, held, remote>>

\* system_log_init has returned ESP_OK; on an error app_main aborts.
Init ==
  /\ sink = FALSE
  /\ forwarding = FALSE
  /\ queue = <<>>
  /\ pc = [t \in Tasks |-> "idle"]
  /\ written = [t \in Tasks |-> 0]
  /\ fwd = "receive"
  /\ held = NoLine
  /\ remote = <<>>

\* system_log_register_sink; nothing on the board ever unregisters the sink.
Register ==
  /\ ~sink
  /\ sink' = TRUE
  /\ UNCHANGED <<forwarding, queue, pc, written, fwd, held, remote>>

-----------------------------------------------------------------------------
(***************************************************************************)
(* log_vprintf, in the task that logs.  Serial output comes first; the     *)
(* copy is queued after an unsynchronized look at sink and forwarder.      *)
(***************************************************************************)
Serial(t) ==
  /\ pc[t] = "idle" /\ written[t] < MaxLines
  /\ t = Forwarder => fwd = "published"     \* a publish that failed is logged
  /\ written' = [written EXCEPT ![t] = @ + 1]
  /\ pc' = [pc EXCEPT ![t] = "test"]
  /\ UNCHANGED <<sink, forwarding, queue, fwd, held, remote>>

TakesEcho == sink
Accepts   == sink /\ ~forwarding

\* vsnprintf may have nothing to copy.
Test(t) ==
  /\ pc[t] = "test"
  /\ \/ Accepts /\ pc' = [pc EXCEPT ![t] = "send"]
     \/ pc' = [pc EXCEPT ![t] = "idle"]
  /\ UNCHANGED <<sink, forwarding, queue, written, fwd, held, remote>>

RoomForOneMore == Len(queue) <= QueueDepth
Room           == Len(queue) < QueueDepth

SendToFront(line) == queue' = <<line>> \o queue
Enqueue(line)     == queue' = Append(queue, line)

WaitForRoom(t) == UNCHANGED <<queue, pc>>
Drop(t)        == UNCHANGED queue /\ pc' = [pc EXCEPT ![t] = "idle"]

\* xQueueSend with no wait: a full queue drops the line.
Send(t) ==
  /\ pc[t] = "send"
  /\ \/ Room /\ Enqueue(<<t, written[t]>>) /\ pc' = [pc EXCEPT ![t] = "idle"]
     \/ ~Room /\ Drop(t)
  /\ UNCHANGED <<sink, forwarding, written, fwd, held, remote>>

-----------------------------------------------------------------------------
(***************************************************************************)
(* task_log_forwarder and app_log_sink.                                    *)
(***************************************************************************)
LeaveInQueue == UNCHANGED queue
Dequeue      == queue' = Tail(queue)

Receive ==
  /\ fwd = "receive" /\ queue # <<>>
  /\ held' = Head(queue)
  /\ Dequeue
  /\ fwd' = "begin"
  /\ UNCHANGED <<sink, forwarding, pc, written, remote>>

\* Lines are queued only once the sink is set, so the sink is never NULL here.
Begin ==
  /\ fwd = "begin" /\ sink
  /\ forwarding' = TRUE
  /\ fwd' = "sink"
  /\ UNCHANGED <<sink, queue, pc, written, held, remote>>

\* app_log_sink: dropped unless the board is connected and the client takes it.
Publish ==
  /\ fwd = "sink"
  /\ remote' \in {remote, Append(remote, held)}
  /\ fwd' = "published"
  /\ UNCHANGED <<sink, forwarding, queue, pc, written, held>>

End ==
  /\ fwd = "published" /\ pc[Forwarder] = "idle"
  /\ forwarding' = FALSE
  /\ held' = NoLine
  /\ fwd' = "receive"
  /\ UNCHANGED <<sink, queue, pc, written, remote>>

-----------------------------------------------------------------------------
Logging(t) == Test(t) \/ Send(t)

task_log_forwarder == Receive \/ Begin \/ Publish \/ End

Next ==
  \/ Register
  \/ \E t \in Tasks : Serial(t) \/ Logging(t)
  \/ task_log_forwarder

\* Tasks are scheduled, but a publish may block for as long as the network does.
Fairness ==
  /\ \A t \in Tasks : WF_vars(Logging(t))
  /\ WF_vars(Receive \/ Begin \/ End)

Spec == Init /\ [][Next]_vars /\ Fairness

-----------------------------------------------------------------------------
(***************************************************************************)
(* Type correctness; the queue never outgrows its depth.                   *)
(***************************************************************************)
TypeOK ==
  /\ sink \in BOOLEAN
  /\ forwarding \in BOOLEAN
  /\ queue \in Seq(Lines) /\ Len(queue) <= QueueDepth
  /\ pc \in [Tasks -> {"idle", "test", "send"}]
  /\ written \in [Tasks -> 0 .. MaxLines]
  /\ fwd \in {"receive", "begin", "sink", "published"}
  /\ held \in Lines \union {NoLine}
  /\ remote \in Seq(Lines)

(***************************************************************************)
(* The recursion guard works: no line the forwarder logs while it delivers *)
(* one is ever queued behind it, or every failed publish would produce the *)
(* next line to publish (system_log.c:51, 83-85).                          *)
(***************************************************************************)
NoEcho == \A i \in 1 .. Len(queue) : queue[i][1] # Forwarder

(***************************************************************************)
(* The remote log is a true account: the lines of each task reach the sink *)
(* in the order it wrote them, and none twice, whatever was dropped.       *)
(***************************************************************************)
InOrder(lines) ==
  \A i, j \in 1 .. Len(lines) :
    i < j /\ lines[i][1] = lines[j][1] => lines[i][2] < lines[j][2]

RemoteInOrder == InOrder(remote)

(***************************************************************************)
(* The inductive invariant.  The guard is up exactly while the sink runs,  *)
(* which is the only time the forwarder logs; and a line only ever moves   *)
(* from its task to the queue, to the forwarder, to the sink, so at each   *)
(* place the lines are younger than those further on.                      *)
(***************************************************************************)
GuardCoversSink ==
  /\ forwarding <=> fwd \in {"sink", "published"}
  /\ fwd # "receive" => sink
  /\ queue # <<>> => sink
  /\ \A t \in Tasks : pc[t] = "send" => t # Forwarder /\ sink
  /\ pc[Forwarder] # "idle" => fwd = "published"

InHand == fwd \in {"begin", "sink"}

Younger(l, m) == l[1] = m[1] => l[2] > m[2]

LinesByAge ==
  /\ \A t \in Tasks : pc[t] # "idle" => written[t] > 0
  /\ InOrder(queue)
  /\ InOrder(remote)
  /\ \A i \in 1 .. Len(queue) :
       /\ \A j \in 1 .. Len(remote) : Younger(queue[i], remote[j])
       /\ InHand => Younger(queue[i], held)
       /\ pc[queue[i][1]] # "idle" => queue[i][2] < written[queue[i][1]]
       /\ queue[i][2] <= written[queue[i][1]]
  /\ \A j \in 1 .. Len(remote) :
       /\ InHand => Younger(held, remote[j])
       /\ pc[remote[j][1]] # "idle" => remote[j][2] < written[remote[j][1]]
       /\ remote[j][2] <= written[remote[j][1]]
  /\ InHand =>
       /\ held \in Lines
       /\ pc[held[1]] # "idle" => held[2] < written[held[1]]
       /\ held[2] <= written[held[1]]

IInv == TypeOK /\ GuardCoversSink /\ NoEcho /\ LinesByAge

(***************************************************************************)
(* "so logging never blocks on the sink's transport" (system_log.h:12-13): *)
(* every ESP_LOGx returns, also when the publish in progress never does.   *)
(***************************************************************************)
LoggingReturns == \A t \in Tasks : pc[t] # "idle" ~> pc[t] = "idle"

(***************************************************************************)
(* As long as publishes return, every queued line is handed to the sink:   *)
(* none is stuck in the queue, whatever the loggers do.                    *)
(***************************************************************************)
LinesLeave ==
  []<>(fwd # "sink") =>
    \A l \in Lines : (\E i \in 1 .. Len(queue) : queue[i] = l)
                       ~> ~(\E i \in 1 .. Len(queue) : queue[i] = l)

=============================================================================
