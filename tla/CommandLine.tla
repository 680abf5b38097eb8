---------------------------- MODULE CommandLine ----------------------------
(***************************************************************************)
(* What the board promises whoever commands its output: a command that is  *)
(* accepted is applied, once, after those accepted before it and before    *)
(* those accepted later.  How many may be waiting is limited; nothing is   *)
(* said of commands that are not accepted.                                 *)
(***************************************************************************)
EXTENDS Sequences, Naturals

CONSTANTS
  States,  \* of the output
  Initial, \* the one it has at first
  Room     \* how many commands may be waiting

VARIABLES pending, output

vars == <<pending, output>>

Init == pending = <<>> /\ output = Initial

Accept(c) ==
  /\ Len(pending) < Room
  /\ pending' = Append(pending, c)
  /\ UNCHANGED output

Apply ==
  /\ pending # <<>>
  /\ output' = Head(pending)
  /\ pending' = Tail(pending)

Next == Apply \/ \E c \in States : Accept(c)

Spec == Init /\ [][Next]_vars /\ WF_vars(Apply)
=============================================================================
