---------------------------- MODULE MCMcp23017 ----------------------------
(* The expander with two pins wired on port A and one on port B.           *)
EXTENDS Mcp23017

CONSTANTS p1, p2

PinsWired == [p \in Ports |-> IF p = "A" THEN {p1, p2} ELSE {p1}]
PortMasks == [p \in Ports |-> IF p = "A" THEN {{}} ELSE {{p1}}]

\* Port A all outputs, port B an input with its pull-up.  As a whole port A is written
\* all zeroes and port B all ones, the pins of either any value.
Wiring == {[dir    |-> [p \in Ports |-> IF p = "A" THEN {} ELSE {p1}],
            pullup |-> [p \in Ports |-> IF p = "A" THEN {} ELSE {p1}]]}
===========================================================================
