----------------------------- MODULE BusContract -----------------------------
(***************************************************************************)
(* What the I2C bus promises the tasks that call it, with everything below *)
(* the mutex left out: a call is let in only while the bus is up, the wire *)
(* has one owner at a time, only the owner can take the bus down or bring  *)
(* it back, and a call that was let in leaves again.  Once the system is   *)
(* running, a bus that is down with no call left inside is down for good.  *)
(***************************************************************************)
CONSTANTS
  Callers, \* the tasks that call the bus
  Nobody   \* the owner of the wire when no caller has it

VARIABLES
  running, \* has app_main created the tasks?
  up,      \* would a call be let in?
  inside,  \* the callers that were let in and have not returned
  owner    \* the caller that has the wire

vars == <<running, up, inside, owner>>

Init ==
  /\ running = FALSE
  /\ up = TRUE
  /\ inside = {}
  /\ owner = Nobody

Admit(c) ==
  /\ up /\ c \notin inside
  /\ inside' = inside \union {c}
  /\ UNCHANGED <<running, up, owner>>

Acquire(c) ==
  /\ c \in inside /\ owner = Nobody
  /\ owner' = c
  /\ UNCHANGED <<running, up, inside>>

\* The owner takes the bus down or brings it back.
Switch(c) ==
  /\ owner = c
  /\ up' = ~up
  /\ UNCHANGED <<running, inside, owner>>

Release(c) ==
  /\ owner = c
  /\ owner' = Nobody
  /\ UNCHANGED <<running, up, inside>>

\* A call returns; if it has the wire it gives it up.
Leave(c) ==
  /\ c \in inside
  /\ inside' = inside \ {c}
  /\ owner' = IF owner = c THEN Nobody ELSE owner
  /\ UNCHANGED <<running, up>>

\* Before the tasks exist, app_main may restart the chip or go on to run.
Restart ==
  /\ ~running /\ inside = {}
  /\ up' = TRUE
  /\ UNCHANGED <<running, inside, owner>>

Start ==
  /\ inside = {}
  /\ running' = TRUE
  /\ UNCHANGED <<up, inside, owner>>

Next ==
  \/ Restart \/ Start
  \/ \E c \in Callers : Admit(c) \/ Acquire(c) \/ Switch(c) \/ Release(c) \/ Leave(c)

Safety == Init /\ [][Next]_vars

Spec == Safety /\ \A c \in Callers : WF_vars(Leave(c))

=============================================================================
