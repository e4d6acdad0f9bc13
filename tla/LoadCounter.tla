---------------------------- MODULE LoadCounter ----------------------------
(***************************************************************************)
(* What a work server's connection counter promises: load counts the       *)
(* connections that joined and have not left, every join and leave moves   *)
(* it by exactly one at once, and a heartbeat carries a value the load     *)
(* really had.  The promise ends for good with a disturbance from outside. *)
(* ConnCounter implements it with a semaphore around a read and a write of *)
(* shared memory; a signal that interrupts the wait for the semaphore is   *)
(* the disturbance.                                                        *)
(***************************************************************************)
EXTENDS Integers

CONSTANT Conns          \* the client connections of one machine

VARIABLES members,      \* connections that joined and have not left
          load,         \* how many they are
          reported,     \* the load the last heartbeat carried
          disturbed     \* nothing is promised any more

vars == <<members, load, reported, disturbed>>

Init == members = {} /\ load = 0 /\ reported = 0 /\ disturbed = FALSE

Join(k) ==
    /\ k \notin members
    /\ members' = members \cup {k}
    /\ load' = load + 1
    /\ UNCHANGED reported

Leave(k) ==
    /\ k \in members
    /\ members' = members \ {k}
    /\ load' = load - 1
    /\ UNCHANGED reported

Report ==
    /\ reported' = load
    /\ UNCHANGED <<members, load>>

Kept ==
    /\ ~disturbed /\ ~disturbed'
    /\ (\E k \in Conns : Join(k) \/ Leave(k)) \/ Report

\* From the disturbance on anything goes.
Disturbed == disturbed'

Next == Kept \/ Disturbed

Spec == Init /\ [][Next]_vars
=============================================================================
