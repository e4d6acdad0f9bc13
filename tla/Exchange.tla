------------------------------ MODULE Exchange ------------------------------
(***************************************************************************)
(* What the programs take the connection of a client to its work server    *)
(* for: requests and answers are datagrams, one at a time, and every       *)
(* request is answered, until the connection is lost.                      *)
(***************************************************************************)
EXTENDS Naturals

CONSTANT MaxAsks    \* bound: requests

VARIABLES wire,     \* what is on its way, kinds and numbers of messages
          asked,    \* requests so far
          lost      \* the connection is lost

Init == wire = {} /\ asked = 0 /\ lost = FALSE

Ask ==
    /\ wire = {}
    /\ asked < MaxAsks
    /\ asked' = asked + 1
    /\ wire' = IF lost THEN {} ELSE {<<"request", asked'>>}
    /\ UNCHANGED lost

Answer ==
    /\ wire = {<<"request", asked>>}
    /\ wire' = {<<"answer", asked>>}
    /\ UNCHANGED <<asked, lost>>

Take ==
    /\ wire = {<<"answer", asked>>}
    /\ wire' = {}
    /\ UNCHANGED <<asked, lost>>

Lose ==
    /\ lost' = TRUE
    /\ wire' \in SUBSET wire
    /\ UNCHANGED asked

Next == Ask \/ Answer \/ Take \/ Lose

Spec == Init /\ [][Next]_<<wire, asked, lost>>
=============================================================================
