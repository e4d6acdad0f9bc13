------------------------------ MODULE Registry ------------------------------
(***************************************************************************)
(* What the route server's table of work servers promises: a slot is free  *)
(* or names one work server, complete with its address and a load, from    *)
(* the moment it is registered; a report changes the load and nothing      *)
(* else; a departure frees the slot.  RouteServer implements it with       *)
(* separate writes of several processes to shared memory; Cluster is built *)
(* on it.                                                                  *)
(***************************************************************************)
EXTENDS Integers

CONSTANTS Slots,        \* places in the table
          Addrs,        \* addresses of work servers
          Loads,        \* the numbers work servers report
          Free          \* an entry that names nobody

VARIABLE entry          \* entry[f]: Free, or an address and a load

Entries == [addr : Addrs, load : Loads] \cup {Free}

Init == entry = [f \in Slots |-> Free]

Register(f, a, n) ==
    /\ entry[f] = Free
    /\ entry' = [entry EXCEPT ![f] = [addr |-> a, load |-> n]]

Update(f, n) ==
    /\ entry[f] # Free
    /\ entry' = [entry EXCEPT ![f].load = n]

Remove(f) ==
    /\ entry[f] # Free
    /\ entry' = [entry EXCEPT ![f] = Free]

Occupied == {f \in Slots : entry[f] # Free}

\* The slots a client may be sent to.
LeastLoaded ==
    {f \in Occupied : \A g \in Occupied : entry[f].load <= entry[g].load}

Next ==
    \E f \in Slots :
        \/ \E n \in Loads :
              Update(f, n) \/ \E a \in Addrs : Register(f, a, n)
        \/ Remove(f)

Spec == Init /\ [][Next]_entry
=============================================================================
