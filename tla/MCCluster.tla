------------------------------ MODULE MCCluster ------------------------------
EXTENDS Cluster, TLC

CONSTANTS c1, c2,       \* children of the route server
          a1, a2        \* addresses

Children2 == {c1, c2}
Servers2 == {1, 2}
Clients2 == {11, 12}
Addrs2 == {a1, a2}

\* Two machines; one machine and its second run.
AddrApart == <<a1, a2>>
AddrSame == <<a1, a1>>
=============================================================================
