---------------------------- MODULE MCRouteServer ----------------------------
EXTENDS RouteServer, TLC

CONSTANTS c1, c2,       \* children
          s1, s2,       \* work servers
          q1, q2        \* clients

Children2 == {c1, c2}
Servers1 == {s1}
Servers2 == {s1, s2}
Clients1 == {q1}
Clients2 == {q1, q2}

\* Descriptors that no two children share, and descriptors that they do.
FirstFdApart == (c1 :> 0) @@ (c2 :> 2)
FirstFdShared == (c1 :> 0) @@ (c2 :> 1)
MaxConns21 == (c1 :> 2) @@ (c2 :> 1)

SymmetryServers == Permutations(Servers2)
=============================================================================
