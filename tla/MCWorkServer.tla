---------------------------- MODULE MCWorkServer ----------------------------
EXTENDS WorkServer, TLC

CONSTANTS k1, k2, k3,   \* connections
          c1, c2,       \* children
          p1, p2        \* passwords

Conns2 == {k1, k2}
Conns3 == {k1, k2, k3}
Children1 == {c1}
Children2 == {c1, c2}
Passwords1 == {p1}
Passwords2 == {p1, p2}

SymmetrySessions == Permutations(Conns3) \cup Permutations(Children2)
                        \cup Permutations(Passwords2)
=============================================================================
