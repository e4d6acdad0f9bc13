--------------------------- MODULE MCConnCounter ---------------------------
EXTENDS ConnCounter

CONSTANTS c1, c2,               \* child processes
          k1, k2, k3            \* connections

Children2 == {c1, c2}
Conns2 == {k1, k2}
Conns3 == {k1, k2, k3}
=============================================================================
