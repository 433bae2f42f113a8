--------------------------- MODULE MCAfei3Access ---------------------------
EXTENDS Afei3Access

TwoTdac == [item \in {"TDAC"} |-> {"TDAC0", "TDAC1"}]

Corners == {<<0, 0>>, <<1, 1>>, <<3, 0>>}

\* A position no stream reaches, and no set of columns.
Invalid == {[key |-> {-1}, position |-> 99]}
\* Memory that holds the number of a set of columns.
Chance == {[key |-> {0, 1}, position |-> p] : p \in {0, 99}}
=============================================================================
