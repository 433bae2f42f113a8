------------------------------- MODULE MCBoard -------------------------------
(* Small instances of JdrsBoard: the datagrams the PC sends. *)
EXTENDS JdrsBoard

P(k, a, d, l) == [kind |-> k, addr |-> a, data |-> d, len |-> l,
                  alias |-> "nothing", src |-> "PC", broadcast |-> FALSE]

Single == {P("ping", "NONE", 0, 4), P("cntread", "NONE", 0, 4), P("cntreset", "NONE", 0, 4)}
Writes == {P("write", "LED_REG", d, 12) : d \in {0, 1}}
Reads == {P("read", a, 0, 8) : a \in {"LED_REG", "BULK_DATA", "NONE"}}
Bulks == {P("bulk", "NONE", n, 12) : n \in 0..3}

\* Requests that are cut off, bytes that have no meaning, the byte that is swallowed.
Odd == {P("write", "LED_REG", 1, 8), P("read", "LED_REG", 0, 4),
        P("read", "LED_REG", 0, 7), P("bulk", "NONE", 2, 8),
        P("nothing", "NONE", 0, 1), P("drop", "NONE", 0, 4), P("ping", "NONE", 0, 1)}

\* Everything the PC's software sends, and the odd ones.
MCPackets == Single \cup Writes \cup Reads \cup Bulks \cup Odd

\* One of each kind that uses the register or the bulk access, and a bulk request
\* that ends before its word count.
AccessPackets == {P("write", "LED_REG", 1, 12), P("read", "LED_REG", 0, 8),
                  P("bulk", "NONE", 1, 12), P("bulk", "NONE", 0, 4)}
=============================================================================
