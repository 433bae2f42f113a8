------------------------------ MODULE MCGalUdp ------------------------------
(***************************************************************************)
(* Values for the UDP driver: two registers of two bits, one call of every *)
(* kind, more words asked for than a datagram holds.  A call of these has  *)
(* at most two exchanges (MaxLuck).                                        *)
(***************************************************************************)
EXTENDS MrfGalUdp

CONSTANTS a1, a2, b1, b2

C(op, addr, val, words) == [op |-> op, addr |-> addr, val |-> val, data |-> words]

RegisterCalls ==
    {C("read", a1, {}, <<>>), C("read", a2, {}, <<>>),
     C("write", a1, {b1}, <<>>), C("write", a2, {b1}, <<>>),
     C("or", a1, {b2}, <<>>), C("and", a1, {b1}, <<>>), C("xor", a1, {b1, b2}, <<>>),
     C("writeData", a1, {}, <<{b1}, {b2}>>), C("readData", a1, {}, <<{}, {}>>)}
AllCalls == RegisterCalls \cup {C("bulk", a1, {}, <<{}>>), C("bulk", a1, {}, <<{}, {}, {}, {}>>), C("ping", a1, {}, <<>>)}

\* A good parameter, one with a comma too many, one with an impossible port,
\* one with a part missing.
Params == {<<"ip", "port", "ip", "port">>, <<"ip", "empty", "port", "ip", "port">>,
           <<"ip", "bad", "ip", "port">>, <<"ip", "port", "ip">>}
=============================================================================
