---------------------------- MODULE MCMainWindow ----------------------------
EXTENDS MainWindow

\* At most the first or second exchange of a slot goes wrong.
OneFault == {<<>>} \cup {<<f>> : f \in Fate \ {"ok"}} \cup {<<"ok", "reply_lost">>}
BothReadout == {-1, 0}
=============================================================================
