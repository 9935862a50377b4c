----------------------------- MODULE MCNetLink -----------------------------
(* TLC instances of NetLink: how many vital chunks each end sends, and how  *)
(* many datagrams may be in flight towards it.                              *)
EXTENDS NetLink

OneWay2 == [client |-> 2, server |-> 0]
OneWay4 == [client |-> 4, server |-> 0]

OneAndOne == [client |-> 1, server |-> 1]
TwoToServer == [client |-> 1, server |-> 2]
=============================================================================
