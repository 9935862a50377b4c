---------------------------- MODULE MCNetServer ----------------------------
(* TLC instances of NetServer: which IPs and timeout codes the clients have,  *)
(* how often they connect and how much they say.                              *)
EXTENDS NetServer, TLC

CONSTANTS first, second

OwnIps == [c \in Client |-> c]
OneIp == [c \in Client |-> "ip"]

OneCode == [c \in Client |-> "code"]

Once == [c \in Client |-> 1]
Twice == [c \in Client |-> 2]
FirstOnce == [c \in Client |-> IF c = first THEN 1 ELSE 0]
FirstTwice == [c \in Client |-> IF c = first THEN 2 ELSE 1]

\* Clients with equal bounds, IPs of their own and the same code can be exchanged.
Exchange == Permutations(Client)
=============================================================================
