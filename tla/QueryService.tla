---------------------------- MODULE QueryService ----------------------------
(***************************************************************************)
(* What CDbConnectionPool promises the game server: queries are answered   *)
(* one at a time, each once, in the order in which they were asked, and    *)
(* when OnShutdown has returned none is left.                              *)
(***************************************************************************)
EXTENDS Naturals, Sequences

CONSTANT Query

VARIABLES
    asked,    \* the queries, in the order they were asked
    answered, \* the numbers of those that were answered, in the order of the answers
    closed    \* OnShutdown has returned

Init == asked = <<>> /\ answered = <<>> /\ closed = FALSE

Ask(q) == ~closed /\ asked' = Append(asked, q) /\ UNCHANGED <<answered, closed>>

\* The oldest query that has no answer yet.
Answer ==
    /\ Len(answered) < Len(asked)
    /\ answered' = Append(answered, Len(answered) + 1)
    /\ UNCHANGED <<asked, closed>>

Close == Len(answered) = Len(asked) /\ closed' = TRUE /\ UNCHANGED <<asked, answered>>

Next == Answer \/ Close \/ \E q \in Query : Ask(q)

Spec == Init /\ [][Next]_<<asked, answered, closed>>

=============================================================================
