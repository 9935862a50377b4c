---------------------------- MODULE ReliableLink ----------------------------
(***************************************************************************)
(* What a session promises for vital chunks (docs of NETSENDFLAG_VITAL and *)
(* the code of CNetConnection): two FIFO channels, one per direction.  A    *)
(* channel whose sender had no room to keep a chunk promises only that what *)
(* is delivered was sent.                                                   *)
(***************************************************************************)
EXTENDS Naturals, Sequences

CONSTANT End

VARIABLES
    sent,     \* how many chunks each end has submitted
    unsaved,  \* those the sender could not keep for a resend
    log       \* what each end has been handed

Init ==
    /\ sent = [e \in End |-> 0]
    /\ unsaved = [e \in End |-> {}]
    /\ log = [e \in End |-> <<>>]

Submit(e, kept) ==
    /\ sent' = [sent EXCEPT ![e] = @ + 1]
    /\ unsaved' = [unsaved EXCEPT ![e] = IF kept THEN @ ELSE @ \cup {sent[e] + 1}]
    /\ UNCHANGED log

\* End e is handed a chunk submitted by f: the next one, unless f could not
\* keep one.
Hand(e, f) ==
    \E n \in 1 .. sent[f] :
        /\ unsaved[f] = {} => n = Len(log[e]) + 1
        /\ log' = [log EXCEPT ![e] = Append(@, n)]
        /\ UNCHANGED <<sent, unsaved>>

Next ==
    \E e \in End :
        \/ \E kept \in BOOLEAN : Submit(e, kept)
        \/ \E f \in End \ {e} : Hand(e, f)

Spec == Init /\ [][Next]_<<sent, unsaved, log>>

=============================================================================
