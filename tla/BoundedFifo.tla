---------------------------- MODULE BoundedFifo ----------------------------
(***************************************************************************)
(* What a ring buffer promises its users: a queue of items.  Allocate puts *)
(* one in or returns null, Pop takes the oldest.  An item that fits into   *)
(* the memory is refused only without recycling: with it Allocate takes    *)
(* the oldest items out by itself, as many as it likes.                    *)
(***************************************************************************)
EXTENDS Naturals, Sequences

CONSTANTS
    Item,
    Wanted,  \* the sizes asked for
    MemSize  \* the largest size that fits

VARIABLES
    queue,   \* the items, oldest first
    recycle, \* FLAG_RECYCLE
    call     \* the last call: the size asked for, 0 for Pop, and whether it returned null

Returned(w, null) == call' = [wanted |-> w, null |-> null]

Init == queue = <<>> /\ recycle \in BOOLEAN /\ call = [wanted |-> 0, null |-> FALSE]

\* Only a recycling buffer discards, and always the oldest items.
Allocate(w, v) ==
    \E n \in 0 .. Len(queue) :
        /\ w <= MemSize /\ (n > 0 => recycle)
        /\ queue' = Append(SubSeq(queue, n + 1, Len(queue)), v)
        /\ Returned(w, FALSE)

Refuse(w) ==
    /\ w > MemSize \/ ~recycle
    /\ queue' = queue
    /\ Returned(w, TRUE)

Pop == queue # <<>> /\ queue' = Tail(queue) /\ Returned(0, FALSE)

Next ==
    /\ Pop \/ \E w \in Wanted : Refuse(w) \/ \E v \in Item : Allocate(w, v)
    /\ UNCHANGED recycle

Spec == Init /\ [][Next]_<<queue, recycle, call>>

=============================================================================
