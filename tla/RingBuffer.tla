----------------------------- MODULE RingBuffer -----------------------------
(***************************************************************************)
(* CRingBufferBase (engine/shared/ringbuffer.cpp): variable-sized items    *)
(* carved out of one piece of memory.  CNetConnection keeps its resend     *)
(* buffer in one; console, chat and graphs keep recycling ones.            *)
(*                                                                         *)
(* Memory is measured in units of sizeof(CItem), to which Init and         *)
(* Allocate round.  A block is known by the address of its header; blocks  *)
(* tile the memory, so the linked list m_pPrev, m_pNext is the order of    *)
(* addresses.  Items carry a value so that the order can be observed.      *)
(***************************************************************************)
EXTENDS Integers, Sequences, SequencesExt

CONSTANTS
    MemSize,  \* m_Size, in units of sizeof(CItem)
    Wanted,   \* the sizes asked for, in units, the header included
    Item,     \* values to tell items apart
    None      \* no item

ASSUME RingBufferAssumption ==
    /\ MemSize \in Nat \ {0}
    /\ Wanted \subseteq Nat \ {0}

VARIABLES
    size,     \* m_Size of the block at each address, 0 where no block starts
    free,     \* m_Free of each block
    value,    \* what the caller stored in each block that is in use
    produce,  \* m_pProduce
    consume,  \* m_pConsume
    recycle,  \* m_Flags & FLAG_RECYCLE
    call      \* history: the last call, the size asked for (0 for PopFirst) and
              \* whether it returned null

vars == <<size, free, value, produce, consume, recycle, call>>

Address == 0 .. MemSize - 1

\* The null pointer.
NoBlock == -1

\* A loop over blocks or items that begins with x: step changes nothing once the loop
\* is over, and there are no more than MemSize blocks.
Loop(step, x) ==
    LET after[n \in 0 .. MemSize] == IF n = 0 THEN x ELSE step[after[n - 1]]
    IN  after[MemSize]

\* The fields PopFirst and MergeBack work on, as one value.
RingType ==
    [size : [Address -> 0 .. MemSize], free : [Address -> BOOLEAN],
     produce : Address, consume : Address]

Ring == [size |-> size, free |-> free, produce |-> produce, consume |-> consume]

IsBlock(r, a) == r.size[a] > 0

\* NextBlock and PrevBlock: the neighbour, around the end of the memory.
NextBlock(r, a) == (a + r.size[a]) % MemSize

PrevBlock(r, a) == CHOOSE b \in Address : IsBlock(r, b) /\ NextBlock(r, b) = a

\* MergeBack: a free block joins a free predecessor (not around the end).
Mergeable(r, a) == r.free[a] /\ a # 0 /\ r.free[PrevBlock(r, a)]

Merged(r, a) == IF Mergeable(r, a) THEN PrevBlock(r, a) ELSE a

\* Mutant: m_pProduce and m_pConsume keep pointing to the merged block.
FollowStale(r, a, p) == p

\* A pointer to a block that is merged follows it.
Follow(r, a, p) == IF p = a THEN Merged(r, a) ELSE p

MergeBack(r, a) ==
    LET b == Merged(r, a)
    IN  IF ~Mergeable(r, a)
        THEN r
        ELSE [size |-> [r.size EXCEPT ![b] = @ + r.size[a], ![a] = 0],
              free |-> r.free,
              produce |-> Follow(r, a, r.produce),
              consume |-> Follow(r, a, r.consume)]

\* m_pConsume = MergeBack(m_pConsume); m_pConsume = NextBlock(m_pConsume);
Advance(r) ==
    LET m == MergeBack(r, r.consume)
    IN  [m EXCEPT !.consume = NextBlock(m, Merged(r, r.consume))]

\* Mutant: m_pConsume may stop on a free block.
SkippableNever(r) == FALSE

\* PopFirst's loop
Skippable(r) == r.free[r.consume] /\ r.consume # r.produce

SkipFree(r) == Loop([s \in RingType |-> IF Skippable(s) THEN Advance(s) ELSE s], r)

\* PopFirst, when m_pConsume is in use
PopFirst(r) ==
    LET done == SkipFree(Advance([r EXCEPT !.free[r.consume] = TRUE]))
    IN  MergeBack(done, done.consume)

\* The block Allocate finds without discarding anything: at m_pProduce, else at
\* the start of the memory.
FindBlock(r, w) ==
    IF r.free[r.produce] /\ r.size[r.produce] >= w
    THEN r.produce
    ELSE IF r.free[r.produce] /\ r.free[0] /\ r.size[0] >= w THEN 0 ELSE NoBlock

\* Mutant: a recycling buffer refuses like any other.
MustPopNever(r, w) == FALSE

\* Allocate's loop: a recycling buffer pops until there is a block.
MustPop(r, w) == FindBlock(r, w) = NoBlock /\ recycle /\ ~r.free[r.consume]

MakeRoom(r, w) == Loop([s \in RingType |-> IF MustPop(s, w) THEN PopFirst(s) ELSE s], r)

\* The rest of Allocate: split off what is not needed, if more than a header.
Carve(r, w) ==
    LET b == FindBlock(r, w)
        split == r.size[b] > w + 1
        cut == IF split
               THEN [r EXCEPT !.size[b + w] = r.size[b] - w, !.size[b] = w,
                              !.free[b + w] = TRUE]
               ELSE r
    IN  [cut EXCEPT !.free[b] = FALSE, !.produce = NextBlock(cut, b)]

-----------------------------------------------------------------------------
\* The ring becomes r, and the items in stored are what its blocks hold.
SetRing(r, stored) ==
    /\ size' = r.size
    /\ free' = r.free
    /\ produce' = r.produce
    /\ consume' = r.consume
    /\ value' = [a \in Address |-> IF r.free[a] THEN None ELSE stored[a]]
    /\ UNCHANGED recycle

Returned(w, null) == call' = [wanted |-> w, null |-> null]

\* Clear
Init ==
    /\ size = [a \in Address |-> IF a = 0 THEN MemSize ELSE 0]
    /\ free = [a \in Address |-> TRUE]
    /\ value = [a \in Address |-> None]
    /\ produce = 0
    /\ consume = 0
    /\ recycle \in BOOLEAN
    /\ call = [wanted |-> 0, null |-> FALSE]

Allocate(w, v) ==
    LET r == MakeRoom(Ring, w)
        b == FindBlock(r, w)
    IN  IF w > MemSize
        THEN UNCHANGED <<size, free, value, produce, consume, recycle>> /\ Returned(w, TRUE)
        ELSE IF b = NoBlock
        THEN SetRing(r, value) /\ Returned(w, TRUE)
        ELSE SetRing(Carve(r, w), [value EXCEPT ![b] = v]) /\ Returned(w, FALSE)

Pop ==
    /\ ~free[consume]
    /\ SetRing(PopFirst(Ring), value)
    /\ Returned(0, FALSE)

Next ==
    \/ \E w \in Wanted, v \in Item : Allocate(w, v)
    \/ Pop

Spec == Init /\ [][Next]_vars

-----------------------------------------------------------------------------
(* Iteration *)

InUse == {a \in Address : IsBlock(Ring, a) /\ ~free[a]}

\* First, Next, Last and Prev: the loops step over free blocks to an item, and
\* return null where they come to m_pProduce.
Passable(r, a) == r.free[a] /\ a # r.produce

Found(r, a) == IF a = r.produce THEN NoBlock ELSE a

FirstItem(r) == IF r.free[r.consume] THEN NoBlock ELSE r.consume

NextItem(r, a) ==
    LET onward == [b \in Address |-> IF Passable(r, b) THEN NextBlock(r, b) ELSE b]
    IN  Found(r, Loop(onward, NextBlock(r, a)))

PrevItem(r, a) ==
    LET back == [b \in Address |-> IF Passable(r, b) THEN PrevBlock(r, b) ELSE b]
    IN  Found(r, Loop(back, PrevBlock(r, a)))

LastItem(r) == PrevItem(r, r.produce)

\* The items a caller visits with First and then Next, or Last and then Prev, until
\* null is returned.
Visit(s, a) == IF a = NoBlock THEN s ELSE Append(s, a)

Walk(r) ==
    LET further == [s \in Seq(Address) |->
                      Visit(s, IF s = <<>> THEN FirstItem(r) ELSE NextItem(r, Last(s)))]
    IN  Loop(further, <<>>)

WalkBack(r) ==
    LET further == [s \in Seq(Address) |->
                      Visit(s, IF s = <<>> THEN LastItem(r) ELSE PrevItem(r, Last(s)))]
    IN  Loop(further, <<>>)

-----------------------------------------------------------------------------
\* Blocks tile the memory and the pointers stand on blocks.
TypeOK ==
    /\ size \in [Address -> 0 .. MemSize]
    /\ free \in [Address -> BOOLEAN]
    /\ value \in [Address -> Item \cup {None}]
    /\ produce \in Address /\ consume \in Address /\ recycle \in BOOLEAN
    /\ call \in [wanted : Wanted \cup {0}, null : BOOLEAN]
    /\ IsBlock(Ring, produce) /\ IsBlock(Ring, consume)

\* First and Next visit every block in use, each once: what Resend and the
\* console backlog rely on.  No item is lost behind m_pConsume or in the gap
\* left at the end of the memory when Allocate wraps.  Last and Prev visit the
\* same blocks in reverse, unless the memory is full: then m_pProduce stands on
\* the oldest item, and Prev takes it for the end (so does Next, but First has
\* visited that item before).
WalkComplete ==
    LET items == Walk(Ring)
    IN  /\ {items[i] : i \in 1 .. Len(items)} = InUse
        /\ WalkBack(Ring) = Reverse(IF free[produce] THEN items ELSE Tail(items))

\* The ring buffer is a FIFO queue of its items in the order of Walk; a
\* recycling buffer never refuses an item that fits into its memory.  No call is a
\* stutter of the queue: each has the effect, and returns, what BoundedFifo allows.
Queue ==
    LET Stored[items \in Seq(Address)] == [i \in 1 .. Len(items) |-> value[items[i]]]
    IN  Stored[Walk(Ring)]

Fifo == INSTANCE BoundedFifo WITH queue <- Queue

ImplementsFifo == Fifo!Init /\ [][Fifo!Next]_vars

-----------------------------------------------------------------------------
(* The inductive invariant behind TypeOK, WalkComplete and ImplementsFifo      *)

\* Where the block ends.
End(r, a) == a + r.size[a]

\* No block reaches into the next one or beyond the end of the memory.
NoOverlap(r) ==
    /\ \A a \in Address : End(r, a) <= MemSize
    /\ \A a, b \in Address : IsBlock(r, a) /\ IsBlock(r, b) /\ a < b => End(r, a) <= b

\* Clear
Cleared ==
    [size |-> [a \in Address |-> IF a = 0 THEN MemSize ELSE 0],
     free |-> [a \in Address |-> TRUE],
     produce |-> 0,
     consume |-> 0]

\* The items q[1] to q[k] follow each other up to high, and q[k + 1] to the last
\* from 0 up to low.  What is left is free: one block from low to the first item,
\* and one from high to the end of the memory.
Layout(r, q, k, low, high) ==
    /\ r \in RingType /\ NoOverlap(r)
    /\ \A i \in 1 .. Len(q) : IsBlock(r, q[i])
    /\ \A i, j \in 1 .. Len(q) : q[i] = q[j] => i = j
    /\ \A i \in 1 .. Len(q) - 1 : q[i + 1] = IF i = k THEN 0 ELSE End(r, q[i])
    /\ high = End(r, q[k])
    /\ low = IF k = Len(q) THEN 0 ELSE End(r, q[Len(q)])
    /\ r.consume = q[1] /\ low <= q[1]
    /\ r.produce = IF k = Len(q) /\ high < MemSize THEN high ELSE low
    /\ low < q[1] => r.free[low] /\ r.size[low] = q[1] - low
    /\ high < MemSize => r.free[high] /\ r.size[high] = MemSize - high
    /\ \A a \in Address : r.free[a] <=> \A i \in 1 .. Len(q) : q[i] # a
    /\ \A a \in Address : r.free[a] /\ IsBlock(r, a) => a = low \/ a = high

\* The ring holds the items q, oldest first.
Holds(r, q) ==
    \/ q = <<>> /\ r = Cleared
    \/ \E k \in 1 .. Len(q), low, high \in 0 .. MemSize : Layout(r, q, k, low, high)

Tiled == Holds(Ring, Walk(Ring))

=============================================================================
