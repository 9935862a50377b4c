-------------------------- MODULE RingBufferProofs --------------------------
(***************************************************************************)
(* Proofs about RingBuffer, for every size of the memory and of the items: *)
(* how items and free blocks lie in the memory (Layout), what PopFirst and *)
(* Allocate make of it, that First, Next, Last and Prev visit every item,  *)
(* and that the ring buffer implements BoundedFifo.                        *)
(***************************************************************************)
EXTENDS RingBuffer, SequenceTheorems, FiniteSetTheorems, WellFoundedInduction, TLAPS

-----------------------------------------------------------------------------
(* Induction and loops *)

\* What takes the place of induction: a set of numbers has a least element.
LEMMA LeastNumber ==
    ASSUME NEW T, T \subseteq Nat, T # {}
    PROVE  \E m \in T : \A k \in T : m <= k
<1>1. PICK m \in T : \A k \in T : ~(<<k, m>> \in OpToRel(<, Nat))
  BY NatLessThanWellFounded, WFMin, Zenon
<1>2. ASSUME NEW k \in T
      PROVE  m <= k
  <2>1. <<k, m>> \in OpToRel(<, Nat) <=> k < m
    BY DEF OpToRel
  <2>2. k \in Nat /\ m \in Nat /\ ~(k < m)
    BY <1>1, <2>1
  <2> QED
    BY <2>2
<1> QED
  BY <1>2

\* The values of a loop, turn by turn.
Turns(g, step, x) == g = [n \in 0 .. MemSize |-> IF n = 0 THEN x ELSE step[g[n - 1]]]

\* They are determined by the first and by what one turn does.
LEMMA TurnsUnique ==
    ASSUME NEW step, NEW x, NEW f, NEW g, Turns(f, step, x), Turns(g, step, x)
    PROVE  \A n \in 0 .. MemSize : f[n] = g[n]
<1> DEFINE T == {n \in 0 .. MemSize : f[n] # g[n]}
<1>1. SUFFICES ASSUME T # {}
               PROVE  FALSE
  OBVIOUS
<1>2. PICK m \in T : \A k \in T : m <= k
  <2>1. T \subseteq Nat
    BY RingBufferAssumption
  <2> HIDE DEF T
  <2> QED
    BY <1>1, <2>1, LeastNumber
<1>3. m \in 0 .. MemSize /\ f[m] # g[m] /\ MemSize \in Nat
  BY RingBufferAssumption
<1>4. m # 0
  BY <1>3 DEF Turns
<1>5. m - 1 \in 0 .. MemSize /\ ~(m <= m - 1)
  BY <1>3, <1>4
<1>6. f[m - 1] = g[m - 1]
  BY <1>2, <1>5
<1>7. f[m] = step[f[m - 1]] /\ g[m] = step[g[m - 1]]
  BY <1>3, <1>4 DEF Turns
<1> QED
  BY <1>3, <1>6, <1>7

LEMMA LoopIs ==
    ASSUME NEW step, NEW x, NEW g, Turns(g, step, x)
    PROVE  Loop(step, x) = g[MemSize]
<1> DEFINE f == CHOOSE h : Turns(h, step, x)
<1>1. Turns(f, step, x)
  OBVIOUS
<1>2. Loop(step, x) = f[MemSize]
  BY DEF Loop, Turns
<1>3. MemSize \in 0 .. MemSize
  BY RingBufferAssumption
<1> HIDE DEF f
<1> QED
  BY <1>1, <1>2, <1>3, TurnsUnique

\* A loop that is over after one turn at most.
LEMMA LoopOnce ==
    ASSUME NEW step, NEW x, step[step[x]] = step[x]
    PROVE  Loop(step, x) = step[x]
<1> DEFINE g == [n \in 0 .. MemSize |-> IF n = 0 THEN x ELSE step[x]]
<1>1. MemSize \in 0 .. MemSize /\ MemSize # 0 /\ 0 \in 0 .. MemSize
  BY RingBufferAssumption
<1>2. ASSUME NEW n \in 0 .. MemSize, n # 0
      PROVE  step[g[n - 1]] = step[x]
  <2>1. n - 1 \in 0 .. MemSize
    BY <1>1, <1>2
  <2>2. g[n - 1] = x \/ g[n - 1] = step[x]
    BY <2>1
  <2> QED
    BY <2>2
<1>3. Turns(g, step, x)
  BY <1>2 DEF Turns
<1>4. g[MemSize] = step[x]
  BY <1>1
<1> HIDE DEF g
<1> QED
  BY <1>3, <1>4, LoopIs

-----------------------------------------------------------------------------
(* Neighbours *)

LEMMA Remainder ==
    ASSUME NEW x \in 0 .. MemSize
    PROVE  x % MemSize = IF x = MemSize THEN 0 ELSE x
BY RingBufferAssumption

LEMMA NextIs ==
    ASSUME NEW r \in RingType, NoOverlap(r), NEW a \in Address
    PROVE  /\ NextBlock(r, a) = IF End(r, a) = MemSize THEN 0 ELSE End(r, a)
           /\ NextBlock(r, a) \in Address /\ End(r, a) \in 0 .. MemSize
           /\ IsBlock(r, a) => End(r, a) \in 1 .. MemSize
<1>1. r.size[a] \in 0 .. MemSize /\ MemSize \in Nat \ {0} /\ a \in 0 .. MemSize - 1
  BY RingBufferAssumption DEF RingType, Address
<1>2. End(r, a) \in 0 .. MemSize
  BY <1>1 DEF NoOverlap, End
<1>3. NextBlock(r, a) = IF End(r, a) = MemSize THEN 0 ELSE End(r, a)
  BY <1>2, Remainder DEF NextBlock, End
<1> QED
  BY <1>1, <1>2, <1>3 DEF Address, IsBlock, End

\* A block has one predecessor.
LEMMA PrevIs ==
    ASSUME NEW r \in RingType, NoOverlap(r), NEW b \in Address, IsBlock(r, b)
    PROVE  PrevBlock(r, NextBlock(r, b)) = b
<1>1. SUFFICES ASSUME NEW d \in Address, IsBlock(r, d), NextBlock(r, d) = NextBlock(r, b)
               PROVE  d = b
  BY DEF PrevBlock
<1>2. End(r, d) = End(r, b)
  BY <1>1, NextIs
<1>3. /\ b \in Int /\ d \in Int /\ b < End(r, b) /\ d < End(r, d)
      /\ d < b => End(r, d) <= b
      /\ b < d => End(r, b) <= d
  BY <1>1, RingBufferAssumption, SMTT(20) DEF NoOverlap, End, IsBlock, RingType, Address
<1>4. End(r, b) \in Int
  BY NextIs
<1> QED
  BY <1>2, <1>3, <1>4

\* MergeBack of a free block behind a free block ...
LEMMA MergeIs ==
    ASSUME NEW r \in RingType, NoOverlap(r), NEW b \in Address, NEW a \in Address,
           IsBlock(r, b), End(r, b) = a, r.free[a], r.free[b]
    PROVE  /\ Merged(r, a) = b
           /\ MergeBack(r, a) = [size |-> [r.size EXCEPT ![b] = @ + r.size[a], ![a] = 0],
                                 free |-> r.free,
                                 produce |-> IF r.produce = a THEN b ELSE r.produce,
                                 consume |-> IF r.consume = a THEN b ELSE r.consume]
<1>1. a # MemSize /\ a # 0
  BY NextIs, RingBufferAssumption DEF Address
<1>2. PrevBlock(r, a) = b
  BY <1>1, NextIs, PrevIs
<1>3. Mergeable(r, a) /\ Merged(r, a) = b
  BY <1>1, <1>2 DEF Mergeable, Merged
<1> QED
  BY <1>3 DEF MergeBack, Follow

\* ... and of a block that cannot be merged.
LEMMA MergeNot ==
    ASSUME NEW r, NEW a, ~r.free[a] \/ a = 0 \/ ~r.free[PrevBlock(r, a)]
    PROVE  MergeBack(r, a) = r /\ Merged(r, a) = a
BY DEF MergeBack, Merged, Mergeable

\* No block begins inside another.
LEMMA Inside ==
    ASSUME NEW r \in RingType, NoOverlap(r), NEW b \in Address, IsBlock(r, b),
           NEW a \in Address, b < a, a < End(r, b)
    PROVE  r.size[a] = 0
<1>1. ~IsBlock(r, a)
  <2>1. a \in Int /\ End(r, b) \in Int
    BY NextIs DEF Address
  <2> QED
    BY <2>1 DEF NoOverlap
<1>2. r.size[a] \in 0 .. MemSize
  BY DEF RingType
<1> QED
  BY <1>1, <1>2, RingBufferAssumption DEF IsBlock

-----------------------------------------------------------------------------
(* Layout *)

LEMMA LayoutFacts ==
    ASSUME NEW r, NEW q \in Seq(Address), NEW k \in 1 .. Len(q), NEW low, NEW high,
           Layout(r, q, k, low, high)
    PROVE  /\ Len(q) \in Nat /\ 1 \in 1 .. Len(q) /\ Len(q) \in 1 .. Len(q)
           /\ \A i \in 1 .. Len(q) :
                 /\ q[i] \in Address /\ ~r.free[q[i]] /\ IsBlock(r, q[i])
                 /\ q[i] \in 0 .. MemSize - 1 /\ End(r, q[i]) \in 1 .. MemSize
                 /\ q[i] < End(r, q[i])
           /\ low \in 0 .. q[1] /\ low \in Address /\ low < MemSize
           /\ high \in 1 .. MemSize /\ (high < MemSize => high \in Address)
           /\ low # high
           /\ low = q[1] => ~r.free[low]
<1>0. r \in RingType /\ NoOverlap(r) /\ MemSize \in Nat \ {0}
  BY RingBufferAssumption DEF Layout
<1>1. Len(q) \in Nat /\ 1 \in 1 .. Len(q) /\ Len(q) \in 1 .. Len(q)
  OBVIOUS
<1>2. ASSUME NEW i \in 1 .. Len(q)
      PROVE  /\ q[i] \in Address /\ ~r.free[q[i]] /\ IsBlock(r, q[i])
             /\ q[i] \in 0 .. MemSize - 1 /\ End(r, q[i]) \in 1 .. MemSize
             /\ q[i] < End(r, q[i])
  <2>1. q[i] \in Address
    OBVIOUS
  <2>2. IsBlock(r, q[i]) /\ ~r.free[q[i]]
    BY <2>1 DEF Layout
  <2>3. End(r, q[i]) \in 1 .. MemSize
    BY <1>0, <2>1, <2>2, NextIs
  <2>4. r.size[q[i]] \in 0 .. MemSize
    BY <1>0, <2>1 DEF RingType
  <2> QED
    BY <1>0, <2>1, <2>2, <2>3, <2>4, SMTT(20) DEF Address, End, IsBlock
<1>3. low \in 0 .. q[1]
  <2>1. low \in Nat /\ low <= q[1]
    BY <1>1, <1>2 DEF Layout
  <2> QED
    BY <1>1, <1>2, <2>1
<1>4. low \in Address /\ low < MemSize
  BY <1>0, <1>1, <1>2, <1>3 DEF Address
<1>5. high \in 1 .. MemSize
  BY <1>2 DEF Layout
<1>6. high < MemSize => high \in Address
  BY <1>0, <1>5 DEF Address
<1>7. low = q[1] => ~r.free[low]
  BY <1>1, <1>2
<1>8. low # high
  <2>1. SUFFICES ASSUME low = high
                 PROVE  FALSE
    OBVIOUS
  <2>2. high < MemSize /\ r.free[low]
    BY <1>4, <2>1 DEF Layout
  <2>3. low # q[1]
    BY <1>7, <2>2
  <2>4. r.size[low] = q[1] - low /\ r.size[low] = MemSize - low
    BY <1>1, <1>2, <1>3, <2>1, <2>2, <2>3 DEF Layout
  <2> QED
    BY <1>0, <1>1, <1>2, <1>3, <2>4
<1> QED
  BY <1>1, <1>2, <1>3, <1>4, <1>5, <1>6, <1>7, <1>8

-----------------------------------------------------------------------------
(* PopFirst *)

\* PopFirst sets m_Free of the oldest item.
Freed(r) == [r EXCEPT !.free[r.consume] = TRUE]

\* What comes of it: one free block from low to top.
Joined(r, low, top, p, c) ==
    [size |-> [a \in Address |-> IF a = low THEN top - low
                                 ELSE IF low < a /\ a < top THEN 0 ELSE r.size[a]],
     free |-> Freed(r).free,
     produce |-> p,
     consume |-> c]

LEMMA FreedFacts ==
    ASSUME NEW r \in RingType, NoOverlap(r)
    PROVE  /\ Freed(r) \in RingType /\ NoOverlap(Freed(r))
           /\ Freed(r).size = r.size /\ Freed(r).produce = r.produce
           /\ Freed(r).consume = r.consume
           /\ \A a \in Address : Freed(r).free[a] = IF a = r.consume THEN TRUE ELSE r.free[a]
           /\ \A a \in Address : /\ End(Freed(r), a) = End(r, a)
                                 /\ IsBlock(Freed(r), a) = IsBlock(r, a)
                                 /\ NextBlock(Freed(r), a) = NextBlock(r, a)
<1>1. /\ Freed(r) \in RingType /\ Freed(r).size = r.size /\ Freed(r).produce = r.produce
      /\ Freed(r).consume = r.consume
      /\ \A a \in Address : Freed(r).free[a] = IF a = r.consume THEN TRUE ELSE r.free[a]
  BY DEF Freed, RingType
<1>2. \A a \in Address : /\ End(Freed(r), a) = End(r, a)
                         /\ IsBlock(Freed(r), a) = IsBlock(r, a)
                         /\ NextBlock(Freed(r), a) = NextBlock(r, a)
  BY <1>1 DEF End, IsBlock, NextBlock
<1>3. NoOverlap(Freed(r))
  BY <1>2 DEF NoOverlap
<1> QED
  BY <1>1, <1>2, <1>3

LEMMA AdvanceFirst ==
    ASSUME NEW r, NEW q \in Seq(Address), NEW k \in 1 .. Len(q), NEW low, NEW high,
           Layout(r, q, k, low, high)
    PROVE  Advance(Freed(r)) = Joined(r, low, End(r, q[1]), r.produce, NextBlock(r, q[1]))
<1> DEFINE s == Freed(r)
           c == q[1]
           e == End(r, c)
           m == MergeBack(s, c)
<1>0. r \in RingType /\ NoOverlap(r) /\ r.consume = c /\ MemSize \in Nat \ {0}
  BY RingBufferAssumption DEF Layout
<1>1. /\ s \in RingType /\ NoOverlap(s) /\ s.size = r.size /\ s.produce = r.produce
      /\ s.consume = c
      /\ \A a \in Address : s.free[a] = IF a = c THEN TRUE ELSE r.free[a]
      /\ \A a \in Address : End(s, a) = End(r, a) /\ IsBlock(s, a) = IsBlock(r, a) /\ NextBlock(s, a) = NextBlock(r, a)
  BY <1>0, FreedFacts
<1>2. /\ c \in Address /\ IsBlock(r, c) /\ c \in 0 .. MemSize - 1 /\ e \in 1 .. MemSize /\ c < e
      /\ low \in 0 .. c /\ low \in Address /\ e = c + r.size[c]
      /\ 1 \in 1 .. Len(q) /\ Len(q) \in 1 .. Len(q)
  BY LayoutFacts DEF End
<1>3. r.size \in [Address -> 0 .. MemSize] /\ Address \subseteq Int
  BY <1>0, SMTT(20) DEF RingType, Address
<1>4. \A a \in Address : c < a /\ a < e => r.size[a] = 0
  BY <1>0, <1>2, Inside
<1>5. Advance(s) = [m EXCEPT !.consume = NextBlock(m, Merged(s, c))]
  BY <1>1 DEF Advance
<1> DEFINE j == Joined(r, low, e, r.produce, NextBlock(r, c))
<1>a. /\ j.free = s.free /\ j.produce = r.produce /\ j.consume = NextBlock(r, c)
      /\ j.size = [a \in Address |-> IF a = low THEN e - low
                                     ELSE IF low < a /\ a < e THEN 0 ELSE r.size[a]]
  BY DEF Joined
<1>6. CASE low < c
  <2>1. r.free[low] /\ r.size[low] = c - low
    BY <1>6 DEF Layout
  <2>2. IsBlock(r, low) /\ End(r, low) = c
    BY <1>2, <1>3, <1>6, <2>1 DEF IsBlock, End
  <2>3. s.free[c] /\ s.free[low] /\ IsBlock(s, low) /\ End(s, low) = c
    BY <1>1, <1>2, <2>1, <2>2
  <2>4. /\ Merged(s, c) = low
        /\ m = [size |-> [s.size EXCEPT ![low] = @ + s.size[c], ![c] = 0],
                free |-> s.free,
                produce |-> IF s.produce = c THEN low ELSE s.produce,
                consume |-> IF s.consume = c THEN low ELSE s.consume]
    BY <1>1, <1>2, <2>3, MergeIs
  <2>5. r.produce # c
    <3>1. r.produce \in {low, high} /\ (r.produce = high => high < MemSize)
      BY LayoutFacts DEF Layout
    <3>2. high < MemSize => r.free[high]
      BY DEF Layout
    <3>3. ~r.free[c]
      BY LayoutFacts
    <3> QED
      BY <2>1, <3>1, <3>2, <3>3
  <2>6. \A a \in Address : low < a /\ a < c => r.size[a] = 0
    BY <1>0, <1>2, <2>2, Inside
  <2>7. m.size = j.size
    <3>1. m.size = [a \in Address |-> IF a = c THEN 0 ELSE IF a = low THEN r.size[low] + r.size[c] ELSE r.size[a]]
      <4>1. m.size = [r.size EXCEPT ![low] = @ + r.size[c], ![c] = 0]
        BY <1>1, <2>4
      <4>2. low # c /\ low \in Address /\ c \in Address
        BY <1>2, <1>6
      <4> HIDE DEF m, c
      <4> QED
        BY <1>3, <4>1, <4>2
    <3>2. ASSUME NEW a \in Address
          PROVE  (IF a = c THEN 0 ELSE IF a = low THEN r.size[low] + r.size[c] ELSE r.size[a])
                 = (IF a = low THEN e - low ELSE IF low < a /\ a < e THEN 0 ELSE r.size[a])
      <4>1. /\ a \in Int /\ r.size[c] \in Int /\ c \in Int /\ low \in Int /\ e \in Int
            /\ c < e /\ e = c + r.size[c]
        BY <1>2, <1>3
      <4>2. c < a /\ a < e => r.size[a] = 0
        BY <1>4
      <4>3. low < a /\ a < c => r.size[a] = 0
        BY <2>6
      <4>4. low < c /\ r.size[low] = c - low
        BY <1>6, <2>1
      <4> HIDE DEF e, c
      <4> QED
        BY <4>1, <4>2, <4>3, <4>4
    <3> QED
      BY <1>a, <3>1, <3>2
  <2>8. NextBlock(m, low) = NextBlock(r, c)
    <3>1. m.size[low] = e - low
      BY <1>2, <1>a, <2>7
    <3>2. low + m.size[low] = c + r.size[c]
      BY <1>2, <3>1
    <3> QED
      BY <3>2 DEF NextBlock
  <2>9. Advance(s) = [size |-> m.size, free |-> s.free, produce |-> r.produce, consume |-> NextBlock(r, c)]
    BY <1>1, <1>5, <2>4, <2>5, <2>8
  <2> QED
    BY <2>7, <2>9 DEF Joined
<1>7. CASE low = c
  <2>1. m = s /\ Merged(s, c) = c
    <3>1. CASE c = 0
      BY <3>1, MergeNot
    <3>2. CASE c # 0
      <4>1. k # Len(q) /\ End(r, q[Len(q)]) = c
        BY <1>7, <3>2 DEF Layout
      <4>2. Len(q) # 1 /\ q[Len(q)] # c
        BY <1>2, <4>1 DEF Layout
      <4>3. q[Len(q)] \in Address /\ IsBlock(r, q[Len(q)]) /\ ~r.free[q[Len(q)]]
        BY LayoutFacts
      <4>4. NextBlock(s, q[Len(q)]) = c
        <5>1. c # MemSize
          BY <1>2, RingBufferAssumption
        <5>2. NextBlock(r, q[Len(q)]) = c
          BY <1>0, <4>1, <4>3, <5>1, NextIs
        <5> QED
          BY <1>1, <4>3, <5>2
      <4>5. PrevBlock(s, c) = q[Len(q)]
        BY <1>1, <4>3, <4>4, PrevIs
      <4>6. ~s.free[PrevBlock(s, c)]
        BY <1>1, <4>2, <4>3, <4>5
      <4> QED
        BY <4>6, MergeNot
    <3> QED
      BY <3>1, <3>2
  <2>2. Advance(s) = [size |-> s.size, free |-> s.free, produce |-> r.produce, consume |-> NextBlock(r, c)]
    <3>1. s \in RingType /\ NextBlock(s, c) = NextBlock(r, c) /\ s.produce = r.produce
      BY <1>1, <1>2
    <3>2. Advance(s) = [s EXCEPT !.consume = NextBlock(r, c)]
      BY <1>5, <2>1, <3>1
    <3> HIDE DEF s
    <3> QED
      BY <3>1, <3>2 DEF RingType
  <2>3. s.size = j.size
    <3>1. ASSUME NEW a \in Address
          PROVE  r.size[a] = (IF a = low THEN e - low ELSE IF low < a /\ a < e THEN 0 ELSE r.size[a])
      <4>1. a \in Int /\ r.size[c] \in Int /\ c \in Int
        BY <1>2, <1>3
      <4> QED
        BY <1>2, <1>4, <1>7, <4>1
    <3> QED
      BY <1>1, <1>3, <1>a, <3>1
  <2> QED
    BY <2>2, <2>3 DEF Joined
<1> QED
  BY <1>2, <1>6, <1>7

CanJoin(r, low, top) ==
    /\ r \in RingType /\ NoOverlap(r)
    /\ low \in Address /\ IsBlock(r, low)
    /\ top \in 1 .. MemSize /\ low < top

\* The blocks other than those between low and top stay.
IsJoined(r, low, top, j) ==
    /\ j \in RingType /\ NoOverlap(j) /\ IsBlock(j, low) /\ End(j, low) = top
    /\ \A a \in Address : a < low \/ top <= a => j.size[a] = r.size[a]
    /\ \A a \in Address : low < a /\ a < top => ~IsBlock(j, a)
    /\ \A a \in Address : j.free[a] = IF a = r.consume THEN TRUE ELSE r.free[a]

LEMMA JoinedFacts ==
    ASSUME NEW r, NEW low, NEW top, NEW p \in Address, NEW c \in Address,
           CanJoin(r, low, top)
    PROVE  IsJoined(r, low, top, Joined(r, low, top, p, c))
<1> DEFINE j == Joined(r, low, top, p, c)
<1>z. /\ r \in RingType /\ NoOverlap(r) /\ low \in Address /\ IsBlock(r, low)
      /\ top \in 1 .. MemSize /\ low < top
  BY DEF CanJoin
<1>0. MemSize \in Nat \ {0} /\ Address \subseteq Int /\ r.size \in [Address -> 0 .. MemSize]
  BY <1>z, RingBufferAssumption DEF RingType, Address
<1>1. \A a \in Address : j.size[a] = IF a = low THEN top - low
                                     ELSE IF low < a /\ a < top THEN 0 ELSE r.size[a]
  BY DEF Joined
<1>2. \A a \in Address : j.size[a] \in 0 .. MemSize
  <2>1. top - low \in 0 .. MemSize /\ 0 \in 0 .. MemSize
    BY <1>z, <1>0 DEF Address
  <2> QED
    BY <1>z, <1>0, <1>1, <2>1
<1>3. j \in RingType
  <2>1. j.free \in [Address -> BOOLEAN]
    BY <1>z, FreedFacts DEF Joined, RingType
  <2>2. j.size \in [Address -> 0 .. MemSize]
    BY <1>z, <1>2 DEF Joined
  <2> QED
    BY <2>1, <2>2 DEF Joined, RingType
<1>4. \A a \in Address : j.free[a] = IF a = r.consume THEN TRUE ELSE r.free[a]
  BY <1>z, FreedFacts DEF Joined
<1>5. \A a \in Address : a < low \/ top <= a => j.size[a] = r.size[a]
  BY <1>z, <1>0, <1>1
<1>6. j.size[low] = top - low /\ \A a \in Address : low < a /\ a < top => j.size[a] = 0
  BY <1>z, <1>0, <1>1
<1>7. IsBlock(j, low) /\ End(j, low) = top
  BY <1>z, <1>0, <1>6 DEF IsBlock, End
<1>8. \A a \in Address : low < a /\ a < top => ~IsBlock(j, a)
  BY <1>z, <1>6 DEF IsBlock
<1>9. NoOverlap(j)
  <2>1. \A a \in Address : End(j, a) <= MemSize
    <3>1. SUFFICES ASSUME NEW a \in Address
                   PROVE  End(j, a) <= MemSize
      OBVIOUS
    <3>2. a \in Int /\ a <= MemSize /\ End(r, a) <= MemSize
      BY <1>z, <1>0 DEF NoOverlap, Address
    <3>3. j.size[a] \in {0, r.size[a]} \/ a = low
      BY <1>z, <1>1
    <3> QED
      BY <1>z, <1>0, <1>7, <3>2, <3>3 DEF End
  <2>2. ASSUME NEW a \in Address, NEW b \in Address, IsBlock(j, a), IsBlock(j, b), a < b
        PROVE  End(j, a) <= b
    <3>1. a \in Int /\ b \in Int /\ low \in Int
      BY <1>z, <1>0
    <3>2. CASE a = low
      BY <1>z, <1>7, <1>8, <2>2, <3>1, <3>2
    <3>3. CASE b = low
      <4>1. j.size[a] = r.size[a]
        BY <1>z, <1>5, <2>2, <3>3
      <4>2. IsBlock(r, a) /\ End(j, a) = End(r, a)
        BY <2>2, <4>1 DEF IsBlock, End
      <4> QED
        BY <1>z, <2>2, <3>3, <4>2 DEF NoOverlap
    <3>4. CASE a # low /\ b # low
      <4>1. j.size[a] = r.size[a] /\ j.size[b] = r.size[b]
        BY <1>z, <1>5, <1>8, <2>2, <3>1, <3>4
      <4>2. IsBlock(r, a) /\ IsBlock(r, b) /\ End(j, a) = End(r, a)
        BY <2>2, <4>1 DEF IsBlock, End
      <4> QED
        BY <1>z, <2>2, <4>2 DEF NoOverlap
    <3> QED
      BY <3>2, <3>3, <3>4
  <2> QED
    BY <2>1, <2>2 DEF NoOverlap
<1> QED
  BY <1>3, <1>4, <1>5, <1>7, <1>8, <1>9 DEF IsJoined

\* The free block before the first item and the item lie side by side.
LEMMA Behind ==
    ASSUME NEW r, NEW q \in Seq(Address), NEW k \in 1 .. Len(q), NEW low, NEW high,
           Layout(r, q, k, low, high)
    PROVE  /\ IsBlock(r, low)
           /\ \A a \in Address : IsBlock(r, a) /\ a # low /\ a # q[1] =>
                 a < low \/ End(r, q[1]) <= a
           /\ high < MemSize =>
                 /\ IsBlock(r, high) /\ End(r, high) = MemSize /\ high # q[1]
                 /\ \A a \in Address : IsBlock(r, a) => a <= high
<1>0. r \in RingType /\ NoOverlap(r) /\ Address \subseteq Int
  BY DEF Layout, Address
<1>1. /\ q[1] \in Address /\ IsBlock(r, q[1]) /\ ~r.free[q[1]] /\ low \in Address
      /\ low \in 0 .. q[1] /\ high \in 1 .. MemSize /\ (high < MemSize => high \in Address)
  BY LayoutFacts
<1>a. /\ q[1] \in Int /\ low \in Int /\ low <= q[1] /\ high \in Int /\ End(r, q[1]) \in Int
      /\ MemSize \in Int
  <2>1. End(r, q[1]) \in 0 .. MemSize
    BY <1>0, <1>1, NextIs
  <2>2. q[1] \in Int /\ MemSize \in Int
    <3>1. q[1] \in Address /\ Address \subseteq Int
      BY <1>0, <1>1, Zenon
    <3>2. q[1] \in Int
      BY <3>1, Zenon
    <3> QED
      BY <3>2, RingBufferAssumption
  <2>3. low \in Int /\ low <= q[1]
    BY <1>1, <2>2
  <2>4. high \in Int
    BY <1>1, <2>2
  <2>5. End(r, q[1]) \in Int
    BY <2>1, <2>2
  <2> QED
    BY <2>2, <2>3, <2>4, <2>5
<1>2. low < q[1] => IsBlock(r, low) /\ End(r, low) = q[1]
  <2>1. low < q[1] => r.size[low] = q[1] - low
    BY DEF Layout
  <2> QED
    BY <1>a, <2>1 DEF IsBlock, End
<1>3. IsBlock(r, low)
  BY <1>1, <1>2, <1>a
<1>4. ASSUME NEW a \in Address, IsBlock(r, a), a # low, a # q[1]
      PROVE  a < low \/ End(r, q[1]) <= a
  <2>1. q[1] < a => End(r, q[1]) <= a
    BY <1>0, <1>1, <1>4 DEF NoOverlap
  <2>2. low < a /\ low < q[1] => q[1] <= a
    BY <1>0, <1>2, <1>4, <1>1 DEF NoOverlap
  <2>3. a \in Int
    BY <1>0
  <2> QED
    BY <1>4, <1>a, <2>1, <2>2, <2>3
<1>5. ASSUME high < MemSize
      PROVE  /\ IsBlock(r, high) /\ End(r, high) = MemSize /\ high # q[1]
             /\ \A a \in Address : IsBlock(r, a) => a <= high
  <2>1. r.free[high] /\ r.size[high] = MemSize - high /\ high \in Address
    BY <1>1, <1>5 DEF Layout
  <2>2. IsBlock(r, high) /\ End(r, high) = MemSize
    BY <1>5, <1>a, <2>1 DEF IsBlock, End
  <2>3. ASSUME NEW a \in Address, IsBlock(r, a), ~(a <= high)
        PROVE  FALSE
    <3>1. high < a
      BY <1>0, <2>1, <2>3
    <3>2. End(r, high) <= a
      BY <2>1, <2>2, <2>3, <3>1 DEF NoOverlap, Layout
    <3> QED
      BY <1>a, <2>2, <3>2 DEF Address
  <2> QED
    BY <1>1, <2>1, <2>2, <2>3
<1> QED
  BY <1>3, <1>4, <1>5

\* The loop of PopFirst stops at once at an item, or at m_pProduce.
LEMMA SkipNothing ==
    ASSUME NEW r \in RingType, ~Skippable(r)
    PROVE  SkipFree(r) = r
<1> DEFINE step == [s \in RingType |-> IF Skippable(s) THEN Advance(s) ELSE s]
<1>1. step[r] = r
  OBVIOUS
<1> HIDE DEF step
<1>2. Loop(step, r) = r
  BY <1>1, LoopOnce
<1> QED
  BY <1>2 DEF SkipFree, step

LEMMA SkipOnce ==
    ASSUME NEW r \in RingType, Skippable(r), Advance(r) \in RingType, ~Skippable(Advance(r))
    PROVE  SkipFree(r) = Advance(r)
<1> DEFINE step == [s \in RingType |-> IF Skippable(s) THEN Advance(s) ELSE s]
<1>1. step[r] = Advance(r) /\ step[Advance(r)] = Advance(r)
  OBVIOUS
<1> HIDE DEF step
<1>2. Loop(step, r) = Advance(r)
  BY <1>1, LoopOnce
<1> QED
  BY <1>2 DEF SkipFree, step

LEMMA Two ==
    ASSUME NEW n \in Nat, NEW k \in 1 .. n, n # 1
    PROVE  2 \in 1 .. n /\ 1 \in 1 .. n - 1
OBVIOUS

\* The next item.
LEMMA Second ==
    ASSUME NEW r, NEW q \in Seq(Address), NEW k \in 1 .. Len(q), NEW low, NEW high,
           Layout(r, q, k, low, high), Len(q) # 1
    PROVE  /\ 2 \in 1 .. Len(q) /\ q[2] \in Address /\ q[1] \in Address
           /\ q[2] = IF k = 1 THEN 0 ELSE End(r, q[1])
           /\ q[2] # q[1] /\ ~r.free[q[2]]
<1>1. Len(q) \in Nat /\ 1 \in 1 .. Len(q)
  BY LayoutFacts
<1>2. 2 \in 1 .. Len(q) /\ 1 \in 1 .. Len(q) - 1
  BY <1>1, Two
<1>a. 1 + 1 = 2 /\ 1 # 2
  OBVIOUS
<1>3. ~r.free[q[2]] /\ q[2] \in Address /\ q[1] \in Address
  BY <1>1, <1>2, LayoutFacts
<1>4. \A i \in 1 .. Len(q) - 1 : q[i + 1] = IF i = k THEN 0 ELSE End(r, q[i])
  BY DEF Layout
<1>5. q[2] = IF 1 = k THEN 0 ELSE End(r, q[1])
  BY <1>2, <1>a, <1>4
<1>6. q[1] = q[2] => 1 = 2
  BY <1>1, <1>2 DEF Layout
<1> QED
  BY <1>2, <1>a, <1>3, <1>5, <1>6

\* The next item follows the first one: nothing is skipped or merged behind it.
LEMMA PopFar ==
    ASSUME NEW r, NEW q \in Seq(Address), NEW k \in 1 .. Len(q), NEW low, NEW high,
           Layout(r, q, k, low, high), k # 1
    PROVE  /\ 2 \in 1 .. Len(q) /\ q[2] = End(r, q[1])
           /\ PopFirst(r) = Joined(r, low, q[2], r.produce, q[2])
<1> DEFINE j == Joined(r, low, q[2], r.produce, q[2])
<1>0. r \in RingType /\ NoOverlap(r) /\ r.consume = q[1]
  BY DEF Layout
<1>1. 1 \in 1 .. Len(q) /\ Len(q) # 1
  <2>1. Len(q) \in Nat /\ 1 \in 1 .. Len(q)
    BY LayoutFacts
  <2>2. Len(q) = 1 => k = 1
    OBVIOUS
  <2> QED
    BY <2>1, <2>2, Zenon
<1>2. 2 \in 1 .. Len(q) /\ q[2] = End(r, q[1])
  BY <1>1, Second
<1>3. q[2] \in Address /\ ~r.free[q[2]] /\ q[1] \in Address /\ q[1] # q[2]
  BY <1>1, Second
<1>4. NextBlock(r, q[1]) = q[2]
  <2>1. NextBlock(r, q[1]) = IF End(r, q[1]) = MemSize THEN 0 ELSE End(r, q[1])
    BY <1>0, <1>3, NextIs
  <2>2. q[2] # MemSize
    BY <1>3, RingBufferAssumption DEF Address
  <2> QED
    BY <1>2, <2>1, <2>2
<1>5. Advance(Freed(r)) = j
  BY <1>2, <1>4, AdvanceFirst
<1>6. IsBlock(r, low) /\ low \in Address /\ low < q[2] /\ q[2] \in 1 .. MemSize /\ r.produce \in Address
  <2>1. /\ IsBlock(r, low) /\ low \in Address /\ low \in 0 .. q[1] /\ q[1] < End(r, q[1])
        /\ q[1] \in 0 .. MemSize - 1 /\ End(r, q[1]) \in 1 .. MemSize
    BY <1>1, Behind, LayoutFacts
  <2> QED
    BY <1>0, <1>2, <2>1, RingBufferAssumption DEF RingType
<1>7. j \in RingType /\ j.free[q[2]] = r.free[q[2]] /\ j.consume = q[2]
  <2>1. /\ j \in RingType
        /\ \A a \in Address : j.free[a] = IF a = r.consume THEN TRUE ELSE r.free[a]
    <3>1. CanJoin(r, low, q[2])
      BY <1>0, <1>6 DEF CanJoin
    <3>2. IsJoined(r, low, q[2], j)
      BY <1>3, <1>6, <3>1, JoinedFacts, Zenon
    <3> HIDE DEF j
    <3> QED
      BY <3>2 DEF IsJoined
  <2>2. j.consume = q[2]
    BY DEF Joined
  <2> QED
    BY <1>0, <1>3, <2>1, <2>2, Zenon
<1>8. ~j.free[q[2]]
  BY <1>3, <1>7, Zenon
<1>9. ~Skippable(j)
  BY <1>7, <1>8 DEF Skippable
<1>10. SkipFree(j) = j
  BY <1>7, <1>9, SkipNothing
<1>11. MergeBack(j, j.consume) = j
  BY <1>7, <1>8, MergeNot
<1>12. PopFirst(r) = MergeBack(SkipFree(j), SkipFree(j).consume)
  BY <1>5 DEF PopFirst, Freed
<1> QED
  BY <1>1, <1>2, <1>10, <1>11, <1>12

\* The next item is at the start of the memory, or there is none: the gap at the end
\* of the memory is merged with the rest, and m_pConsume is back at the start.
LEMMA PopNear ==
    ASSUME NEW r, NEW q \in Seq(Address), NEW low, NEW high, 1 \in 1 .. Len(q),
           Layout(r, q, 1, low, high)
    PROVE  PopFirst(r) = Joined(r, low, MemSize, low, 0)
<1> DEFINE z == Joined(r, low, MemSize, low, 0)
           j == Joined(r, low, high, r.produce, NextBlock(r, q[1]))
<1>0. r \in RingType /\ NoOverlap(r) /\ r.consume = q[1] /\ r.produce \in Address /\ 0 \in Address
  BY RingBufferAssumption DEF Layout, RingType, Address
<1>1. /\ low \in Address /\ low \in 0 .. q[1] /\ low < MemSize /\ low # high /\ q[1] < high
      /\ high \in 1 .. MemSize /\ (high < MemSize => high \in Address)
      /\ q[1] \in Address /\ q[1] \in 0 .. MemSize - 1 /\ high = End(r, q[1])
      /\ IsBlock(r, low) /\ NextBlock(r, q[1]) \in Address
  <2>1. high = End(r, q[1])
    BY DEF Layout
  <2>2. q[1] \in Address /\ IsBlock(r, low)
    <3>1. IsBlock(r, low)
      BY Behind
    <3> QED
      BY <3>1
  <2>3. NextBlock(r, q[1]) \in Address
    BY <1>0, <2>2, NextIs
  <2> QED
    BY <2>1, <2>2, <2>3, LayoutFacts
<1>2. low < high /\ low \in Int /\ high \in Int /\ MemSize \in Nat \ {0} /\ MemSize \in 1 .. MemSize
  BY <1>1, RingBufferAssumption
<1>3. NextBlock(r, q[1]) = IF high = MemSize THEN 0 ELSE high
  BY <1>0, <1>1, NextIs
<1>4. Advance(Freed(r)) = j
  BY <1>1, AdvanceFirst
<1>5. PopFirst(r) = MergeBack(SkipFree(j), SkipFree(j).consume)
  BY <1>4 DEF PopFirst, Freed
<1>6. /\ j \in RingType /\ NoOverlap(j) /\ IsBlock(j, low) /\ End(j, low) = high
      /\ \A a \in Address : a < low \/ high <= a => j.size[a] = r.size[a]
      /\ \A a \in Address : low < a /\ a < high => ~IsBlock(j, a)
      /\ \A a \in Address : j.free[a] = IF a = q[1] THEN TRUE ELSE r.free[a]
      /\ j.produce = r.produce /\ j.consume = NextBlock(r, q[1])
  <2>1. j.produce = r.produce /\ j.consume = NextBlock(r, q[1])
    BY DEF Joined
  <2>2. CanJoin(r, low, high)
    BY <1>0, <1>1, <1>2 DEF CanJoin
  <2>3. IsJoined(r, low, high, j)
    BY <1>0, <1>1, <2>2, JoinedFacts, Zenon
  <2> HIDE DEF j
  <2> QED
    BY <1>0, <2>1, <2>3 DEF IsJoined
<1>7. z \in RingType /\ z.produce = low /\ z.consume = 0 /\ z.free = j.free
  <2>1. z.produce = low /\ z.consume = 0 /\ z.free = j.free
    BY DEF Joined
  <2>2. z \in RingType
    <3>1. CanJoin(r, low, MemSize)
      BY <1>0, <1>1, <1>2 DEF CanJoin
    <3>2. IsJoined(r, low, MemSize, z)
      BY <1>0, <1>1, <3>1, JoinedFacts, Zenon
    <3> QED
      BY <3>2 DEF IsJoined
  <2> QED
    BY <2>1, <2>2
\* Then m_pConsume stands on the next item or on m_pProduce.
<1>8. ~Skippable(z)
  <2>1. CASE Len(q) = 1
    <3>1. low = 0
      BY <2>1 DEF Layout
    <3> QED
      BY <1>7, <3>1 DEF Skippable
  <2>2. CASE Len(q) # 1
    <3>1. q[2] = 0 /\ q[2] # q[1] /\ ~r.free[q[2]]
      BY <2>2, Second
    <3>2. ~z.free[0]
      BY <1>0, <1>6, <1>7, <3>1
    <3> QED
      BY <1>7, <3>2 DEF Skippable
  <2> QED
    BY <2>1, <2>2
<1>9. CASE high = MemSize
  <2>1. r.produce = low
    BY <1>2, <1>9 DEF Layout
  <2>2. j = z
    BY <1>3, <1>9, <2>1
  <2>3. SkipFree(z) = z
    BY <1>7, <1>8, SkipNothing
  <2>4. MergeBack(z, z.consume) = z
    BY <1>7, MergeNot
  <2> QED
    BY <1>5, <2>2, <2>3, <2>4
<1>10. CASE high # MemSize
  <2> DEFINE m == MergeBack(j, high)
  <2>1. /\ high \in Address /\ high < MemSize /\ r.free[high] /\ r.size[high] = MemSize - high
        /\ IsBlock(r, high) /\ End(r, high) = MemSize
    <3>1. high < MemSize
      BY <1>1, <1>2, <1>10
    <3> QED
      BY <1>1, <3>1, Behind DEF Layout
  <2>2. j.free[high] /\ j.free[low]
    <3>1. j.free[high]
      BY <1>6, <2>1
    <3>2. low = q[1] \/ r.free[low]
      <4>1. low < q[1] => r.free[low]
        BY DEF Layout
      <4> QED
        BY <1>1, <4>1
    <3> QED
      BY <1>1, <1>6, <3>1, <3>2
  <2>3. j.consume = high
    BY <1>3, <1>6, <1>10
  <2>4. /\ Merged(j, high) = low
        /\ m = [size |-> [j.size EXCEPT ![low] = @ + j.size[high], ![high] = 0],
                free |-> j.free,
                produce |-> IF j.produce = high THEN low ELSE j.produce,
                consume |-> low]
    BY <1>1, <1>6, <2>1, <2>2, <2>3, MergeIs
  <2>5. (IF j.produce = high THEN low ELSE j.produce) = low
    BY <1>6 DEF Layout
  <2>6. m.size = z.size
    <3>1. z.size = [a \in Address |-> IF a = low THEN MemSize - low
                                      ELSE IF low < a /\ a < MemSize THEN 0 ELSE r.size[a]]
      BY DEF Joined
    <3>2. m.size = [j.size EXCEPT ![low] = @ + j.size[high], ![high] = 0] /\ j.size \in [Address -> 0 .. MemSize]
      BY <1>6, <2>4 DEF RingType
    <3>3. j.size[low] = high - low /\ j.size[high] = MemSize - high
      <4>1. low + j.size[low] = high /\ j.size[low] \in Int
        <5>1. low \in Address
          BY <1>1
        <5>2. j.size[low] \in Int
          BY ONLY <1>2, <3>2, <5>1
        <5>3. End(j, low) = high
          BY <1>6
        <5> QED
          BY ONLY <5>2, <5>3 DEF End
      <4> QED
        BY <1>2, <1>6, <2>1, <4>1
    <3> HIDE DEF j, m, z
    <3>a. /\ j.size[low] + j.size[high] = MemSize - low /\ low # high /\ low \in Address
          /\ high \in Address
      BY <1>1, <1>2, <2>1, <3>3
    <3>4. \A a \in Address : m.size[a] = IF a = high THEN 0 ELSE IF a = low THEN MemSize - low ELSE j.size[a]
      BY <3>2, <3>a
    <3>5. ASSUME NEW a \in Address, a # low
          PROVE  m.size[a] = IF low < a /\ a < MemSize THEN 0 ELSE r.size[a]
      <4>1. a \in Int /\ a < MemSize /\ r.size[a] \in 0 .. MemSize /\ j.size[a] \in 0 .. MemSize
        <5>1. r.size \in [Address -> 0 .. MemSize]
          BY <1>0 DEF RingType
        <5>2. a \in Int /\ a < MemSize
          BY <1>2 DEF Address
        <5> QED
          BY <3>2, <5>1, <5>2
      <4>2. CASE a < low
        BY <1>2, <1>6, <3>4, <3>5, <4>1, <4>2
      <4>3. CASE low < a /\ a < high
        <5>1. ~(j.size[a] > 0)
          BY <1>6, <4>3 DEF IsBlock
        <5> QED
          BY <1>2, <3>4, <3>5, <4>1, <4>3, <5>1
      <4>4. CASE a = high
        BY <1>2, <3>4, <4>1, <4>4
      <4>5. CASE high < a
        <5>1. IsBlock(r, a) => a <= high
          BY <2>1, Behind
        <5>a. ~IsBlock(r, a)
          BY <1>2, <4>1, <4>5, <5>1
        <5>2. r.size[a] = 0
          BY <1>2, <4>1, <5>a DEF IsBlock
        <5> QED
          BY <1>2, <1>6, <3>4, <3>5, <4>1, <4>5, <5>2
      <4> QED
        BY <1>2, <3>5, <4>1, <4>2, <4>3, <4>4, <4>5
    <3>6. m.size[low] = MemSize - low
      BY <1>1, <3>4
    <3>7. m.size \in [Address -> 0 .. MemSize] \/ m.size = [a \in Address |-> m.size[a]]
      BY <3>2
    <3> QED
      BY <3>1, <3>5, <3>6, <3>7
  <2>7. m = [z EXCEPT !.consume = low]
    BY <1>7, <2>4, <2>5, <2>6 DEF Joined
  <2> HIDE DEF m
  <2>8. CASE Len(q) = 1
    <3>1. low = 0 /\ r.produce = high
      BY <1>2, <2>1, <2>8 DEF Layout
    <3>2. ~Skippable(j)
      BY <1>6, <2>3, <3>1 DEF Skippable
    <3>3. SkipFree(j) = j
      BY <1>6, <3>2, SkipNothing
    <3>4. PopFirst(r) = m
      BY <1>5, <2>3, <3>3 DEF m
    <3> QED
      BY <2>7, <3>1, <3>4 DEF Joined
  <2>9. CASE Len(q) # 1
    <3>1. r.produce = low
      BY <2>9 DEF Layout
    <3>2. Skippable(j)
      BY <1>1, <1>6, <2>2, <2>3, <3>1 DEF Skippable
    <3>3. Advance(j) = [m EXCEPT !.consume = NextBlock(m, low)]
      BY <2>3, <2>4 DEF Advance, m
    <3>4. NextBlock(m, low) = 0
      <4>1. m.size[low] = MemSize - low
        BY <1>1, <1>2, <2>6 DEF Joined
      <4>2. low + m.size[low] = MemSize
        BY <1>2, <4>1
      <4>3. MemSize % MemSize = 0
        BY <1>2, Remainder
      <4> QED
        BY <4>2, <4>3 DEF NextBlock
    <3>5. Advance(j) = z
      BY <2>7, <3>3, <3>4 DEF Joined
    <3>6. SkipFree(j) = z
      BY <1>6, <1>7, <1>8, <3>2, <3>5, SkipOnce
    <3>7. MergeBack(z, z.consume) = z
      BY <1>7, MergeNot
    <3> QED
      BY <1>5, <3>6, <3>7
  <2> QED
    BY <2>8, <2>9
<1> QED
  BY <1>9, <1>10


LEMMA TailFacts ==
    ASSUME NEW q \in Seq(Address), 1 \in 1 .. Len(q)
    PROVE  /\ Tail(q) \in Seq(Address) /\ Len(Tail(q)) = Len(q) - 1 /\ Len(q) \in Nat
           /\ \A i \in 1 .. Len(Tail(q)) : Tail(q)[i] = q[i + 1] /\ i + 1 \in 1 .. Len(q) /\ i + 1 # 1
<1>1. q # <<>> /\ Len(q) \in Nat
  OBVIOUS
<1>2. Tail(q) \in Seq(Address) /\ Len(Tail(q)) = Len(q) - 1
  BY <1>1
<1>3. \A i \in 1 .. Len(q) - 1 : Tail(q)[i] = q[i + 1]
  BY <1>1
<1> QED
  BY <1>1, <1>2, <1>3

\* The other items lie outside of what PopFirst joins.
LEMMA Rest ==
    ASSUME NEW r, NEW q \in Seq(Address), NEW k \in 1 .. Len(q), NEW low, NEW high,
           Layout(r, q, k, low, high), NEW i \in 1 .. Len(q), i # 1
    PROVE  /\ q[i] # q[1] /\ q[i] # low
           /\ q[i] < low \/ End(r, q[1]) <= q[i]
           /\ k = 1 => q[i] < low
<1>1. /\ q[i] \in Address /\ ~r.free[q[i]] /\ IsBlock(r, q[i]) /\ 1 \in 1 .. Len(q)
      /\ low = q[1] => ~r.free[low]
  BY LayoutFacts
<1>2. q[i] # q[1]
  BY <1>1 DEF Layout
<1>3. low < q[1] => r.free[low]
  BY DEF Layout
<1>4. low \in 0 .. q[1] /\ q[1] \in 0 .. MemSize - 1
  BY LayoutFacts
<1>5. low < q[1] \/ low = q[1]
  BY <1>4
<1>6. q[i] # low
  BY <1>1, <1>2, <1>3, <1>5
<1>7. q[i] < low \/ End(r, q[1]) <= q[i]
  BY <1>1, <1>2, <1>6, Behind
<1>8. ASSUME k = 1
      PROVE  ~(End(r, q[1]) <= q[i])
  <2>1. high = End(r, q[1]) /\ (high < MemSize => r.free[high])
    BY <1>8 DEF Layout
  <2>2. high < MemSize => q[i] <= high
    BY <1>1, Behind
  <2>3. q[i] \in Int /\ q[i] < MemSize /\ MemSize \in Int
    BY <1>1, RingBufferAssumption DEF Address
  <2>4. high \in 1 .. MemSize
    BY LayoutFacts
  <2>5. high < MemSize => q[i] # high
    BY <1>1, <2>1
  <2> QED
    BY <2>1, <2>2, <2>3, <2>4, <2>5
<1> QED
  BY <1>2, <1>6, <1>7, <1>8

\* In use are the items but the first.
LEMMA FreeButFirst ==
    ASSUME NEW r, NEW q \in Seq(Address), NEW k \in 1 .. Len(q), NEW low, NEW high,
           Layout(r, q, k, low, high), NEW top, NEW j, IsJoined(r, low, top, j)
    PROVE  /\ \A a \in Address : j.free[a] <=> \A i \in 1 .. Len(Tail(q)) : Tail(q)[i] # a
           /\ j.free[low]
<1>1. /\ \A a \in Address : j.free[a] = IF a = q[1] THEN TRUE ELSE r.free[a]
      /\ \A a \in Address : r.free[a] <=> \A i \in 1 .. Len(q) : q[i] # a
      /\ low < q[1] => r.free[low]
  <2>1. r.consume = q[1] /\ (low < q[1] => r.free[low])
    BY DEF Layout
  <2>2. \A a \in Address : r.free[a] <=> \A i \in 1 .. Len(q) : q[i] # a
    BY DEF Layout
  <2>3. \A a \in Address : j.free[a] = IF a = r.consume THEN TRUE ELSE r.free[a]
    BY DEF IsJoined
  <2> QED
    BY <2>1, <2>2, <2>3, Zenon
<1>2. 1 \in 1 .. Len(q) /\ low \in Address /\ low \in 0 .. q[1] /\ q[1] \in 0 .. MemSize - 1
  BY LayoutFacts
<1>3. /\ Len(Tail(q)) = Len(q) - 1 /\ Len(q) \in Nat
      /\ \A i \in 1 .. Len(Tail(q)) : Tail(q)[i] = q[i + 1] /\ i + 1 \in 1 .. Len(q) /\ i + 1 # 1
  BY <1>2, TailFacts
<1>4. \A i \in 1 .. Len(q) : i # 1 => q[i] # q[1]
  BY Rest
<1>5. low < q[1] \/ low = q[1]
  BY <1>2
<1>6. j.free[low]
  BY <1>1, <1>2, <1>5
<1>7. ASSUME NEW a \in Address
      PROVE  j.free[a] <=> \A i \in 1 .. Len(Tail(q)) : Tail(q)[i] # a
  <2>1. ASSUME NEW i \in 1 .. Len(q), i # 1
        PROVE  i - 1 \in 1 .. Len(Tail(q)) /\ Tail(q)[i - 1] = q[i]
    <3>1. i - 1 \in 1 .. Len(q) - 1 /\ (i - 1) + 1 = i
      BY <1>3, <2>1
    <3> QED
      BY <1>3, <3>1
  <2>2. CASE a = q[1]
    <3>1. j.free[a]
      BY <1>1, <2>2
    <3>2. \A i \in 1 .. Len(Tail(q)) : Tail(q)[i] # a
      BY <1>3, <1>4, <2>2
    <3> QED
      BY <3>1, <3>2
  <2>3. CASE a # q[1]
    <3>1. j.free[a] <=> \A i \in 1 .. Len(q) : q[i] # a
      BY <1>1, <2>3
    <3>2. ASSUME \A i \in 1 .. Len(q) : q[i] # a
          PROVE  \A i \in 1 .. Len(Tail(q)) : Tail(q)[i] # a
      BY <1>3, <3>2
    <3>3. ASSUME \A i \in 1 .. Len(Tail(q)) : Tail(q)[i] # a, NEW i \in 1 .. Len(q)
          PROVE  q[i] # a
      BY <2>1, <2>3, <3>3
    <3> QED
      BY <3>1, <3>2, <3>3
  <2> QED
    BY <2>2, <2>3
<1> QED
  BY <1>6, <1>7

\* PopFirst of the first of several items before the end of the memory.
LEMMA PopLayoutFar ==
    ASSUME NEW r, NEW q \in Seq(Address), NEW k \in 1 .. Len(q), NEW low, NEW high,
           Layout(r, q, k, low, high), k # 1
    PROVE  /\ k - 1 \in 1 .. Len(Tail(q))
           /\ Layout(PopFirst(r), Tail(q), k - 1, low, high)
<1> DEFINE j == PopFirst(r)
           t == Tail(q)
           e == q[2]
<1>1. 2 \in 1 .. Len(q) /\ e = End(r, q[1]) /\ j = Joined(r, low, e, r.produce, e)
  BY PopFar
<1>2. /\ r \in RingType /\ NoOverlap(r) /\ r.produce \in Address /\ r.consume = q[1]
      /\ 1 \in 1 .. Len(q) /\ e \in Address /\ e \in 0 .. MemSize - 1 /\ e \in 1 .. MemSize
      /\ low \in Address /\ low \in 0 .. q[1] /\ q[1] < e /\ q[1] \in 0 .. MemSize - 1
      /\ q[1] \in Address
  <2>1. r \in RingType /\ NoOverlap(r) /\ r.produce \in Address /\ r.consume = q[1]
    BY DEF Layout, RingType
  <2>2. 1 \in 1 .. Len(q) /\ low \in Address /\ low \in 0 .. q[1]
    BY LayoutFacts
  <2>3. e \in Address /\ e \in 0 .. MemSize - 1
    BY <1>1, LayoutFacts
  <2>4. q[1] < e /\ q[1] \in 0 .. MemSize - 1 /\ e \in 1 .. MemSize /\ q[1] \in Address
    BY <1>1, <2>2, LayoutFacts
  <2> QED
    BY <2>1, <2>2, <2>3, <2>4
<1>3. low < e /\ low <= e
  BY <1>2
<1>4. CanJoin(r, low, e)
  <2>1. IsBlock(r, low)
    BY Behind
  <2> QED
    BY <1>2, <1>3, <2>1 DEF CanJoin
<1>5. IsJoined(r, low, e, j)
  BY <1>1, <1>2, <1>4, JoinedFacts, Zenon
<1>6. j.consume = e /\ j.produce = r.produce
  BY <1>1 DEF Joined
<1> HIDE DEF j, e
<1>7. /\ t \in Seq(Address) /\ Len(t) = Len(q) - 1 /\ Len(q) \in Nat
      /\ \A i \in 1 .. Len(t) : t[i] = q[i + 1] /\ i + 1 \in 1 .. Len(q) /\ i + 1 # 1
  BY <1>2, TailFacts
<1> HIDE DEF t
<1>8. /\ j \in RingType /\ NoOverlap(j) /\ IsBlock(j, low) /\ End(j, low) = e
      /\ \A a \in Address : a < low \/ e <= a => j.size[a] = r.size[a]
      /\ \A a \in Address : low < a /\ a < e => ~IsBlock(j, a)
  BY <1>5 DEF IsJoined
<1>9. (\A a \in Address : j.free[a] <=> \A i \in 1 .. Len(t) : t[i] # a) /\ j.free[low]
  BY <1>5, FreeButFirst DEF t
\* The items left are as they were.
<1>10. ASSUME NEW i \in 1 .. Len(q), i # 1
       PROVE  IsBlock(j, q[i]) /\ End(j, q[i]) = End(r, q[i])
  <2>1. q[i] < low \/ e <= q[i]
    BY <1>1, <1>10, Rest
  <2>2. q[i] \in Address /\ IsBlock(r, q[i])
    BY LayoutFacts
  <2>3. j.size[q[i]] = r.size[q[i]]
    BY <1>8, <2>1, <2>2
  <2> QED
    BY <2>2, <2>3 DEF IsBlock, End
<1>11. k - 1 \in 1 .. Len(t) /\ (k - 1) + 1 = k /\ (k - 1 = Len(t) <=> k = Len(q))
  BY <1>7
<1>12. \A i \in 1 .. Len(t) : IsBlock(j, t[i])
  BY <1>7, <1>10
<1>13. ASSUME NEW i \in 1 .. Len(t), NEW m \in 1 .. Len(t), t[i] = t[m]
       PROVE  i = m
  <2>1. q[i + 1] = q[m + 1] /\ i + 1 \in 1 .. Len(q) /\ m + 1 \in 1 .. Len(q)
    BY <1>7, <1>13
  <2>2. i + 1 = m + 1
    BY <2>1 DEF Layout
  <2> QED
    BY <2>2
<1>14. ASSUME NEW i \in 1 .. Len(t) - 1
       PROVE  t[i + 1] = IF i = k - 1 THEN 0 ELSE End(j, t[i])
  <2>1. /\ i \in 1 .. Len(t) /\ i + 1 \in 1 .. Len(t) /\ i + 1 \in 1 .. Len(q) - 1
        /\ (i = k - 1 <=> i + 1 = k)
    BY <1>7
  <2>2. t[i] = q[i + 1] /\ t[i + 1] = q[(i + 1) + 1] /\ i + 1 \in 1 .. Len(q) /\ i + 1 # 1
    BY <1>7, <2>1
  <2>3. q[(i + 1) + 1] = IF i + 1 = k THEN 0 ELSE End(r, q[i + 1])
    BY <2>1 DEF Layout
  <2>4. End(j, q[i + 1]) = End(r, q[i + 1])
    BY <1>10, <2>2
  <2> QED
    BY <2>1, <2>2, <2>3, <2>4
<1>15. high = End(j, t[k - 1])
  <2>1. high = End(r, q[k])
    BY DEF Layout
  <2>2. t[k - 1] = q[k]
    BY <1>7, <1>11
  <2>3. End(j, q[k]) = End(r, q[k])
    BY <1>10
  <2> QED
    BY <2>1, <2>2, <2>3
<1>16. low = IF k - 1 = Len(t) THEN 0 ELSE End(j, t[Len(t)])
  <2>1. low = IF k = Len(q) THEN 0 ELSE End(r, q[Len(q)])
    BY DEF Layout
  <2>2. Len(t) \in 1 .. Len(t) /\ Len(t) + 1 = Len(q)
    BY <1>7, <1>11
  <2>3. t[Len(t)] = q[Len(q)] /\ Len(q) \in 1 .. Len(q) /\ Len(q) # 1
    BY <1>7, <2>2
  <2>4. End(j, q[Len(q)]) = End(r, q[Len(q)])
    BY <1>10, <2>3
  <2> QED
    BY <1>11, <2>1, <2>3, <2>4
<1>17. j.consume = t[1] /\ low <= t[1] /\ t[1] = e
  <2>1. 1 \in 1 .. Len(t) /\ 1 + 1 = 2
    BY <1>7, <1>11
  <2>2. t[1] = e
    BY <1>7, <2>1 DEF e
  <2> QED
    BY <1>3, <1>6, <2>2
<1>18. j.produce = IF k - 1 = Len(t) /\ high < MemSize THEN high ELSE low
  <2>1. r.produce = IF k = Len(q) /\ high < MemSize THEN high ELSE low
    BY DEF Layout
  <2> QED
    BY <1>6, <1>11, <2>1
<1>19. j.size[low] = e - low
  <2>1. low + j.size[low] = e
    BY <1>8 DEF End
  <2>2. j.size[low] \in 0 .. MemSize
    BY <1>2, <1>8 DEF RingType
  <2> QED
    BY <1>2, <2>1, <2>2, RingBufferAssumption
<1>20. high < MemSize => j.free[high] /\ j.size[high] = MemSize - high
  <2>1. SUFFICES ASSUME high < MemSize
                 PROVE  j.free[high] /\ j.size[high] = MemSize - high
    OBVIOUS
  <2>2. r.free[high] /\ r.size[high] = MemSize - high
    BY <2>1 DEF Layout
  <2>3. high \in Address /\ low # high
    BY <2>1, LayoutFacts
  <2>4. IsBlock(r, high) /\ high # q[1]
    BY <2>1, Behind
  <2>5. high < low \/ e <= high
    BY <1>1, <2>3, <2>4, Behind
  <2>6. j.size[high] = r.size[high]
    BY <1>8, <2>3, <2>5
  <2>7. j.free[high]
    BY <1>2, <1>5, <2>2, <2>3 DEF IsJoined
  <2> QED
    BY <2>2, <2>6, <2>7
<1>21. ASSUME NEW a \in Address, j.free[a], IsBlock(j, a)
       PROVE  a = low \/ a = high
  <2>1. SUFFICES ASSUME a # low
                 PROVE  a = high
    OBVIOUS
  <2>2. a < low \/ e <= a
    <3>1. a \in Int /\ low \in Int /\ e \in Int
      BY <1>2 DEF Address
    <3> QED
      BY <1>8, <1>21, <2>1, <3>1
  <2>3. IsBlock(r, a)
    BY <1>8, <1>21, <2>2 DEF IsBlock
  <2>4. a # q[1]
    <3>1. a \in Int /\ low \in Int /\ q[1] \in Int
      BY <1>2 DEF Address
    <3> QED
      BY <1>2, <2>2, <3>1
  <2>5. r.free[a]
    BY <1>2, <1>5, <1>21, <2>4 DEF IsJoined
  <2> QED
    BY <2>1, <2>3, <2>5 DEF Layout
<1>22. low < t[1] => j.free[low] /\ j.size[low] = t[1] - low
  BY <1>9, <1>17, <1>19
<1>23. Layout(j, t, k - 1, low, high)
  BY <1>8, <1>9, <1>12, <1>13, <1>14, <1>15, <1>16, <1>17, <1>18, <1>20, <1>21, <1>22 DEF Layout
<1> QED
  BY <1>11, <1>23 DEF j, t

\* PopFirst of the last item before the end of the memory, when others are at its start.
LEMMA PopLayoutNear ==
    ASSUME NEW r, NEW q \in Seq(Address), NEW low, NEW high, 1 \in 1 .. Len(q),
           Layout(r, q, 1, low, high), Len(q) # 1
    PROVE  /\ Len(q) - 1 \in 1 .. Len(Tail(q))
           /\ Layout(PopFirst(r), Tail(q), Len(q) - 1, 0, low)
<1> DEFINE j == PopFirst(r)
           t == Tail(q)
<1>1. j = Joined(r, low, MemSize, low, 0)
  BY PopNear
<1>2. /\ r \in RingType /\ NoOverlap(r) /\ r.consume = q[1]
      /\ 0 \in Address /\ MemSize \in Nat \ {0} /\ MemSize \in 1 .. MemSize
      /\ low \in Address /\ low \in 0 .. q[1] /\ low < MemSize /\ q[1] \in 0 .. MemSize - 1
      /\ q[1] \in Address
  <2>1. r \in RingType /\ NoOverlap(r) /\ r.consume = q[1]
    BY DEF Layout
  <2>2. low \in Address /\ low \in 0 .. q[1] /\ low < MemSize
    BY LayoutFacts
  <2>3. q[1] \in 0 .. MemSize - 1 /\ q[1] \in Address
    BY LayoutFacts
  <2>4. 0 \in Address /\ MemSize \in Nat \ {0} /\ MemSize \in 1 .. MemSize
    BY RingBufferAssumption DEF Address
  <2> QED
    BY <2>1, <2>2, <2>3, <2>4
<1>3. CanJoin(r, low, MemSize)
  <2>1. IsBlock(r, low)
    BY Behind
  <2> QED
    BY <1>2, <2>1 DEF CanJoin
<1>4. IsJoined(r, low, MemSize, j)
  BY <1>1, <1>2, <1>3, JoinedFacts, Zenon
<1>5. j.consume = 0 /\ j.produce = low
  BY <1>1 DEF Joined
<1> HIDE DEF j
<1>6. /\ t \in Seq(Address) /\ Len(t) = Len(q) - 1 /\ Len(q) \in Nat
      /\ \A i \in 1 .. Len(t) : t[i] = q[i + 1] /\ i + 1 \in 1 .. Len(q) /\ i + 1 # 1
  BY TailFacts
<1> HIDE DEF t
<1>7. /\ j \in RingType /\ NoOverlap(j) /\ IsBlock(j, low) /\ End(j, low) = MemSize
      /\ \A a \in Address : a < low \/ MemSize <= a => j.size[a] = r.size[a]
      /\ \A a \in Address : low < a /\ a < MemSize => ~IsBlock(j, a)
  BY <1>4 DEF IsJoined
<1>8. (\A a \in Address : j.free[a] <=> \A i \in 1 .. Len(t) : t[i] # a) /\ j.free[low]
  BY <1>4, FreeButFirst DEF t
<1>9. ASSUME NEW i \in 1 .. Len(q), i # 1
      PROVE  IsBlock(j, q[i]) /\ End(j, q[i]) = End(r, q[i])
  <2>1. q[i] < low
    BY <1>9, Rest
  <2>2. q[i] \in Address /\ IsBlock(r, q[i])
    BY LayoutFacts
  <2>3. j.size[q[i]] = r.size[q[i]]
    BY <1>7, <2>1, <2>2
  <2> QED
    BY <2>2, <2>3 DEF IsBlock, End
<1>10. Len(q) - 1 \in 1 .. Len(t) /\ Len(q) - 1 = Len(t) /\ Len(t) + 1 = Len(q) /\ Len(q) # 1
  BY <1>6
<1>11. \A i \in 1 .. Len(t) : IsBlock(j, t[i])
  BY <1>6, <1>9
<1>12. ASSUME NEW i \in 1 .. Len(t), NEW m \in 1 .. Len(t), t[i] = t[m]
       PROVE  i = m
  <2>1. q[i + 1] = q[m + 1] /\ i + 1 \in 1 .. Len(q) /\ m + 1 \in 1 .. Len(q)
    BY <1>6, <1>12
  <2>2. i + 1 = m + 1
    BY <2>1 DEF Layout
  <2> QED
    BY <2>2
<1>13. ASSUME NEW i \in 1 .. Len(t) - 1
       PROVE  t[i + 1] = IF i = Len(q) - 1 THEN 0 ELSE End(j, t[i])
  <2>1. /\ i \in 1 .. Len(t) /\ i + 1 \in 1 .. Len(t) /\ i + 1 \in 1 .. Len(q) - 1
        /\ i # Len(q) - 1 /\ i + 1 # 1
    BY <1>6
  <2>2. t[i] = q[i + 1] /\ t[i + 1] = q[(i + 1) + 1] /\ i + 1 \in 1 .. Len(q)
    BY <1>6, <2>1
  <2>3. q[(i + 1) + 1] = IF i + 1 = 1 THEN 0 ELSE End(r, q[i + 1])
    BY <2>1 DEF Layout
  <2>4. End(j, q[i + 1]) = End(r, q[i + 1])
    BY <1>9, <2>1, <2>2
  <2> QED
    BY <2>1, <2>2, <2>3, <2>4
<1>14. low = End(j, t[Len(q) - 1])
  <2>1. low = IF 1 = Len(q) THEN 0 ELSE End(r, q[Len(q)])
    BY DEF Layout
  <2>2. t[Len(q) - 1] = q[Len(q)] /\ Len(q) \in 1 .. Len(q)
    BY <1>6, <1>10
  <2>3. End(j, q[Len(q)]) = End(r, q[Len(q)])
    BY <1>9, <1>10, <2>2
  <2> QED
    BY <1>10, <2>1, <2>2, <2>3
<1>15. t[1] = 0
  <2>1. q[2] = 0
    BY Second
  <2>2. 1 \in 1 .. Len(t) /\ 1 + 1 = 2
    BY <1>6, <1>10
  <2> QED
    BY <1>6, <2>1, <2>2
<1>16. j.size[low] = MemSize - low
  <2>1. low + j.size[low] = MemSize
    BY <1>7 DEF End
  <2>2. j.size[low] \in 0 .. MemSize
    BY <1>2, <1>7 DEF RingType
  <2> QED
    BY <1>2, <2>1, <2>2, RingBufferAssumption
<1>17. ASSUME NEW a \in Address, j.free[a], IsBlock(j, a)
       PROVE  a = 0 \/ a = low
  <2>1. SUFFICES ASSUME a # low
                 PROVE  FALSE
    OBVIOUS
  <2>2. a \in Int /\ a < MemSize /\ low \in Int /\ q[1] \in Int /\ low <= q[1]
    BY <1>2 DEF Address
  <2>3. a < low
    BY <1>7, <1>17, <2>1, <2>2
  <2>4. IsBlock(r, a)
    BY <1>7, <1>17, <2>3 DEF IsBlock
  <2>5. a # q[1]
    BY <2>2, <2>3
  <2>6. r.free[a]
    BY <1>2, <1>4, <1>17, <2>5 DEF IsJoined
  <2>7. a = high
    BY <2>1, <2>4, <2>6 DEF Layout
  <2>8. high = End(r, q[1]) /\ q[1] < End(r, q[1]) /\ high \in 1 .. MemSize
    <3>1. high = End(r, q[1])
      BY DEF Layout
    <3> QED
      BY <3>1, LayoutFacts
  <2> QED
    BY <2>2, <2>3, <2>7, <2>8
<1>18. j.consume = t[1] /\ 0 <= t[1] /\ ~(0 < t[1]) /\ 0 = IF Len(q) - 1 = Len(t) THEN 0 ELSE End(j, t[Len(t)])
  BY <1>5, <1>10, <1>15
<1>19. j.produce = IF Len(q) - 1 = Len(t) /\ low < MemSize THEN low ELSE 0
  BY <1>2, <1>5, <1>10
<1>20. Layout(j, t, Len(q) - 1, 0, low)
  BY <1>7, <1>8, <1>11, <1>12, <1>13, <1>14, <1>16, <1>17, <1>18, <1>19 DEF Layout
<1> QED
  BY <1>10, <1>20 DEF j, t

\* PopFirst of the only item.
LEMMA PopLayoutLast ==
    ASSUME NEW r, NEW q \in Seq(Address), NEW low, NEW high, 1 \in 1 .. Len(q),
           Layout(r, q, 1, low, high), Len(q) = 1
    PROVE  PopFirst(r) = Cleared /\ Tail(q) = <<>>
<1>1. PopFirst(r) = Joined(r, low, MemSize, low, 0)
  BY PopNear
<1>2. low = 0 /\ r \in RingType /\ NoOverlap(r) /\ r.consume = q[1]
  BY DEF Layout
<1>3. \A a \in Address : r.free[a] \/ a = r.consume
  <2>1. SUFFICES ASSUME NEW a \in Address, a # r.consume
                 PROVE  r.free[a]
    OBVIOUS
  <2>2. \A i \in 1 .. Len(q) : q[i] # a
    BY <1>2, <2>1
  <2> QED
    BY <2>2 DEF Layout
<1>4. Freed(r).free = [a \in Address |-> TRUE]
  <2>1. \A a \in Address : Freed(r).free[a] = TRUE
    <3>1. \A a \in Address : Freed(r).free[a] = IF a = r.consume THEN TRUE ELSE r.free[a]
      BY <1>2, FreedFacts
    <3>2. \A a \in Address : r.free[a] \in BOOLEAN
      BY <1>2 DEF RingType
    <3> QED
      BY <1>3, <3>1, <3>2
  <2>2. Freed(r).free \in [Address -> BOOLEAN]
    BY <1>2, FreedFacts DEF RingType
  <2> QED
    BY <2>1, <2>2
<1>5. \A a \in Address : a \in Int /\ 0 <= a /\ a < MemSize
  BY RingBufferAssumption DEF Address
<1>6. [a \in Address |-> IF a = 0 THEN MemSize - 0 ELSE IF 0 < a /\ a < MemSize THEN 0 ELSE r.size[a]]
      = [a \in Address |-> IF a = 0 THEN MemSize ELSE 0]
  <2>1. MemSize - 0 = MemSize
    BY RingBufferAssumption
  <2>2. ASSUME NEW a \in Address
        PROVE  (IF a = 0 THEN MemSize - 0 ELSE IF 0 < a /\ a < MemSize THEN 0 ELSE r.size[a])
               = IF a = 0 THEN MemSize ELSE 0
    <3>1. a # 0 => 0 < a /\ a < MemSize
      BY <1>5
    <3> QED
      BY <2>1, <3>1
  <2> QED
    BY <2>2
<1>7. PopFirst(r) = Cleared
  BY <1>1, <1>2, <1>4, <1>6 DEF Joined, Cleared
<1>8. Tail(q) = <<>>
  <2>1. Len(Tail(q)) = 0 /\ Tail(q) \in Seq(Address)
    BY TailFacts, SMTT(20)
  <2> QED
    BY <2>1, EmptySeq
<1> QED
  BY <1>7, <1>8

\* What PopFirst returns holds the items but the first.
LEMMA PopHolds ==
    ASSUME NEW r, NEW q \in Seq(Address), Holds(r, q), q # <<>>
    PROVE  Holds(PopFirst(r), Tail(q)) /\ Tail(q) \in Seq(Address)
<1>1. PICK k \in 1 .. Len(q), low \in 0 .. MemSize, high \in 0 .. MemSize :
           Layout(r, q, k, low, high)
  BY DEF Holds
<1>2. 1 \in 1 .. Len(q) /\ Len(q) \in Nat
  BY <1>1, LayoutFacts
<1>3. Tail(q) \in Seq(Address)
  BY <1>2, TailFacts
<1>4. CASE k # 1
  BY <1>1, <1>4, PopLayoutFar DEF Holds
<1>5. CASE k = 1 /\ Len(q) # 1
  <2>1. Len(q) - 1 \in 1 .. Len(Tail(q)) /\ Layout(PopFirst(r), Tail(q), Len(q) - 1, 0, low)
    BY <1>1, <1>2, <1>5, PopLayoutNear
  <2>2. 0 \in 0 .. MemSize
    BY RingBufferAssumption
  <2> QED
    BY <2>1, <2>2 DEF Holds
<1>6. CASE k = 1 /\ Len(q) = 1
  BY <1>1, <1>2, <1>6, PopLayoutLast DEF Holds
<1> QED
  BY <1>3, <1>4, <1>5, <1>6

-----------------------------------------------------------------------------
(* Allocate *)

\* The free block at b becomes an item of c units, and a free block of the rest.
Carved(r, b, c) ==
    [size |-> [a \in Address |-> IF a = b THEN c
                                 ELSE IF a = b + c /\ c < r.size[b] THEN r.size[b] - c ELSE r.size[a]],
     free |-> [a \in Address |-> IF a = b THEN FALSE
                                 ELSE IF a = b + c /\ c < r.size[b] THEN TRUE ELSE r.free[a]],
     produce |-> (b + c) % MemSize,
     consume |-> r.consume]

CanCarve(r, b, c) ==
    /\ r \in RingType /\ NoOverlap(r)
    /\ b \in Address /\ c \in 1 .. r.size[b]

IsCarved(r, b, c, j) ==
    /\ j \in RingType /\ NoOverlap(j) /\ IsBlock(j, b) /\ End(j, b) = b + c /\ ~j.free[b]
    /\ c < r.size[b] =>
          /\ b + c \in Address /\ j.free[b + c]
          /\ j.size[b + c] = r.size[b] - c /\ IsBlock(j, b + c)
    /\ \A a \in Address : a # b /\ ~(a = b + c /\ c < r.size[b]) =>
          j.size[a] = r.size[a] /\ (j.free[a] <=> r.free[a])
    /\ j.produce = (b + c) % MemSize /\ j.consume = r.consume

LEMMA CarvedFacts ==
    ASSUME NEW r, NEW b, NEW c, CanCarve(r, b, c)
    PROVE  IsCarved(r, b, c, Carved(r, b, c))
<1> DEFINE j == Carved(r, b, c)
           cut == c < r.size[b]
<1>1. /\ r \in RingType /\ NoOverlap(r) /\ b \in Address /\ c \in 1 .. r.size[b]
      /\ MemSize \in Nat \ {0} /\ Address \subseteq Int
      /\ r.size \in [Address -> 0 .. MemSize] /\ r.free \in [Address -> BOOLEAN]
      /\ r.consume \in Address
  BY RingBufferAssumption DEF CanCarve, RingType, Address
<1>2. /\ b \in 0 .. MemSize - 1 /\ c \in 1 .. MemSize /\ r.size[b] \in 1 .. MemSize
      /\ b + r.size[b] <= MemSize /\ b + c \in 1 .. MemSize /\ IsBlock(r, b)
  <2>1. r.size[b] \in 0 .. MemSize /\ b \in 0 .. MemSize - 1 /\ b + r.size[b] <= MemSize
    BY <1>1 DEF NoOverlap, End, Address
  <2>2. c \in 1 .. r.size[b]
    BY <1>1
  <2>3. r.size[b] \in 1 .. MemSize /\ c \in 1 .. MemSize /\ b + c \in 1 .. MemSize
    BY <1>1, <2>1, <2>2
  <2> QED
    BY <2>1, <2>3 DEF IsBlock
<1>3. cut => b + c \in Address /\ b + c # b /\ r.size[b] - c \in 1 .. MemSize
  <2> DEFINE n == r.size[b]
  <2>1. /\ MemSize \in Nat /\ b \in 0 .. MemSize - 1 /\ c \in 1 .. MemSize
        /\ n \in 1 .. MemSize /\ b + n <= MemSize
    BY <1>1, <1>2
  <2> HIDE DEF n
  <2>2. c < n => b + c \in 0 .. MemSize - 1 /\ b + c # b /\ n - c \in 1 .. MemSize
    BY <2>1
  <2> QED
    BY <2>2 DEF n, Address
<1>4. \A a \in Address : j.size[a] = IF a = b THEN c ELSE IF a = b + c /\ cut THEN r.size[b] - c ELSE r.size[a]
  BY DEF Carved
<1>5. \A a \in Address : j.free[a] = IF a = b THEN FALSE ELSE IF a = b + c /\ cut THEN TRUE ELSE r.free[a]
  BY DEF Carved
<1>6. j.produce = (b + c) % MemSize /\ j.consume = r.consume
  BY DEF Carved
<1>7. j \in RingType
  <2>1. \A a \in Address : j.size[a] \in 0 .. MemSize
    <3>1. \A a \in Address : r.size[a] \in 0 .. MemSize
      BY <1>1
    <3>2. c \in 0 .. MemSize /\ (cut => r.size[b] - c \in 0 .. MemSize)
      BY <1>1, <1>2, <1>3
    <3> HIDE DEF j, cut
    <3> QED
      BY <1>4, <3>1, <3>2
  <2>2. \A a \in Address : j.free[a] \in BOOLEAN
    BY <1>1, <1>5
  <2>3. j.produce \in Address
    <3>1. (b + c) % MemSize = IF b + c = MemSize THEN 0 ELSE b + c
      BY <1>1, <1>2, Remainder
    <3> QED
      BY <1>1, <1>2, <1>6, <3>1 DEF Address
  <2>4. j.size \in [Address -> 0 .. MemSize]
    BY <2>1 DEF Carved
  <2>5. j.free \in [Address -> BOOLEAN]
    BY <2>2 DEF Carved
  <2> QED
    BY <1>1, <2>3, <2>4, <2>5 DEF Carved, RingType
<1> HIDE DEF j
<1>8. j.size[b] = c /\ IsBlock(j, b) /\ End(j, b) = b + c /\ ~j.free[b]
  <2>1. j.size[b] = c /\ ~j.free[b]
    BY <1>1, <1>4, <1>5
  <2> QED
    BY <1>2, <2>1 DEF IsBlock, End
<1>9. cut => /\ b + c \in Address /\ j.free[b + c]
             /\ j.size[b + c] = r.size[b] - c /\ IsBlock(j, b + c)
             /\ End(j, b + c) = End(r, b)
  <2>1. SUFFICES ASSUME cut
                 PROVE  /\ b + c \in Address /\ j.free[b + c]
                        /\ j.size[b + c] = r.size[b] - c /\ IsBlock(j, b + c)
                        /\ End(j, b + c) = End(r, b)
    OBVIOUS
  <2> HIDE DEF cut
  <2>2. b + c \in Address /\ b + c # b
    BY <1>3, <2>1
  <2>3. j.free[b + c]
    BY <1>5, <2>1, <2>2
  <2>4. j.size[b + c] = r.size[b] - c
    BY <1>4, <2>1, <2>2
  <2> QED
    BY <1>2, <1>3, <2>1, <2>2, <2>3, <2>4 DEF IsBlock, End
<1> HIDE DEF cut
<1>10. ASSUME NEW a \in Address, a # b, ~(a = b + c /\ cut)
       PROVE  j.size[a] = r.size[a] /\ (j.free[a] <=> r.free[a])
  <2>1. j.size[a] = r.size[a]
    BY <1>4, <1>10
  <2>2. j.free[a] = r.free[a]
    BY <1>5, <1>10
  <2> QED
    BY <2>1, <2>2
<1>11. ASSUME NEW a \in Address
       PROVE  End(j, a) <= MemSize
  <2>1. CASE a = b
    BY <1>1, <1>2, <1>8, <2>1
  <2>2. CASE a = b + c /\ cut
    <3>1. End(r, b) <= MemSize
      BY <1>1 DEF NoOverlap
    <3> QED
      BY <1>9, <2>2, <3>1
  <2>3. CASE a # b /\ ~(a = b + c /\ cut)
    <3>1. End(j, a) = End(r, a)
      BY <1>10, <2>3 DEF End
    <3> QED
      BY <1>1, <3>1 DEF NoOverlap
  <2> QED
    BY <2>1, <2>2, <2>3
<1>12. ASSUME NEW a \in Address, NEW d \in Address, IsBlock(j, a), IsBlock(j, d), a < d
       PROVE  End(j, a) <= d
  <2>0. a \in Int /\ d \in Int /\ a # d /\ End(r, b) \in Int /\ b + c <= End(r, b) /\ b < b + c
    BY <1>1, <1>2, <1>12 DEF End
\* A block of r other than b lies before or behind b and what b becomes.
  <2>1. ASSUME NEW f \in Address, f # b, ~(f = b + c /\ cut), IsBlock(j, f)
        PROVE  IsBlock(r, f) /\ End(j, f) = End(r, f) /\ (End(r, f) <= b \/ End(r, b) <= f)
    <3>1. j.size[f] = r.size[f]
      BY <1>10, <2>1
    <3>2. IsBlock(r, f) /\ End(j, f) = End(r, f)
      BY <2>1, <3>1 DEF IsBlock, End
    <3>3. (f < b => End(r, f) <= b) /\ (b < f => End(r, b) <= f)
      BY <1>1, <1>2, <2>1, <3>2 DEF NoOverlap
    <3>4. f \in Int /\ b \in Int
      BY <1>1
    <3> QED
      BY <2>1, <3>2, <3>3, <3>4
  <2>2. CASE a = b
    <3>1. CASE d = b + c /\ cut
      BY <1>1, <1>2, <1>8, <2>2, <3>1
    <3>2. CASE ~(d = b + c /\ cut)
      <4>1. End(r, d) <= b \/ End(r, b) <= d
        BY <1>12, <2>0, <2>1, <2>2, <3>2
      <4>2. d < End(r, d) /\ End(r, d) \in Int
        <5>1. IsBlock(r, d)
          BY <1>12, <2>0, <2>1, <2>2, <3>2
        <5>2. r.size[d] \in Int
          BY <1>1
        <5> QED
          BY <2>0, <5>1, <5>2 DEF IsBlock, End
      <4> QED
        BY <1>1, <1>2, <1>8, <1>12, <2>0, <2>2, <4>1, <4>2
    <3> QED
      BY <3>1, <3>2
  <2>3. CASE a = b + c /\ cut
    <3>1. End(j, a) = End(r, b)
      BY <1>9, <2>3
    <3>2. d # b /\ ~(d = b + c /\ cut)
      BY <1>1, <1>2, <1>12, <2>0, <2>3
    <3>3. End(r, d) <= b \/ End(r, b) <= d
      BY <1>12, <2>1, <3>2
    <3>4. d < End(r, d) /\ End(r, d) \in Int
      <4>1. IsBlock(r, d)
        BY <1>12, <2>1, <3>2
      <4>2. r.size[d] \in Int
        BY <1>1
      <4> QED
        BY <2>0, <4>1, <4>2 DEF IsBlock, End
    <3> QED
      BY <1>1, <1>2, <1>12, <2>0, <2>3, <3>1, <3>3, <3>4
  <2>4. CASE a # b /\ ~(a = b + c /\ cut)
    <3>1. IsBlock(r, a) /\ End(j, a) = End(r, a) /\ (End(r, a) <= b \/ End(r, b) <= a)
      BY <1>12, <2>1, <2>4
    <3>2. r.size[a] \in Int /\ End(r, a) \in Int
      <4>1. r.size[a] \in Int
        BY <1>1
      <4> QED
        BY <2>0, <4>1 DEF End
    <3>3. CASE d = b \/ (d = b + c /\ cut)
      BY <1>1, <1>2, <1>12, <2>0, <3>1, <3>2, <3>3
    <3>4. CASE d # b /\ ~(d = b + c /\ cut)
      <4>1. IsBlock(r, d)
        BY <1>12, <2>1, <3>4
      <4> QED
        BY <1>1, <1>12, <3>1, <4>1 DEF NoOverlap
    <3> QED
      BY <3>3, <3>4
  <2> QED
    BY <2>2, <2>3, <2>4
<1>13. NoOverlap(j)
  BY <1>11, <1>12 DEF NoOverlap
<1>14. IsCarved(r, b, c, j)
  BY <1>6, <1>7, <1>8, <1>9, <1>10, <1>13 DEF IsCarved, cut
<1> QED
  BY <1>14 DEF j

\* Allocate carves the item out of the block it found.
LEMMA CarveIs ==
    ASSUME NEW r \in RingType, NoOverlap(r), NEW w \in Nat \ {0}, FindBlock(r, w) # NoBlock
    PROVE  /\ FindBlock(r, w) \in Address /\ r.free[FindBlock(r, w)]
           /\ r.size[FindBlock(r, w)] >= w
           /\ FindBlock(r, w) \in {r.produce, 0}
           /\ \E c \in 1 .. r.size[FindBlock(r, w)] :
                 /\ CanCarve(r, FindBlock(r, w), c)
                 /\ Carve(r, w) = Carved(r, FindBlock(r, w), c)
<1> DEFINE b == FindBlock(r, w)
<1>1. b \in Address /\ r.free[b] /\ r.size[b] >= w /\ b \in {r.produce, 0}
  <2>1. r.produce \in Address /\ 0 \in Address
    BY RingBufferAssumption DEF RingType, Address
  <2> QED
    BY <2>1 DEF FindBlock
<1> HIDE DEF b
<1>2. /\ r.size \in [Address -> 0 .. MemSize] /\ r.free \in [Address -> BOOLEAN]
      /\ MemSize \in Nat \ {0} /\ w \in Int /\ w >= 1
      /\ b \in 0 .. MemSize - 1 /\ r.size[b] \in 0 .. MemSize /\ b + r.size[b] <= MemSize
  <2>1. r.size \in [Address -> 0 .. MemSize] /\ r.free \in [Address -> BOOLEAN]
    BY DEF RingType
  <2> QED
    BY <1>1, <2>1, RingBufferAssumption DEF NoOverlap, End, Address
<1> DEFINE c == IF r.size[b] > w + 1 THEN w ELSE r.size[b]
<1>3. c \in 1 .. r.size[b] /\ (c < r.size[b] <=> r.size[b] > w + 1)
  BY <1>1, <1>2
<1>4. CanCarve(r, b, c)
  BY <1>1, <1>3 DEF CanCarve
<1>5. Carve(r, w) = Carved(r, b, c)
  <2>1. CASE r.size[b] > w + 1
    <3>1. b + w \in Address /\ b + w # b
      BY <1>2, <2>1 DEF Address
    <3> DEFINE cut == [r EXCEPT !.size[b + w] = r.size[b] - w, !.size[b] = w, !.free[b + w] = TRUE]
    <3>2. Carve(r, w) = [cut EXCEPT !.free[b] = FALSE, !.produce = NextBlock(cut, b)]
      BY <2>1 DEF Carve, b
    <3>3. /\ cut.size = [[r.size EXCEPT ![b + w] = r.size[b] - w] EXCEPT ![b] = w]
          /\ cut.free = [r.free EXCEPT ![b + w] = TRUE]
          /\ cut.consume = r.consume
      BY DEF RingType
    <3>4. Carve(r, w) = [size |-> cut.size, free |-> [cut.free EXCEPT ![b] = FALSE],
                         produce |-> (b + cut.size[b]) % MemSize, consume |-> r.consume]
      BY <3>2 DEF RingType, NextBlock
    <3> HIDE DEF cut
    <3>5. cut.size = [a \in Address |-> IF a = b THEN w ELSE IF a = b + w THEN r.size[b] - w ELSE r.size[a]]
      BY <1>1, <1>2, <3>1, <3>3
    <3>6. [cut.free EXCEPT ![b] = FALSE] = [a \in Address |-> IF a = b THEN FALSE ELSE IF a = b + w THEN TRUE ELSE r.free[a]]
      BY <1>1, <1>2, <3>1, <3>3
    <3>7. cut.size[b] = w
      BY <1>1, <3>5
    <3>8. c = w /\ c < r.size[b]
      BY <1>3, <2>1
    <3> HIDE DEF c
    <3>9. Carved(r, b, c).size = cut.size
      BY <3>5, <3>8 DEF Carved
    <3>10. Carved(r, b, c).free = [cut.free EXCEPT ![b] = FALSE]
      BY <3>6, <3>8 DEF Carved
    <3>11. Carved(r, b, c) = [size |-> cut.size, free |-> [cut.free EXCEPT ![b] = FALSE],
                              produce |-> (b + c) % MemSize, consume |-> r.consume]
      BY <3>9, <3>10 DEF Carved
    <3> QED
      BY <3>4, <3>7, <3>8, <3>11, Zenon
  <2>2. CASE ~(r.size[b] > w + 1)
    <3>1. Carve(r, w) = [r EXCEPT !.free[b] = FALSE, !.produce = NextBlock(r, b)]
      BY <2>2 DEF Carve, b
    <3>2. Carve(r, w) = [size |-> r.size, free |-> [r.free EXCEPT ![b] = FALSE],
                         produce |-> (b + r.size[b]) % MemSize, consume |-> r.consume]
      BY <3>1 DEF RingType, NextBlock
    <3>3. [r.free EXCEPT ![b] = FALSE] = [a \in Address |-> IF a = b THEN FALSE ELSE r.free[a]]
      BY <1>1, <1>2
    <3>4. r.size = [a \in Address |-> IF a = b THEN r.size[b] ELSE r.size[a]]
      BY <1>2
    <3>5. c = r.size[b] /\ ~(c < r.size[b])
      BY <1>3, <2>2
    <3> HIDE DEF c
    <3> QED
      BY <3>2, <3>3, <3>4, <3>5 DEF Carved
  <2> QED
    BY <2>1, <2>2
<1> HIDE DEF c
<1>6. /\ b \in Address /\ r.free[b] /\ r.size[b] >= w /\ b \in {r.produce, 0}
      /\ \E d \in 1 .. r.size[b] : CanCarve(r, b, d) /\ Carve(r, w) = Carved(r, b, d)
  BY <1>1, <1>3, <1>4, <1>5
<1> QED
  BY <1>6 DEF b

LEMMA AppendFacts ==
    ASSUME NEW q \in Seq(Address), NEW b \in Address
    PROVE  /\ Append(q, b) \in Seq(Address) /\ Len(Append(q, b)) = Len(q) + 1 /\ Len(q) \in Nat
           /\ Append(q, b)[Len(q) + 1] = b
           /\ \A i \in 1 .. Len(q) : Append(q, b)[i] = q[i]
OBVIOUS

\* The blocks in use are the items.
Used(r, q) == \A a \in Address : r.free[a] <=> \A i \in 1 .. Len(q) : q[i] # a

Absent(q, a) == \A i \in 1 .. Len(q) : q[i] # a

LEMMA FreeButNew ==
    ASSUME NEW r, NEW q \in Seq(Address), Used(r, q),
           NEW b, NEW c, CanCarve(r, b, c), NEW j, IsCarved(r, b, c, j), r.free[b],
           c < r.size[b] => Absent(q, b + c)
    PROVE  Used(j, Append(q, b))
<1>1. b \in Address /\ \A a \in Address : r.free[a] <=> \A i \in 1 .. Len(q) : q[i] # a
  BY DEF CanCarve, Used
<1> DEFINE t == Append(q, b)
<1>2. /\ Len(t) = Len(q) + 1 /\ Len(q) \in Nat /\ t[Len(q) + 1] = b
      /\ \A i \in 1 .. Len(q) : t[i] = q[i]
  BY <1>1, AppendFacts
<1> HIDE DEF t
<1>3. ASSUME NEW a \in Address
      PROVE  j.free[a] <=> \A i \in 1 .. Len(t) : t[i] # a
  <2>1. (\A i \in 1 .. Len(t) : t[i] # a) <=> (a # b /\ \A i \in 1 .. Len(q) : q[i] # a)
    <3>1. ASSUME \A i \in 1 .. Len(t) : t[i] # a
          PROVE  a # b /\ \A i \in 1 .. Len(q) : q[i] # a
      <4>1. Len(q) + 1 \in 1 .. Len(t) /\ \A i \in 1 .. Len(q) : i \in 1 .. Len(t)
        BY <1>2
      <4> QED
        BY <1>2, <3>1, <4>1
    <3>2. ASSUME a # b, \A i \in 1 .. Len(q) : q[i] # a, NEW i \in 1 .. Len(t)
          PROVE  t[i] # a
      <4>1. i \in 1 .. Len(q) \/ i = Len(q) + 1
        BY <1>2
      <4> QED
        BY <1>2, <3>2, <4>1
    <3> QED
      BY <3>1, <3>2
  <2>2. CASE a = b
    <3>1. ~j.free[a]
      BY <2>2 DEF IsCarved
    <3> QED
      BY <2>1, <2>2, <3>1
  <2>3. CASE a # b /\ a = b + c /\ c < r.size[b]
    <3>1. j.free[a]
      BY <2>3 DEF IsCarved
    <3>2. \A i \in 1 .. Len(q) : q[i] # a
      BY <2>3 DEF Absent
    <3> QED
      BY <2>1, <2>3, <3>1, <3>2
  <2>4. CASE a # b /\ ~(a = b + c /\ c < r.size[b])
    <3>1. j.free[a] <=> r.free[a]
      BY <2>4 DEF IsCarved
    <3> QED
      BY <1>1, <2>1, <2>4, <3>1
  <2> QED
    BY <2>2, <2>3, <2>4
<1> QED
  BY <1>3 DEF t, Used

\* A new item behind the items before the end of the memory.
LEMMA CarveHigh ==
    ASSUME NEW r, NEW q \in Seq(Address), Len(q) \in 1 .. Len(q), NEW low, NEW high,
           Layout(r, q, Len(q), low, high), high < MemSize,
           NEW c, CanCarve(r, high, c), NEW j, j = Carved(r, high, c)
    PROVE  /\ Len(q) + 1 \in 1 .. Len(Append(q, high))
           /\ Layout(j, Append(q, high), Len(q) + 1, 0, high + c)
           /\ high + c \in 0 .. MemSize
<1> DEFINE t == Append(q, high)
<1>1. IsCarved(r, high, c, j)
  BY CarvedFacts
<1>2. /\ r \in RingType /\ NoOverlap(r) /\ high \in Address /\ c \in 1 .. r.size[high]
      /\ r.size[high] = MemSize - high /\ r.free[high] /\ low = 0 /\ high \in 1 .. MemSize
      /\ r.consume = q[1] /\ (0 < q[1] => r.free[0] /\ r.size[0] = q[1] - 0)
      /\ high = End(r, q[Len(q)])
  BY LayoutFacts DEF Layout, CanCarve
<1>3. MemSize \in Nat \ {0} /\ c \in Int /\ 1 <= c /\ high + c \in 1 .. MemSize
  <2>1. MemSize \in Nat \ {0}
    BY RingBufferAssumption
  <2> QED
    BY <1>2, <2>1
<1>4. /\ t \in Seq(Address) /\ Len(t) = Len(q) + 1 /\ Len(q) \in Nat /\ t[Len(q) + 1] = high
      /\ \A i \in 1 .. Len(q) : t[i] = q[i]
  BY <1>2, AppendFacts
<1> HIDE DEF t
<1>5. ASSUME NEW i \in 1 .. Len(q)
      PROVE  /\ q[i] \in Address /\ q[i] # high /\ q[i] # high + c
             /\ IsBlock(j, q[i]) /\ End(j, q[i]) = End(r, q[i])
  <2>1. q[i] \in Address /\ IsBlock(r, q[i]) /\ ~r.free[q[i]]
    BY LayoutFacts
  <2>2. q[i] # high
    BY <1>2, <2>1
  <2>3. q[i] <= high
    BY <2>1, Behind
  <2>4. q[i] # high + c
    <3>1. q[i] \in Int /\ high \in Int
      BY <1>2, <2>1 DEF Address
    <3> QED
      BY <1>3, <2>3, <3>1
  <2>5. j.size[q[i]] = r.size[q[i]]
    BY <1>1, <2>1, <2>2, <2>4 DEF IsCarved
  <2> QED
    BY <2>1, <2>2, <2>4, <2>5 DEF IsBlock, End
<1>6. /\ j \in RingType /\ NoOverlap(j) /\ IsBlock(j, high) /\ End(j, high) = high + c
      /\ (c < r.size[high] => /\ high + c \in Address /\ j.free[high + c]
                              /\ j.size[high + c] = r.size[high] - c)
      /\ j.produce = (high + c) % MemSize /\ j.consume = r.consume
  BY <1>1 DEF IsCarved
<1>7. Len(q) + 1 \in 1 .. Len(t) /\ 1 \in 1 .. Len(q) /\ t[1] = q[1]
  BY <1>4
<1>8. ASSUME NEW i \in 1 .. Len(t)
      PROVE  i \in 1 .. Len(q) \/ (i = Len(q) + 1 /\ t[i] = high)
  BY <1>4
<1>9. \A i \in 1 .. Len(t) : IsBlock(j, t[i])
  BY <1>4, <1>5, <1>6, <1>8
<1>10. ASSUME NEW i \in 1 .. Len(t), NEW m \in 1 .. Len(t), t[i] = t[m]
       PROVE  i = m
  <2>1. CASE i \in 1 .. Len(q) /\ m \in 1 .. Len(q)
    <3>1. q[i] = q[m]
      BY <1>4, <1>10, <2>1
    <3> QED
      BY <2>1, <3>1 DEF Layout
  <2>2. CASE ~(i \in 1 .. Len(q) /\ m \in 1 .. Len(q))
    BY <1>4, <1>5, <1>8, <1>10, <2>2
  <2> QED
    BY <2>1, <2>2
<1>11. ASSUME NEW i \in 1 .. Len(t) - 1
       PROVE  t[i + 1] = IF i = Len(q) + 1 THEN 0 ELSE End(j, t[i])
  <2>1. i \in 1 .. Len(q) /\ i # Len(q) + 1
    BY <1>4
  <2>2. t[i] = q[i] /\ End(j, q[i]) = End(r, q[i])
    BY <1>4, <1>5, <2>1
  <2>3. CASE i = Len(q)
    BY <1>2, <1>4, <2>1, <2>2, <2>3
  <2>4. CASE i # Len(q)
    <3>1. i \in 1 .. Len(q) - 1 /\ i + 1 \in 1 .. Len(q)
      BY <1>4, <2>1, <2>4
    <3>2. q[i + 1] = IF i = Len(q) THEN 0 ELSE End(r, q[i])
      BY <3>1 DEF Layout
    <3> QED
      BY <1>4, <2>1, <2>2, <2>4, <3>1, <3>2
  <2> QED
    BY <2>3, <2>4
<1>12. high + c = End(j, t[Len(q) + 1]) /\ Len(q) + 1 = Len(t)
  BY <1>4, <1>6
<1>13. j.consume = t[1] /\ 0 <= t[1]
  <2>1. q[1] \in 0 .. MemSize - 1
    BY <1>7, LayoutFacts
  <2> QED
    BY <1>2, <1>6, <1>7, <2>1
<1>14. j.produce = IF high + c < MemSize THEN high + c ELSE 0
  <2>1. (high + c) % MemSize = IF high + c = MemSize THEN 0 ELSE high + c
    BY <1>3, Remainder
  <2> QED
    BY <1>3, <1>6, <2>1
<1>15. 0 < t[1] => j.free[0] /\ j.size[0] = t[1] - 0
  <2>1. 0 \in Address /\ 0 # high /\ 0 # high + c
    BY <1>2, <1>3 DEF Address
  <2>2. j.size[0] = r.size[0] /\ (j.free[0] <=> r.free[0])
    BY <1>1, <2>1 DEF IsCarved
  <2> QED
    BY <1>2, <1>7, <2>2
<1>16. high + c < MemSize => j.free[high + c] /\ j.size[high + c] = MemSize - (high + c)
  <2>1. high + c < MemSize => c < r.size[high]
    BY <1>2, <1>3
  <2>2. r.size[high] - c = MemSize - (high + c)
    BY <1>2, <1>3
  <2> QED
    BY <1>6, <2>1, <2>2
<1>17. \A a \in Address : j.free[a] <=> \A i \in 1 .. Len(t) : t[i] # a
  <2>1. Used(r, q)
    BY DEF Layout, Used
  <2>2. Absent(q, high + c)
    BY <1>5 DEF Absent
  <2>3. Used(j, t)
    BY <1>1, <1>2, <2>1, <2>2, FreeButNew DEF t
  <2> QED
    BY <2>3 DEF Used
<1>18. ASSUME NEW a \in Address, j.free[a], IsBlock(j, a)
       PROVE  a = 0 \/ a = high + c
  <2>1. SUFFICES ASSUME a # high + c
                 PROVE  a = 0
    OBVIOUS
  <2>2. a # high
    BY <1>1, <1>18 DEF IsCarved
  <2>3. j.size[a] = r.size[a] /\ r.free[a]
    BY <1>1, <1>18, <2>1, <2>2 DEF IsCarved
  <2>4. IsBlock(r, a)
    BY <1>18, <2>3 DEF IsBlock
  <2>5. a = low \/ a = high
    BY <2>3, <2>4 DEF Layout
  <2> QED
    BY <1>2, <2>2, <2>5
<1>19. Layout(j, t, Len(q) + 1, 0, high + c)
  <2>1. /\ 0 = IF Len(q) + 1 = Len(t) THEN 0 ELSE End(j, t[Len(t)])
        /\ j.produce = IF Len(q) + 1 = Len(t) /\ high + c < MemSize THEN high + c ELSE 0
    BY <1>12, <1>14
  <2> QED
    BY <1>6, <1>9, <1>10, <1>11, <1>12, <1>13, <1>15, <1>16, <1>17, <1>18, <2>1 DEF Layout
<1> QED
  BY <1>3, <1>7, <1>19 DEF t

\* A new item before the first one: the first at the start of the memory, or behind the
\* last that is there.
LEMMA CarveLow ==
    ASSUME NEW r, NEW q \in Seq(Address), NEW k \in 1 .. Len(q), NEW low, NEW high,
           Layout(r, q, k, low, high), low < q[1],
           NEW c, CanCarve(r, low, c), NEW j, j = Carved(r, low, c)
    PROVE  /\ k \in 1 .. Len(Append(q, low))
           /\ Layout(j, Append(q, low), k, low + c, high)
           /\ low + c \in 0 .. MemSize
<1> DEFINE t == Append(q, low)
<1>1. IsCarved(r, low, c, j)
  BY CarvedFacts
<1>2. /\ r \in RingType /\ NoOverlap(r) /\ low \in Address /\ c \in 1 .. r.size[low]
      /\ r.size[low] = q[1] - low /\ r.free[low] /\ r.consume = q[1]
      /\ low = (IF k = Len(q) THEN 0 ELSE End(r, q[Len(q)]))
      /\ high = End(r, q[k])
  BY DEF Layout, CanCarve
<1>3. /\ 1 \in 1 .. Len(q) /\ q[1] \in 0 .. MemSize - 1 /\ low \in 0 .. q[1]
      /\ high \in 1 .. MemSize
  BY LayoutFacts
<1>4. /\ MemSize \in Nat \ {0} /\ c \in Int /\ 1 <= c /\ low + c \in 1 .. MemSize - 1
      /\ low + c <= q[1]
  <2>1. MemSize \in Nat \ {0}
    BY RingBufferAssumption
  <2> QED
    BY <1>2, <1>3, <2>1, SMTT(20)
<1>5. /\ t \in Seq(Address) /\ Len(t) = Len(q) + 1 /\ Len(q) \in Nat /\ t[Len(q) + 1] = low
      /\ \A i \in 1 .. Len(q) : t[i] = q[i]
  BY <1>2, AppendFacts
<1> HIDE DEF t
<1>6. ASSUME NEW i \in 1 .. Len(q)
      PROVE  /\ q[i] \in Address /\ q[i] # low /\ (c < r.size[low] => q[i] # low + c)
             /\ IsBlock(j, q[i]) /\ End(j, q[i]) = End(r, q[i])
  <2>1. q[i] \in Address /\ IsBlock(r, q[i]) /\ ~r.free[q[i]]
    BY LayoutFacts
  <2>2. q[i] # low
    BY <1>2, <2>1
  <2>3. c < r.size[low] => q[i] # low + c
    <3>1. SUFFICES ASSUME c < r.size[low]
                   PROVE  q[i] # low + c
      OBVIOUS
    <3>2. low + c < q[1]
      BY <1>2, <1>3, <1>4, <3>1
    <3>3. CASE i = 1
      BY <1>3, <1>4, <3>2, <3>3
    <3>4. CASE i # 1
      <4>1. q[i] < low \/ End(r, q[1]) <= q[i]
        BY <3>4, Rest
      <4>2. End(r, q[1]) \in 1 .. MemSize /\ q[1] < End(r, q[1])
        BY <1>3, LayoutFacts
      <4>3. q[i] \in Int
        BY <2>1 DEF Address
      <4> QED
        BY <1>3, <1>4, <3>2, <4>1, <4>2, <4>3
    <3> QED
      BY <3>3, <3>4
  <2>4. j.size[q[i]] = r.size[q[i]]
    BY <1>1, <2>1, <2>2, <2>3 DEF IsCarved
  <2> QED
    BY <2>1, <2>2, <2>3, <2>4 DEF IsBlock, End
<1>7. /\ j \in RingType /\ NoOverlap(j) /\ IsBlock(j, low) /\ End(j, low) = low + c
      /\ (c < r.size[low] => /\ low + c \in Address /\ j.free[low + c]
                             /\ j.size[low + c] = r.size[low] - c)
      /\ j.produce = (low + c) % MemSize /\ j.consume = r.consume
  BY <1>1 DEF IsCarved
<1>8. k \in 1 .. Len(t) /\ k # Len(t) /\ t[1] = q[1] /\ t[k] = q[k] /\ t[Len(t)] = low
  BY <1>3, <1>5
<1>9. ASSUME NEW i \in 1 .. Len(t)
      PROVE  i \in 1 .. Len(q) \/ (i = Len(q) + 1 /\ t[i] = low)
  BY <1>5
<1>10. \A i \in 1 .. Len(t) : IsBlock(j, t[i])
  BY <1>5, <1>6, <1>7, <1>9
<1>11. ASSUME NEW i \in 1 .. Len(t), NEW m \in 1 .. Len(t), t[i] = t[m]
       PROVE  i = m
  <2>1. CASE i \in 1 .. Len(q) /\ m \in 1 .. Len(q)
    <3>1. q[i] = q[m]
      BY <1>5, <1>11, <2>1
    <3> QED
      BY <2>1, <3>1 DEF Layout
  <2>2. CASE ~(i \in 1 .. Len(q) /\ m \in 1 .. Len(q))
    BY <1>5, <1>6, <1>9, <1>11, <2>2
  <2> QED
    BY <2>1, <2>2
<1>12. ASSUME NEW i \in 1 .. Len(t) - 1
       PROVE  t[i + 1] = IF i = k THEN 0 ELSE End(j, t[i])
  <2>1. i \in 1 .. Len(q)
    BY <1>5
  <2>2. t[i] = q[i] /\ End(j, q[i]) = End(r, q[i])
    BY <1>5, <1>6, <2>1
  <2>3. CASE i = Len(q)
    BY <1>2, <1>5, <2>1, <2>2, <2>3
  <2>4. CASE i # Len(q)
    <3>1. i \in 1 .. Len(q) - 1 /\ i + 1 \in 1 .. Len(q)
      BY <1>5, <2>1, <2>4
    <3>2. q[i + 1] = IF i = k THEN 0 ELSE End(r, q[i])
      BY <3>1 DEF Layout
    <3> QED
      BY <1>5, <2>1, <2>2, <3>1, <3>2
  <2> QED
    BY <2>3, <2>4
<1>13. high = End(j, t[k]) /\ low + c = End(j, t[Len(t)])
  BY <1>2, <1>6, <1>7, <1>8
<1>14. j.consume = t[1] /\ low + c <= t[1]
  BY <1>2, <1>4, <1>7, <1>8
<1>15. j.produce = low + c
  <2>1. (low + c) % MemSize = low + c
    BY <1>4, Remainder
  <2> QED
    BY <1>7, <2>1
<1>16. low + c < t[1] => j.free[low + c] /\ j.size[low + c] = t[1] - (low + c)
  <2>1. low + c < t[1] => c < r.size[low]
    BY <1>2, <1>3, <1>4, <1>8
  <2>2. r.size[low] - c = q[1] - (low + c)
    BY <1>2, <1>3, <1>4
  <2> QED
    BY <1>7, <1>8, <2>1, <2>2
\* Neither part of the block is the one at the end of the memory.
<1>17. high < MemSize => /\ high \in Address /\ high # low /\ high # low + c
                         /\ r.free[high] /\ r.size[high] = MemSize - high
  <2>1. SUFFICES ASSUME high < MemSize
                 PROVE  /\ high \in Address /\ high # low /\ high # low + c
                        /\ r.free[high] /\ r.size[high] = MemSize - high
    OBVIOUS
  <2>2. high \in Address /\ high # low
    BY <2>1, LayoutFacts
  <2>3. r.free[high] /\ r.size[high] = MemSize - high
    BY <2>1 DEF Layout
  <2>4. q[1] \in Address /\ IsBlock(r, q[1])
    BY <1>3, LayoutFacts
  <2>5. q[1] <= high /\ high # q[1]
    BY <2>1, <2>4, Behind
  <2> QED
    BY <1>3, <1>4, <2>2, <2>3, <2>5
<1>18. high < MemSize => j.free[high] /\ j.size[high] = MemSize - high
  BY <1>1, <1>17 DEF IsCarved
<1>19. \A a \in Address : j.free[a] <=> \A i \in 1 .. Len(t) : t[i] # a
  <2>1. Used(r, q)
    BY DEF Layout, Used
  <2>2. CASE c < r.size[low]
    <3>1. Absent(q, low + c)
      BY <1>6, <2>2 DEF Absent
    <3>2. Used(j, t)
      BY <1>1, <1>2, <2>1, <3>1, FreeButNew DEF t
    <3> QED
      BY <3>2 DEF Used
  <2>3. CASE ~(c < r.size[low])
    <3>1. Used(j, t)
      BY <1>1, <1>2, <2>1, <2>3, FreeButNew DEF t
    <3> QED
      BY <3>1 DEF Used
  <2> QED
    BY <2>2, <2>3
<1>20. ASSUME NEW a \in Address, j.free[a], IsBlock(j, a)
       PROVE  a = low + c \/ a = high
  <2>1. SUFFICES ASSUME a # low + c
                 PROVE  a = high
    OBVIOUS
  <2>2. a # low
    BY <1>1, <1>20 DEF IsCarved
  <2>3. j.size[a] = r.size[a] /\ r.free[a]
    BY <1>1, <1>20, <2>1, <2>2 DEF IsCarved
  <2>4. IsBlock(r, a)
    BY <1>20, <2>3 DEF IsBlock
  <2>5. a = low \/ a = high
    BY <2>3, <2>4 DEF Layout
  <2> QED
    BY <2>2, <2>5
<1>21. Layout(j, t, k, low + c, high)
  <2>1. /\ low + c = IF k = Len(t) THEN 0 ELSE End(j, t[Len(t)])
        /\ j.produce = IF k = Len(t) /\ high < MemSize THEN high ELSE low + c
    BY <1>8, <1>13, <1>15
  <2> QED
    BY <1>7, <1>10, <1>11, <1>12, <1>13, <1>14, <1>16, <1>18, <1>19, <1>20, <2>1 DEF Layout
<1>22. low + c \in 0 .. MemSize
  BY <1>4
<1> QED
  BY <1>8, <1>21, <1>22 DEF t

LEMMA ClearedFacts ==
    /\ Cleared \in RingType /\ NoOverlap(Cleared)
    /\ Cleared.consume = 0 /\ Cleared.produce = 0 /\ 0 \in Address
    /\ \A a \in Address : Cleared.free[a]
    /\ Cleared.size[0] = MemSize
    /\ \A a \in Address : a # 0 => Cleared.size[a] = 0
<1>1. /\ MemSize \in Nat \ {0} /\ MemSize \in 0 .. MemSize /\ 0 \in 0 .. MemSize
      /\ 0 \in Address /\ Address \subseteq Int
      /\ \A a \in Address : 0 <= a /\ a < MemSize
  BY RingBufferAssumption DEF Address
<1>2. \A a \in Address : Cleared.size[a] = IF a = 0 THEN MemSize ELSE 0
  BY DEF Cleared
<1>3. /\ Cleared.consume = 0 /\ Cleared.produce = 0 /\ \A a \in Address : Cleared.free[a]
  BY DEF Cleared
<1>4. Cleared \in RingType
  BY <1>1 DEF Cleared, RingType
<1>5. \A a \in Address : End(Cleared, a) <= MemSize
  <2>1. SUFFICES ASSUME NEW a \in Address
                 PROVE  a + Cleared.size[a] <= MemSize
    BY DEF End
  <2>2. a \in Int /\ a < MemSize /\ (a = 0 => Cleared.size[a] = MemSize) /\ (a # 0 => Cleared.size[a] = 0)
    BY <1>1, <1>2
  <2> QED
    BY <1>1, <2>2
<1>6. NoOverlap(Cleared)
  <2>1. ASSUME NEW a \in Address, NEW b \in Address, IsBlock(Cleared, b), a < b
        PROVE  FALSE
    <3>1. b = 0
      BY <1>1, <1>2, <2>1 DEF IsBlock
    <3> QED
      BY <1>1, <2>1, <3>1
  <2> QED
    BY <1>5, <2>1 DEF NoOverlap
<1> QED
  BY <1>1, <1>2, <1>3, <1>4, <1>6

\* An empty ring has room for whatever fits into its memory.
LEMMA EmptyHasRoom ==
    ASSUME NEW w \in Nat, w <= MemSize
    PROVE  FindBlock(Cleared, w) = 0
<1>1. Cleared.size[0] >= w
  BY ClearedFacts, RingBufferAssumption
<1> QED
  BY <1>1, ClearedFacts DEF FindBlock

LEMMA OneItem ==
    ASSUME NEW c, CanCarve(Cleared, 0, c), NEW j, j = Carved(Cleared, 0, c)
    PROVE  /\ 1 \in 1 .. Len(<<0>>) /\ c \in 0 .. MemSize
           /\ Layout(j, <<0>>, 1, 0, c)
<1> DEFINE t == <<0>>
<1>1. IsCarved(Cleared, 0, c, j)
  BY CarvedFacts
<1>2. c \in 1 .. MemSize /\ MemSize \in Nat \ {0} /\ 0 + c = c /\ 0 \in Address
  BY ClearedFacts, RingBufferAssumption DEF CanCarve
<1>3. /\ j \in RingType /\ NoOverlap(j) /\ IsBlock(j, 0) /\ End(j, 0) = c /\ ~j.free[0]
      /\ j.consume = 0 /\ j.produce = c % MemSize
      /\ (c < MemSize => c \in Address /\ j.free[c] /\ j.size[c] = MemSize - c)
      /\ \A a \in Address : a # 0 /\ ~(a = c /\ c < MemSize) => j.size[a] = 0 /\ j.free[a]
  BY <1>1, <1>2, ClearedFacts DEF IsCarved
<1>4. Len(t) = 1 /\ t[1] = 0 /\ \A i \in 1 .. Len(t) : i = 1
  OBVIOUS
<1> HIDE DEF t
<1>5. j.produce = IF c < MemSize THEN c ELSE 0
  BY <1>2, <1>3, Remainder
<1>6. \A a \in Address : j.free[a] <=> \A i \in 1 .. Len(t) : t[i] # a
  <2>1. SUFFICES ASSUME NEW a \in Address
                 PROVE  j.free[a] <=> a # 0
    BY <1>4
  <2> QED
    BY <1>3
<1>7. \A a \in Address : j.free[a] /\ IsBlock(j, a) => a = 0 \/ a = c
  BY <1>2, <1>3 DEF IsBlock
<1>8. \A i \in 1 .. Len(t) - 1 : t[i + 1] = IF i = 1 THEN 0 ELSE End(j, t[i])
  BY <1>4
<1>9. Layout(j, t, 1, 0, c)
  <2>1. /\ \A i \in 1 .. Len(t) : IsBlock(j, t[i])
        /\ \A i, m \in 1 .. Len(t) : t[i] = t[m] => i = m
        /\ c = End(j, t[1])
        /\ 0 = IF 1 = Len(t) THEN 0 ELSE End(j, t[Len(t)])
        /\ j.consume = t[1] /\ 0 <= t[1] /\ ~(0 < t[1])
        /\ j.produce = IF 1 = Len(t) /\ c < MemSize THEN c ELSE 0
    BY <1>3, <1>4, <1>5
  <2> QED
    BY <1>3, <1>6, <1>7, <1>8, <2>1 DEF Layout
<1> QED
  BY <1>2, <1>4, <1>9 DEF t

\* The blocks Allocate may find.
LEMMA FindCases ==
    ASSUME NEW r, NEW q \in Seq(Address), NEW k \in 1 .. Len(q), NEW low, NEW high,
           Layout(r, q, k, low, high), NEW w \in Nat \ {0}, FindBlock(r, w) # NoBlock
    PROVE  \/ FindBlock(r, w) = high /\ k = Len(q) /\ high < MemSize
           \/ FindBlock(r, w) = low /\ low < q[1]
<1> DEFINE b == FindBlock(r, w)
<1>1. r \in RingType /\ NoOverlap(r)
  BY DEF Layout
<1>2. b \in Address /\ r.free[b] /\ r.size[b] >= w /\ b \in {r.produce, 0}
  BY <1>1, CarveIs
<1> HIDE DEF b
<1>3. IsBlock(r, b)
  <2>1. r.size[b] \in 0 .. MemSize
    BY <1>1, <1>2 DEF RingType
  <2> QED
    BY <1>2, <2>1, RingBufferAssumption DEF IsBlock
<1>4. b = low \/ b = high
  BY <1>2, <1>3 DEF Layout
<1>5. low \in 0 .. q[1] /\ q[1] \in 0 .. MemSize - 1 /\ high \in 1 .. MemSize /\ low # high /\ (low = q[1] => ~r.free[low])
  BY LayoutFacts
<1>6. b = low => low < q[1]
  BY <1>2, <1>5
<1>7. r.produce = IF k = Len(q) /\ high < MemSize THEN high ELSE low
  BY DEF Layout
<1>8. b = high => k = Len(q) /\ high < MemSize
  BY <1>2, <1>5, <1>7
<1> QED
  BY <1>4, <1>6, <1>8 DEF b

\* What Allocate makes of the ring when there is room holds one more item.
LEMMA CarveHolds ==
    ASSUME NEW r, NEW q \in Seq(Address), Holds(r, q),
           NEW w \in Nat \ {0}, FindBlock(r, w) # NoBlock
    PROVE  /\ FindBlock(r, w) \in Address /\ r.free[FindBlock(r, w)]
           /\ Holds(Carve(r, w), Append(q, FindBlock(r, w)))
<1> DEFINE b == FindBlock(r, w)
           j == Carve(r, w)
<1>1. r \in RingType /\ NoOverlap(r)
  BY ClearedFacts DEF Holds, Layout
<1>2. PICK c \in 1 .. r.size[b] : CanCarve(r, b, c) /\ j = Carved(r, b, c)
  BY <1>1, CarveIs
<1>3. b \in Address /\ r.free[b] /\ b \in {r.produce, 0}
  BY <1>1, CarveIs
<1>4. CASE q = <<>> /\ r = Cleared
  <2>1. b = 0
    BY <1>3, <1>4, ClearedFacts
  <2> HIDE DEF j
  <2>2. 1 \in 1 .. Len(<<0>>) /\ c \in 0 .. MemSize /\ Layout(j, <<0>>, 1, 0, c)
    BY <1>2, <1>4, <2>1, OneItem
  <2>3. Append(q, b) = <<0>>
    BY <1>4, <2>1
  <2>4. 0 \in 0 .. MemSize
    BY RingBufferAssumption
  <2>5. Holds(j, Append(q, b))
    BY <2>2, <2>3, <2>4 DEF Holds
  <2> QED
    BY <1>3, <2>5 DEF j
<1>5. ASSUME NEW k \in 1 .. Len(q), NEW low \in 0 .. MemSize, NEW high \in 0 .. MemSize,
             Layout(r, q, k, low, high)
      PROVE  Holds(j, Append(q, b))
  <2>1. (b = high /\ k = Len(q) /\ high < MemSize) \/ (b = low /\ low < q[1])
    BY <1>5, FindCases
  <2> HIDE DEF j, b
  <2>2. CASE b = high /\ k = Len(q) /\ high < MemSize
    <3>1. /\ Len(q) + 1 \in 1 .. Len(Append(q, high))
          /\ Layout(j, Append(q, high), Len(q) + 1, 0, high + c)
          /\ high + c \in 0 .. MemSize
      BY <1>2, <1>5, <2>2, CarveHigh
    <3>2. 0 \in 0 .. MemSize
      BY RingBufferAssumption
    <3> QED
      BY <2>2, <3>1, <3>2 DEF Holds
  <2>3. CASE b = low /\ low < q[1]
    <3>1. /\ k \in 1 .. Len(Append(q, low))
          /\ Layout(j, Append(q, low), k, low + c, high)
          /\ low + c \in 0 .. MemSize
      BY <1>2, <1>5, <2>3, CarveLow
    <3> QED
      BY <1>5, <2>3, <3>1 DEF Holds
  <2> QED
    BY <2>1, <2>2, <2>3
<1>6. Holds(j, Append(q, b))
  BY <1>4, <1>5 DEF Holds
<1> QED
  BY <1>3, <1>6

-----------------------------------------------------------------------------
(* How far loops go *)

\* The values of a loop exist.
LEMMA TurnsExist ==
    ASSUME NEW step, NEW x
    PROVE  \E g : Turns(g, step, x)
<1> DEFINE UpTo(g, m) == g = [n \in 0 .. m |-> IF n = 0 THEN x ELSE step[g[n - 1]]]
           T == {m \in Nat : ~ \E g : UpTo(g, m)}
<1>1. SUFFICES ASSUME T # {}
               PROVE  FALSE
  <2>1. MemSize \in Nat
    BY RingBufferAssumption
  <2>2. \E g : UpTo(g, MemSize)
    BY <2>1
  <2> QED
    BY <2>2 DEF Turns
<1>2. PICK m \in T : \A k \in T : m <= k
  <2>1. T \subseteq Nat
    OBVIOUS
  <2> HIDE DEF T
  <2> QED
    BY <1>1, <2>1, LeastNumber
<1>3. m \in Nat /\ ~ \E g : UpTo(g, m)
  OBVIOUS
<1>4. CASE m = 0
  <2> DEFINE g == [n \in 0 .. 0 |-> x]
  <2>1. g = [n \in 0 .. 0 |-> IF n = 0 THEN x ELSE step[g[n - 1]]]
    OBVIOUS
  <2> QED
    BY <1>3, <1>4, <2>1
<1>5. CASE m # 0
  <2>1. m - 1 \in Nat /\ ~(m <= m - 1)
    BY <1>3, <1>5
  <2>2. m - 1 \notin T
    BY <1>2, <2>1
  <2>3. PICK g : UpTo(g, m - 1)
    BY <2>1, <2>2
  <2> DEFINE h == [n \in 0 .. m |-> IF n = m THEN step[g[m - 1]] ELSE g[n]]
  <2>4. ASSUME NEW n \in 0 .. m
        PROVE  h[n] = IF n = 0 THEN x ELSE step[h[n - 1]]
    <3>1. CASE n = 0
      <4>1. 0 \in 0 .. m - 1 /\ 0 # m /\ 0 \in 0 .. m
        BY <1>3, <1>5
      <4>2. g[0] = x
        BY <2>3, <4>1
      <4> QED
        BY <3>1, <4>1, <4>2
    <3>2. CASE n # 0 /\ n = m
      <4>1. n - 1 \in 0 .. m /\ n - 1 # m
        BY <1>3, <3>2
      <4> QED
        BY <3>2, <4>1
    <3>3. CASE n # 0 /\ n # m
      <4>1. n - 1 \in 0 .. m /\ n - 1 # m /\ n \in 0 .. m - 1
        BY <1>3, <3>3
      <4>2. g[n] = step[g[n - 1]]
        BY <2>3, <3>3, <4>1
      <4>3. h[n] = g[n] /\ h[n - 1] = g[n - 1]
        BY <3>3, <4>1
      <4> HIDE DEF h
      <4> QED
        BY <3>3, <4>2, <4>3
    <3> QED
      BY <3>1, <3>2, <3>3
  <2>5. UpTo(h, m)
    <3>1. h = [n \in 0 .. m |-> h[n]]
      OBVIOUS
    <3> HIDE DEF h
    <3> QED
      BY <2>4, <3>1
  <2> HIDE DEF UpTo
  <2> QED
    BY <1>3, <2>5
<1> QED
  BY <1>4, <1>5

\* Where a loop can be after each turn says where it ends.
LEMMA LoopEnds ==
    ASSUME NEW step, NEW x, NEW F, x \in F[0],
           \A n \in 0 .. MemSize - 1 : \A s \in F[n] : step[s] \in F[n + 1]
    PROVE  Loop(step, x) \in F[MemSize]
<1>1. PICK g : Turns(g, step, x)
  BY TurnsExist
<1>2. MemSize \in Nat /\ MemSize \in 0 .. MemSize
  BY RingBufferAssumption
<1> DEFINE T == {n \in 0 .. MemSize : g[n] \notin F[n]}
<1>3. T = {}
  <2>1. SUFFICES ASSUME T # {}
                 PROVE  FALSE
    OBVIOUS
  <2>2. PICK m \in T : \A k \in T : m <= k
    <3>1. T \subseteq Nat
      BY <1>2
    <3> HIDE DEF T
    <3> QED
      BY <2>1, <3>1, LeastNumber
  <2>3. m \in 0 .. MemSize /\ g[m] \notin F[m]
    OBVIOUS
  <2>4. m # 0
    <3>1. 0 \in 0 .. MemSize
      BY <1>2
    <3>2. g[0] = x
      BY <1>1, <3>1 DEF Turns
    <3> QED
      BY <2>3, <3>2
  <2>5. m - 1 \in 0 .. MemSize - 1 /\ m - 1 \in 0 .. MemSize /\ ~(m <= m - 1) /\ (m - 1) + 1 = m
    BY <1>2, <2>3, <2>4
  <2>6. g[m - 1] \in F[m - 1]
    BY <2>2, <2>5
  <2>7. step[g[m - 1]] \in F[m]
    BY <2>5, <2>6
  <2>8. g[m] = step[g[m - 1]]
    BY <1>1, <2>3, <2>4 DEF Turns
  <2> QED
    BY <2>3, <2>7, <2>8
<1>4. g[MemSize] \in F[MemSize]
  BY <1>2, <1>3
<1> QED
  BY <1>1, <1>4, LoopIs

\* There are no more items than units of memory.
LEMMA FewItems ==
    ASSUME NEW q \in Seq(Address), \A i, j \in 1 .. Len(q) : q[i] = q[j] => i = j
    PROVE  Len(q) \in Nat /\ Len(q) <= MemSize
<1> DEFINE f == [i \in 1 .. Len(q) |-> q[i]]
<1>1. Len(q) \in Nat /\ MemSize \in Nat \ {0}
  BY RingBufferAssumption
<1>2. IsFiniteSet(Address) /\ Cardinality(Address) = MemSize
  <2>1. 0 \in Int /\ MemSize - 1 \in Int /\ ~(0 > MemSize - 1) /\ MemSize - 1 - 0 + 1 = MemSize
    BY <1>1
  <2> QED
    BY <2>1, FS_Interval DEF Address
<1>3. Cardinality(1 .. Len(q)) = Len(q)
  <2>1. 1 \in Int /\ Len(q) \in Int /\ (1 > Len(q) => Len(q) = 0) /\ Len(q) - 1 + 1 = Len(q)
    BY <1>1
  <2>2. Cardinality(1 .. Len(q)) = IF 1 > Len(q) THEN 0 ELSE Len(q) - 1 + 1
    BY <2>1, FS_Interval
  <2> QED
    BY <2>1, <2>2
<1>4. f \in Injection(1 .. Len(q), Address)
  BY DEF Injection, IsInjective
<1>5. Cardinality(1 .. Len(q)) <= Cardinality(Address)
  <2> HIDE DEF f
  <2> QED
    BY <1>2, <1>4, FS_Injection
<1> QED
  BY <1>1, <1>2, <1>3, <1>5

LEMMA HoldsFacts ==
    ASSUME NEW r, NEW q \in Seq(Address), Holds(r, q)
    PROVE  /\ r \in RingType /\ NoOverlap(r)
           /\ r.consume \in Address /\ r.produce \in Address
           /\ IsBlock(r, r.consume) /\ IsBlock(r, r.produce)
           /\ Len(q) \in 0 .. MemSize
           /\ Used(r, q)
           /\ \A i \in 1 .. Len(q) : q[i] \in Address /\ ~r.free[q[i]] /\ IsBlock(r, q[i])
           /\ \A i, j \in 1 .. Len(q) : q[i] = q[j] => i = j
           /\ r.free[r.consume] <=> q = <<>>
<1>1. CASE q = <<>> /\ r = Cleared
  <2>1. Len(q) = 0 /\ MemSize \in Nat \ {0}
    BY <1>1, RingBufferAssumption
  <2>2. IsBlock(r, 0)
    BY <1>1, <2>1, ClearedFacts DEF IsBlock
  <2>3. /\ \A i \in 1 .. Len(q) : FALSE
        /\ Len(q) \in 0 .. MemSize
    BY <2>1
  <2>4. Used(r, q)
    BY <1>1, <2>3, ClearedFacts DEF Used
  <2> QED
    BY <1>1, <2>2, <2>3, <2>4, ClearedFacts
<1>2. ASSUME NEW k \in 1 .. Len(q), NEW low, NEW high, Layout(r, q, k, low, high)
      PROVE  /\ r \in RingType /\ NoOverlap(r)
             /\ r.consume \in Address /\ r.produce \in Address
             /\ IsBlock(r, r.consume) /\ IsBlock(r, r.produce)
             /\ Len(q) \in 0 .. MemSize
             /\ Used(r, q)
             /\ \A i \in 1 .. Len(q) : q[i] \in Address /\ ~r.free[q[i]] /\ IsBlock(r, q[i])
             /\ \A i, j \in 1 .. Len(q) : q[i] = q[j] => i = j
             /\ ~r.free[r.consume] /\ q # <<>>
  <2>1. r \in RingType /\ NoOverlap(r) /\ r.consume = q[1] /\ \A i, j \in 1 .. Len(q) : q[i] = q[j] => i = j
    BY <1>2 DEF Layout
  <2>2. /\ 1 \in 1 .. Len(q)
        /\ \A i \in 1 .. Len(q) : q[i] \in Address /\ ~r.free[q[i]] /\ IsBlock(r, q[i])
    BY <1>2, LayoutFacts
  <2>3. IsBlock(r, low) /\ (high < MemSize => IsBlock(r, high))
    BY <1>2, Behind
  <2>4. IsBlock(r, r.produce)
    BY <1>2, <2>3 DEF Layout
  <2>5. Len(q) \in 0 .. MemSize
    <3>1. Len(q) \in Nat /\ Len(q) <= MemSize
      BY <2>1, FewItems
    <3> QED
      BY <3>1, RingBufferAssumption
  <2>6. Used(r, q)
    BY <1>2 DEF Layout, Used
  <2>7. r.consume \in Address /\ r.produce \in Address
    BY <2>1 DEF RingType
  <2>8. q # <<>>
    BY <2>2
  <2> QED
    BY <2>1, <2>2, <2>4, <2>5, <2>6, <2>7, <2>8
<1> QED
  BY <1>1, <1>2 DEF Holds

\* The items from the one after the m oldest.
Rests(q, m) == SubSeq(q, m + 1, Len(q))

LEMMA RestsFacts ==
    ASSUME NEW q \in Seq(Address), NEW m \in 0 .. Len(q)
    PROVE  /\ Rests(q, m) \in Seq(Address)
           /\ Rests(q, 0) = q
           /\ m = Len(q) => Rests(q, m) = <<>>
           /\ m # Len(q) => Tail(Rests(q, m)) = Rests(q, m + 1) /\ m + 1 \in 0 .. Len(q)
<1>1. Len(q) \in Nat /\ m \in Int /\ Len(q) \in Int /\ m + 1 \in Int
  BY EmptySeq
<1>2. Rests(q, m) \in Seq(Address)
  <2>1. \A i \in m + 1 .. Len(q) : q[i] \in Address
    BY <1>1
  <2> QED
    BY <1>1, <2>1, SubSeqProperties DEF Rests
<1>3. Rests(q, 0) = q
  <2>1. 0 + 1 = 1 /\ 1 \in Int /\ Len(q) - 1 + 1 = Len(q) /\ \A i \in 1 .. Len(q) : q[i] \in Address /\ 1 + i - 1 = i
    BY <1>1
  <2>2. /\ SubSeq(q, 1, Len(q)) \in Seq(Address)
        /\ Len(SubSeq(q, 1, Len(q))) = IF 1 <= Len(q) THEN Len(q) - 1 + 1 ELSE 0
        /\ \A i \in 1 .. Len(q) - 1 + 1 : SubSeq(q, 1, Len(q))[i] = q[1 + i - 1]
    BY <1>1, <2>1, SubSeqProperties
  <2>3. Len(SubSeq(q, 1, Len(q))) = Len(q)
    BY <1>1, <2>1, <2>2
  <2> DEFINE s == SubSeq(q, 1, Len(q))
  <2>4. s \in Seq(Address) /\ Len(s) = Len(q) /\ \A i \in 1 .. Len(s) : s[i] = q[i]
    BY <2>1, <2>2, <2>3
  <2> HIDE DEF s
  <2>5. s = q
    BY <2>4, SeqEqual
  <2> QED
    BY <2>1, <2>5 DEF Rests, s
<1>4. m = Len(q) => Rests(q, m) = <<>>
  BY <1>1, SubSeqEmpty DEF Rests
<1>5. m # Len(q) => Tail(Rests(q, m)) = Rests(q, m + 1) /\ m + 1 \in 0 .. Len(q)
  <2>1. SUFFICES ASSUME m # Len(q)
                 PROVE  Tail(Rests(q, m)) = Rests(q, m + 1) /\ m + 1 \in 0 .. Len(q)
    OBVIOUS
  <2>2. m + 1 \in 1 .. Len(q) /\ Len(q) \in m + 1 .. Len(q) /\ m + 1 \in 0 .. Len(q)
    BY <1>1, <2>1
  <2> QED
    BY <2>2, HeadTailOfSubSeq DEF Rests
<1> QED
  BY <1>2, <1>3, <1>4, <1>5

\* Allocate's loop discards oldest items of a recycling ring until there is room.
LEMMA MakeRoomHolds ==
    ASSUME NEW r, NEW q \in Seq(Address), Holds(r, q), NEW w
    PROVE  /\ \E m \in 0 .. Len(q) : Holds(MakeRoom(r, w), Rests(q, m)) /\ (m > 0 => recycle)
           /\ ~MustPop(MakeRoom(r, w), w)
<1> DEFINE step == [s \in RingType |-> IF MustPop(s, w) THEN PopFirst(s) ELSE s]
           Left(s, m) == Holds(s, Rests(q, m)) /\ (m > 0 => recycle)
           F == [n \in 0 .. MemSize |->
                   {s \in RingType : \E m \in 0 .. Len(q) : Left(s, m) /\ (~MustPop(s, w) \/ m = n)}]
<1>1. MemSize \in Nat \ {0} /\ 0 \in 0 .. MemSize /\ MemSize \in 0 .. MemSize
  BY RingBufferAssumption
<1>2. r \in RingType /\ Len(q) \in 0 .. MemSize /\ 0 \in 0 .. Len(q)
  BY HoldsFacts
<1>3. r \in F[0]
  <2>1. Rests(q, 0) = q
    BY <1>2, RestsFacts
  <2>2. ~(0 > 0)
    OBVIOUS
  <2>3. Left(r, 0)
    BY <2>1, <2>2
  <2> HIDE DEF Left
  <2> QED
    BY <1>1, <1>2, <2>3
<1>4. ASSUME NEW n \in 0 .. MemSize - 1, NEW s \in F[n]
      PROVE  step[s] \in F[n + 1]
  <2>1. n \in 0 .. MemSize /\ n + 1 \in 0 .. MemSize
    BY <1>1
  <2> HIDE DEF Left
  <2>2. s \in RingType /\ \E m \in 0 .. Len(q) : Left(s, m) /\ (~MustPop(s, w) \/ m = n)
    BY <2>1
  <2>3. PICK m \in 0 .. Len(q) : Left(s, m) /\ (~MustPop(s, w) \/ m = n)
    BY <2>2
  <2>4. CASE ~MustPop(s, w)
    <3>1. step[s] = s
      BY <2>2, <2>4
    <3> HIDE DEF step
    <3> QED
      BY <2>1, <2>2, <2>3, <2>4, <3>1
  <2>5. CASE MustPop(s, w)
    <3>1. m = n /\ step[s] = PopFirst(s)
      BY <2>2, <2>3, <2>5
    <3>2. recycle /\ ~s.free[s.consume]
      BY <2>5 DEF MustPop
    <3>3. Holds(s, Rests(q, m)) /\ Rests(q, m) \in Seq(Address)
      BY <2>3, RestsFacts DEF Left
    <3>4. Rests(q, m) # <<>>
      BY <3>2, <3>3, HoldsFacts
    <3>5. m # Len(q)
      BY <3>4, RestsFacts
    <3>6. Tail(Rests(q, m)) = Rests(q, m + 1) /\ m + 1 \in 0 .. Len(q)
      BY <3>5, RestsFacts
    <3>7. Holds(PopFirst(s), Rests(q, m + 1))
      BY <3>3, <3>4, <3>6, PopHolds
    <3>8. PopFirst(s) \in RingType
      BY <3>6, <3>7, RestsFacts, HoldsFacts
    <3>9. Left(PopFirst(s), m + 1) /\ m + 1 = n + 1
      BY <3>1, <3>2, <3>7 DEF Left
    <3> HIDE DEF step
    <3> QED
      BY <2>1, <3>1, <3>6, <3>8, <3>9
  <2> QED
    BY <2>4, <2>5
<1>5. Loop(step, r) \in F[MemSize]
  <2> HIDE DEF step, F
  <2> QED
    BY <1>3, <1>4, LoopEnds
<1>6. MakeRoom(r, w) = Loop(step, r)
  BY DEF MakeRoom
<1> DEFINE e == MakeRoom(r, w)
<1>7. PICK m \in 0 .. Len(q) : Left(e, m) /\ (~MustPop(e, w) \/ m = MemSize)
  <2>1. e \in F[MemSize]
    BY <1>5, <1>6
  <2> HIDE DEF e, Left
  <2> QED
    BY <1>1, <2>1
<1> HIDE DEF e
<1>8. ~MustPop(e, w)
  <2>1. SUFFICES ASSUME m = MemSize
                 PROVE  ~MustPop(e, w)
    BY <1>7
  <2>2. m = Len(q)
    BY <1>1, <1>2, <2>1
  <2>3. Rests(q, m) = <<>> /\ <<>> \in Seq(Address) /\ Holds(e, Rests(q, m))
    BY <1>7, <2>2, RestsFacts
  <2>4. e.free[e.consume]
    BY <2>3, HoldsFacts
  <2> QED
    BY <2>4 DEF MustPop
<1> QED
  BY <1>7, <1>8 DEF e

\* So a recycling ring always has room for what fits into its memory.
LEMMA RoomMade ==
    ASSUME NEW r, NEW q \in Seq(Address), Holds(r, q), NEW w \in Nat, w <= MemSize, recycle
    PROVE  FindBlock(MakeRoom(r, w), w) # NoBlock
<1> DEFINE e == MakeRoom(r, w)
<1>1. PICK m \in 0 .. Len(q) : Holds(e, Rests(q, m))
  BY MakeRoomHolds
<1>2. ~MustPop(e, w) /\ Rests(q, m) \in Seq(Address)
  BY MakeRoomHolds, RestsFacts
<1> HIDE DEF e
<1>3. SUFFICES ASSUME e.free[e.consume]
               PROVE  FindBlock(e, w) # NoBlock
  BY <1>2 DEF MustPop, e
<1>4. Rests(q, m) = <<>>
  BY <1>1, <1>2, <1>3, HoldsFacts
<1>5. e = Cleared
  <2>1. Len(Rests(q, m)) = 0
    BY <1>4
  <2>2. \A k \in 1 .. Len(Rests(q, m)) : FALSE
    BY <2>1
  <2> QED
    BY <1>1, <2>2 DEF Holds
<1> QED
  BY <1>5, EmptyHasRoom DEF NoBlock

-----------------------------------------------------------------------------
(* Iteration *)

\* Next and Prev end at the neighbour, or one block further.
LEMMA OnwardNone ==
    ASSUME NEW r, NEW a, NextBlock(r, a) \in Address, ~Passable(r, NextBlock(r, a))
    PROVE  NextItem(r, a) = Found(r, NextBlock(r, a))
<1> DEFINE step == [b \in Address |-> IF Passable(r, b) THEN NextBlock(r, b) ELSE b]
           x == NextBlock(r, a)
<1>1. step[x] = x
  OBVIOUS
<1> HIDE DEF step, x
<1>2. Loop(step, x) = x
  BY <1>1, LoopOnce
<1> QED
  BY <1>2 DEF NextItem, step, x

LEMMA OnwardOne ==
    ASSUME NEW r, NEW a, NEW d \in Address,
           NextBlock(r, a) \in Address, Passable(r, NextBlock(r, a)),
           d = NextBlock(r, NextBlock(r, a)), ~Passable(r, d)
    PROVE  NextItem(r, a) = Found(r, d)
<1> DEFINE step == [b \in Address |-> IF Passable(r, b) THEN NextBlock(r, b) ELSE b]
           x == NextBlock(r, a)
<1>1. step[x] = d /\ step[d] = d
  OBVIOUS
<1> HIDE DEF step, x
<1>2. Loop(step, x) = d
  BY <1>1, LoopOnce
<1> QED
  BY <1>2 DEF NextItem, step, x

LEMMA BackNone ==
    ASSUME NEW r, NEW a, PrevBlock(r, a) \in Address, ~Passable(r, PrevBlock(r, a))
    PROVE  PrevItem(r, a) = Found(r, PrevBlock(r, a))
<1> DEFINE step == [b \in Address |-> IF Passable(r, b) THEN PrevBlock(r, b) ELSE b]
           x == PrevBlock(r, a)
<1>1. step[x] = x
  OBVIOUS
<1> HIDE DEF step, x
<1>2. Loop(step, x) = x
  BY <1>1, LoopOnce
<1> QED
  BY <1>2 DEF PrevItem, step, x

LEMMA BackOne ==
    ASSUME NEW r, NEW a, NEW d \in Address,
           PrevBlock(r, a) \in Address, Passable(r, PrevBlock(r, a)),
           d = PrevBlock(r, PrevBlock(r, a)), ~Passable(r, d)
    PROVE  PrevItem(r, a) = Found(r, d)
<1> DEFINE step == [b \in Address |-> IF Passable(r, b) THEN PrevBlock(r, b) ELSE b]
           x == PrevBlock(r, a)
<1>1. step[x] = d /\ step[d] = d
  OBVIOUS
<1> HIDE DEF step, x
<1>2. Loop(step, x) = d
  BY <1>1, LoopOnce
<1> QED
  BY <1>2 DEF PrevItem, step, x

\* Which block follows an item, and which the gap at the end of the memory.
LEMMA Following ==
    ASSUME NEW r, NEW q \in Seq(Address), NEW k \in 1 .. Len(q), NEW low, NEW high,
           Layout(r, q, k, low, high)
    PROVE  /\ \A i \in 1 .. Len(q) - 1 : i # k => NextBlock(r, q[i]) = q[i + 1]
           /\ k # Len(q) => NextBlock(r, q[Len(q)]) = low
           /\ high = MemSize => NextBlock(r, q[k]) = 0
           /\ high < MemSize => NextBlock(r, q[k]) = high /\ NextBlock(r, high) = 0
           /\ low < q[1] => NextBlock(r, low) = q[1]
           /\ k # Len(q) => k \in 1 .. Len(q) - 1 /\ q[k + 1] = 0
<1>1. r \in RingType /\ NoOverlap(r) /\ high = End(r, q[k]) /\ MemSize \notin Address
  BY RingBufferAssumption DEF Layout, Address
<1>2. /\ \A i \in 1 .. Len(q) : q[i] \in Address /\ IsBlock(r, q[i])
      /\ Len(q) \in Nat /\ 1 \in 1 .. Len(q) /\ Len(q) \in 1 .. Len(q) /\ low \in Address
      /\ (high < MemSize => high \in Address)
  BY LayoutFacts
<1>3. \A a \in Address : NextBlock(r, a) = IF End(r, a) = MemSize THEN 0 ELSE End(r, a)
  BY <1>1, NextIs
<1>4. \A i \in 1 .. Len(q) - 1 : q[i + 1] = IF i = k THEN 0 ELSE End(r, q[i])
  BY DEF Layout
<1>5. ASSUME NEW i \in 1 .. Len(q) - 1, i # k
      PROVE  NextBlock(r, q[i]) = q[i + 1]
  <2>1. i \in 1 .. Len(q) /\ i + 1 \in 1 .. Len(q)
    BY <1>2
  <2>2. q[i + 1] = End(r, q[i]) /\ q[i + 1] \in Address
    BY <1>2, <1>4, <1>5, <2>1
  <2> QED
    BY <1>1, <1>2, <1>3, <2>1, <2>2
<1>6. k # Len(q) => NextBlock(r, q[Len(q)]) = low
  <2>1. k # Len(q) => low = End(r, q[Len(q)])
    BY DEF Layout
  <2> QED
    BY <1>1, <1>2, <1>3, <2>1
<1>7. high = MemSize => NextBlock(r, q[k]) = 0
  BY <1>1, <1>2, <1>3
<1>8. high < MemSize => NextBlock(r, q[k]) = high /\ NextBlock(r, high) = 0
  <2>1. high < MemSize => End(r, high) = MemSize
    BY Behind
  <2> QED
    BY <1>1, <1>2, <1>3, <2>1
<1>9. low < q[1] => NextBlock(r, low) = q[1]
  <2>1. low < q[1] => End(r, low) = q[1]
    <3>1. low < q[1] => r.size[low] = q[1] - low
      BY DEF Layout
    <3>2. low \in Int /\ q[1] \in Int
      BY <1>2 DEF Address
    <3> QED
      BY <3>1, <3>2 DEF End
  <2> QED
    BY <1>1, <1>2, <1>3, <2>1
<1>10. k # Len(q) => k \in 1 .. Len(q) - 1 /\ q[k + 1] = 0
  <2>1. k # Len(q) => k \in 1 .. Len(q) - 1
    BY <1>2
  <2> QED
    BY <1>4, <2>1
<1> QED
  BY <1>5, <1>6, <1>7, <1>8, <1>9, <1>10

\* m_pProduce stands on a free block, unless the memory is full: then it stands on the
\* oldest item.
LEMMA Producing ==
    ASSUME NEW r, NEW q \in Seq(Address), NEW k \in 1 .. Len(q), NEW low, NEW high,
           Layout(r, q, k, low, high)
    PROVE  /\ r.produce \in {low, high}
           /\ ~r.free[r.produce] => r.produce = q[1] /\ low = q[1]
           /\ \A i \in 1 .. Len(q) : i # 1 => q[i] # r.produce
           /\ k # Len(q) => r.produce = low
           /\ k = Len(q) /\ high = MemSize => r.produce = low
           /\ k = Len(q) /\ high < MemSize => r.produce = high
<1>1. r.produce = IF k = Len(q) /\ high < MemSize THEN high ELSE low
  BY DEF Layout
<1>2. high < MemSize => r.free[high]
  BY DEF Layout
<1>3. low < q[1] => r.free[low]
  BY DEF Layout
<1>4. low \in 0 .. q[1] /\ q[1] \in 0 .. MemSize - 1 /\ 1 \in 1 .. Len(q) /\ high \in 1 .. MemSize
  BY LayoutFacts
<1>5. ~(high = MemSize /\ high < MemSize)
  BY <1>4, RingBufferAssumption
<1>6. ~r.free[r.produce] => r.produce = q[1] /\ low = q[1]
  BY <1>1, <1>2, <1>3, <1>4
<1>7. ASSUME NEW i \in 1 .. Len(q), i # 1
      PROVE  q[i] # r.produce
  <2>1. ~r.free[q[i]]
    BY LayoutFacts
  <2>2. q[i] # q[1]
    BY <1>7, Rest
  <2> QED
    BY <1>6, <2>1, <2>2
<1> QED
  BY <1>1, <1>5, <1>6, <1>7

LEMMA NextItemIs ==
    ASSUME NEW r, NEW q \in Seq(Address), NEW k \in 1 .. Len(q), NEW low, NEW high,
           Layout(r, q, k, low, high), NEW i \in 1 .. Len(q)
    PROVE  NextItem(r, q[i]) = IF i = Len(q) THEN NoBlock ELSE q[i + 1]
<1>1. /\ \A m \in 1 .. Len(q) : q[m] \in Address /\ ~r.free[q[m]]
      /\ Len(q) \in Nat /\ low \in Address /\ (high < MemSize => high \in Address)
      /\ high \in 1 .. MemSize /\ low # high
  BY LayoutFacts
<1>2. high = MemSize \/ high < MemSize
  BY <1>1, RingBufferAssumption
<1>3. high < MemSize => r.free[high]
  BY DEF Layout
<1>a. /\ \A m \in 1 .. Len(q) - 1 : m # k => NextBlock(r, q[m]) = q[m + 1]
      /\ k # Len(q) => NextBlock(r, q[Len(q)]) = low
      /\ high = MemSize => NextBlock(r, q[k]) = 0
      /\ high < MemSize => NextBlock(r, q[k]) = high /\ NextBlock(r, high) = 0
      /\ k # Len(q) => k \in 1 .. Len(q) - 1 /\ q[k + 1] = 0
  BY Following
<1>b. /\ r.produce \in {low, high}
      /\ ~r.free[r.produce] => r.produce = q[1] /\ low = q[1]
      /\ \A m \in 1 .. Len(q) : m # 1 => q[m] # r.produce
      /\ k # Len(q) => r.produce = low
      /\ k = Len(q) /\ high = MemSize => r.produce = low
      /\ k = Len(q) /\ high < MemSize => r.produce = high
  BY Producing
\* Where the next item stands, the loop ends and has found it.
<1>4. ASSUME NEW m \in 1 .. Len(q), m # 1
      PROVE  ~Passable(r, q[m]) /\ Found(r, q[m]) = q[m]
  <2>1. q[m] # r.produce
    BY <1>4, Producing
  <2> QED
    BY <1>1, <2>1 DEF Passable, Found
<1>5. ~Passable(r, r.produce) /\ Found(r, r.produce) = NoBlock
  BY DEF Passable, Found
<1>6. CASE i # Len(q)
  <2>1. i \in 1 .. Len(q) - 1 /\ i + 1 \in 1 .. Len(q) /\ i + 1 # 1
    BY <1>1, <1>6
  <2>2. ~Passable(r, q[i + 1]) /\ Found(r, q[i + 1]) = q[i + 1] /\ q[i + 1] \in Address
    BY <1>1, <1>4, <2>1
  <2>3. CASE NextBlock(r, q[i]) = q[i + 1]
    BY <1>6, <2>2, <2>3, OnwardNone
  <2>4. CASE NextBlock(r, q[i]) # q[i + 1]
    <3>1. i = k
      BY <2>1, <2>4, <1>a
    <3>2. q[i + 1] = 0
      BY <1>6, <3>1, <1>a
    <3>3. high < MemSize
      BY <1>2, <2>4, <3>1, <3>2, <1>a
    <3>4. NextBlock(r, q[i]) = high /\ NextBlock(r, high) = q[i + 1]
      BY <3>1, <3>2, <3>3, <1>a
    <3>5. Passable(r, high)
      BY <1>1, <1>3, <1>6, <3>1, <3>3, <1>b DEF Passable
    <3>6. NextItem(r, q[i]) = Found(r, q[i + 1])
      BY <1>1, <2>2, <3>3, <3>4, <3>5, OnwardOne
    <3> QED
      BY <1>6, <2>2, <3>6
  <2> QED
    BY <2>3, <2>4
<1>7. CASE i = Len(q)
  <2>1. NextBlock(r, q[i]) = r.produce
    <3>1. CASE k # Len(q)
      BY <1>7, <3>1, <1>a, <1>b
    <3>2. CASE k = Len(q) /\ high < MemSize
      BY <1>7, <3>2, <1>a, <1>b
    <3>3. CASE k = Len(q) /\ high = MemSize
      <4>1. low = 0
        BY <3>3 DEF Layout
      <4> QED
        BY <1>7, <3>3, <4>1, <1>a, <1>b
    <3> QED
      BY <1>2, <3>1, <3>2, <3>3
  <2>2. r.produce \in Address
    BY DEF Layout, RingType
  <2> QED
    BY <1>5, <1>7, <2>1, <2>2, OnwardNone
<1> QED
  BY <1>6, <1>7

\* Which block comes before an item, m_pProduce or the gap at the end of the memory.
LEMMA Preceding ==
    ASSUME NEW r, NEW q \in Seq(Address), NEW k \in 1 .. Len(q), NEW low, NEW high,
           Layout(r, q, k, low, high)
    PROVE  /\ \A i \in 1 .. Len(q) - 1 : i # k => PrevBlock(r, q[i + 1]) = q[i]
           /\ k # Len(q) => PrevBlock(r, low) = q[Len(q)]
           /\ high = MemSize => PrevBlock(r, 0) = q[k]
           /\ high < MemSize => PrevBlock(r, high) = q[k] /\ PrevBlock(r, 0) = high
           /\ low < q[1] => PrevBlock(r, q[1]) = low
<1>1. r \in RingType /\ NoOverlap(r)
  BY DEF Layout
<1>2. /\ \A i \in 1 .. Len(q) : q[i] \in Address /\ IsBlock(r, q[i])
      /\ Len(q) \in Nat /\ 1 \in 1 .. Len(q) /\ Len(q) \in 1 .. Len(q) /\ low \in Address
      /\ (high < MemSize => high \in Address)
  BY LayoutFacts
<1>3. IsBlock(r, low) /\ (high < MemSize => IsBlock(r, high))
  BY Behind
<1>4. \A b \in Address : IsBlock(r, b) => PrevBlock(r, NextBlock(r, b)) = b
  BY <1>1, PrevIs
<1>5. /\ \A i \in 1 .. Len(q) - 1 : i # k => NextBlock(r, q[i]) = q[i + 1]
      /\ k # Len(q) => NextBlock(r, q[Len(q)]) = low
      /\ high = MemSize => NextBlock(r, q[k]) = 0
      /\ high < MemSize => NextBlock(r, q[k]) = high /\ NextBlock(r, high) = 0
      /\ low < q[1] => NextBlock(r, low) = q[1]
      /\ k # Len(q) => k \in 1 .. Len(q) - 1 /\ q[k + 1] = 0
  BY Following
<1>6. ASSUME NEW i \in 1 .. Len(q) - 1, i # k
      PROVE  PrevBlock(r, q[i + 1]) = q[i]
  <2>1. i \in 1 .. Len(q)
    BY <1>2
  <2> QED
    BY <1>2, <1>4, <1>5, <1>6, <2>1
<1>7. k # Len(q) => PrevBlock(r, low) = q[Len(q)]
  BY <1>2, <1>4, <1>5
<1>8. high = MemSize => PrevBlock(r, 0) = q[k]
  BY <1>2, <1>4, <1>5
<1>9. high < MemSize => PrevBlock(r, high) = q[k] /\ PrevBlock(r, 0) = high
  BY <1>2, <1>3, <1>4, <1>5
<1>10. low < q[1] => PrevBlock(r, q[1]) = low
  BY <1>2, <1>3, <1>4, <1>5
<1> QED
  BY <1>6, <1>7, <1>8, <1>9, <1>10

\* Prev and Last take m_pProduce for the end, also where it stands on the oldest item.
LEMMA PrevItemIs ==
    ASSUME NEW r, NEW q \in Seq(Address), NEW k \in 1 .. Len(q), NEW low, NEW high,
           Layout(r, q, k, low, high)
    PROVE  /\ \A i \in 1 .. Len(q) - 1 : PrevItem(r, q[i + 1]) = Found(r, q[i])
           /\ LastItem(r) = Found(r, q[Len(q)])
           /\ r.free[r.produce] => PrevItem(r, q[1]) = NoBlock
<1>1. /\ \A m \in 1 .. Len(q) : q[m] \in Address /\ ~r.free[q[m]]
      /\ Len(q) \in Nat /\ 1 \in 1 .. Len(q) /\ Len(q) \in 1 .. Len(q)
      /\ low \in Address /\ (high < MemSize => high \in Address)
      /\ low # high
  BY LayoutFacts
<1>2. high = MemSize \/ high < MemSize
  <2>1. high \in 1 .. MemSize
    BY LayoutFacts
  <2> QED
    BY <2>1, RingBufferAssumption
<1>3. high < MemSize => r.free[high]
  BY DEF Layout
<1>a. /\ \A i \in 1 .. Len(q) - 1 : i # k => PrevBlock(r, q[i + 1]) = q[i]
      /\ k # Len(q) => PrevBlock(r, low) = q[Len(q)]
      /\ high = MemSize => PrevBlock(r, 0) = q[k]
      /\ high < MemSize => PrevBlock(r, high) = q[k] /\ PrevBlock(r, 0) = high
      /\ low < q[1] => PrevBlock(r, q[1]) = low
  BY Preceding
<1>b. /\ r.produce \in {low, high}
      /\ ~r.free[r.produce] => r.produce = q[1] /\ low = q[1]
      /\ \A m \in 1 .. Len(q) : m # 1 => q[m] # r.produce
      /\ k # Len(q) => r.produce = low
      /\ k = Len(q) /\ high = MemSize => r.produce = low
      /\ k = Len(q) /\ high < MemSize => r.produce = high
  BY Producing
<1>c. k # Len(q) => q[k + 1] = 0
  BY Following
<1>d. low < q[1] \/ low = q[1]
  <2>1. low \in 0 .. q[1] /\ q[1] \in 0 .. MemSize - 1
    BY LayoutFacts
  <2> QED
    BY <2>1
<1>e. k = Len(q) => low = 0
  BY DEF Layout
<1>4. \A m \in 1 .. Len(q) : ~Passable(r, q[m])
  BY <1>1 DEF Passable
<1>5. ASSUME NEW i \in 1 .. Len(q) - 1
      PROVE  PrevItem(r, q[i + 1]) = Found(r, q[i])
  <2>1. i \in 1 .. Len(q) /\ i # Len(q)
    BY <1>1
  <2>2. CASE PrevBlock(r, q[i + 1]) = q[i]
    BY <1>1, <1>4, <2>1, <2>2, BackNone
  <2>3. CASE PrevBlock(r, q[i + 1]) # q[i]
    <3>1. i = k
      BY <1>a, <2>3
    <3>2. q[i + 1] = 0 /\ high < MemSize
      BY <1>2, <1>a, <1>c, <2>1, <2>3, <3>1
    <3>3. PrevBlock(r, q[i + 1]) = high /\ PrevBlock(r, high) = q[i]
      BY <1>a, <3>1, <3>2
    <3>4. Passable(r, high)
      BY <1>1, <1>3, <1>b, <2>1, <3>1, <3>2 DEF Passable
    <3> QED
      BY <1>1, <1>4, <2>1, <3>2, <3>3, <3>4, BackOne
  <2> QED
    BY <2>2, <2>3
<1>6. PrevItem(r, r.produce) = Found(r, q[Len(q)])
  <2>1. PrevBlock(r, r.produce) = q[Len(q)]
    BY <1>2, <1>a, <1>b, <1>e
  <2> QED
    BY <1>1, <1>4, <2>1, BackNone
<1>7. ASSUME r.free[r.produce]
      PROVE  PrevItem(r, q[1]) = NoBlock
  <2>1. ~Passable(r, r.produce) /\ Found(r, r.produce) = NoBlock /\ r.produce \in Address
    BY DEF Passable, Found, Layout, RingType
  <2>2. CASE PrevBlock(r, q[1]) = r.produce
    BY <2>1, <2>2, BackNone
  <2>3. CASE PrevBlock(r, q[1]) # r.produce
\* m_pProduce is before the end of the memory, and the first item not at its start.
    <3>1. k = Len(q) /\ high < MemSize /\ r.produce = high /\ low = 0
      <4>1. CASE low = q[1]
        <5>1. r.produce # low
          BY <1>1, <1>7, <4>1
        <5> QED
          BY <1>2, <1>b, <1>e, <5>1
      <4>2. CASE low < q[1]
        BY <1>2, <1>a, <1>b, <1>e, <2>3, <4>2
      <4> QED
        BY <1>d, <4>1, <4>2
    <3>2. low # q[1]
      BY <1>a, <2>3, <3>1
    <3>3. PrevBlock(r, q[1]) = low /\ PrevBlock(r, low) = r.produce
      BY <1>a, <1>d, <3>1, <3>2
    <3>4. r.free[low]
      BY <1>d, <3>2 DEF Layout
    <3>5. Passable(r, low)
      BY <1>1, <3>1, <3>4 DEF Passable
    <3> QED
      BY <1>1, <2>1, <3>3, <3>5, BackOne
  <2> QED
    BY <2>2, <2>3
<1> QED
  BY <1>5, <1>6, <1>7 DEF LastItem

\* The items up to the m-th.
Firsts(p, m) == SubSeq(p, 1, m)

LEMMA FirstsFacts ==
    ASSUME NEW p \in Seq(Address), NEW m \in 0 .. Len(p)
    PROVE  /\ Firsts(p, m) \in Seq(Address) /\ Len(p) \in Nat
           /\ Firsts(p, 0) = <<>>
           /\ Firsts(p, Len(p)) = p
           /\ m # 0 => Firsts(p, m) # <<>> /\ Last(Firsts(p, m)) = p[m]
           /\ m # Len(p) => /\ m + 1 \in 0 .. Len(p) /\ m + 1 \in 1 .. Len(p)
                            /\ Append(Firsts(p, m), p[m + 1]) = Firsts(p, m + 1)
<1>1. Len(p) \in Nat /\ m \in Int /\ 1 \in Int /\ 0 \in Int
  BY EmptySeq
<1>2. ASSUME NEW n \in 0 .. Len(p)
      PROVE  /\ Firsts(p, n) \in Seq(Address) /\ Len(Firsts(p, n)) = n
             /\ \A i \in 1 .. n : Firsts(p, n)[i] = p[i]
  <2>1. n \in Int /\ \A i \in 1 .. n : p[i] \in Address
    BY <1>1
  <2>2. /\ SubSeq(p, 1, n) \in Seq(Address)
        /\ Len(SubSeq(p, 1, n)) = IF 1 <= n THEN n - 1 + 1 ELSE 0
        /\ \A i \in 1 .. n - 1 + 1 : SubSeq(p, 1, n)[i] = p[1 + i - 1]
    BY <1>1, <2>1, SubSeqProperties
  <2> DEFINE s == SubSeq(p, 1, n)
  <2> HIDE DEF s
  <2>3. s \in Seq(Address) /\ Len(s) = n
    BY <2>1, <2>2 DEF s
  <2>4. \A i \in 1 .. n : s[i] = p[i]
    <3>1. n - 1 + 1 = n /\ \A i \in 1 .. n : 1 + i - 1 = i
      BY <2>1
    <3> QED
      BY <2>2, <3>1 DEF s
  <2> QED
    BY <2>3, <2>4 DEF Firsts, s
<1>3. Firsts(p, 0) = <<>>
  BY <1>1, SubSeqEmpty DEF Firsts
<1>4. Firsts(p, Len(p)) = p
  <2>1. Len(p) \in 0 .. Len(p)
    BY <1>1
  <2> DEFINE s == Firsts(p, Len(p))
  <2>2. s \in Seq(Address) /\ Len(s) = Len(p) /\ \A i \in 1 .. Len(s) : s[i] = p[i]
    BY <1>2, <2>1
  <2> HIDE DEF s
  <2>3. s = p
    BY <2>2, SeqEqual
  <2> QED
    BY <2>3 DEF s
<1>5. m # 0 => Firsts(p, m) # <<>> /\ Last(Firsts(p, m)) = p[m]
  <2>1. SUFFICES ASSUME m # 0
                 PROVE  Firsts(p, m) # <<>> /\ Last(Firsts(p, m)) = p[m]
    OBVIOUS
  <2>2. m \in 1 .. m
    BY <1>1, <2>1
  <2>3. Len(Firsts(p, m)) = m /\ Firsts(p, m)[m] = p[m]
    BY <1>2, <2>2
  <2>4. Firsts(p, m) # <<>>
    BY <2>1, <2>3
  <2> QED
    BY <2>3, <2>4 DEF Last
<1>6. ASSUME m # Len(p)
      PROVE  /\ m + 1 \in 0 .. Len(p) /\ m + 1 \in 1 .. Len(p)
             /\ Append(Firsts(p, m), p[m + 1]) = Firsts(p, m + 1)
  <2>1. m + 1 \in 0 .. Len(p) /\ m + 1 \in 1 .. Len(p)
    BY <1>1, <1>6
  <2> DEFINE s == Append(Firsts(p, m), p[m + 1])
             t == Firsts(p, m + 1)
  <2>2. t \in Seq(Address) /\ Len(t) = m + 1 /\ \A i \in 1 .. m + 1 : t[i] = p[i]
    BY <1>2, <2>1
  <2>3. p[m + 1] \in Address
    BY <2>1
  <2>4. /\ s \in Seq(Address) /\ Len(s) = Len(Firsts(p, m)) + 1
        /\ \A i \in 1 .. Len(Firsts(p, m)) : s[i] = Firsts(p, m)[i]
        /\ s[Len(Firsts(p, m)) + 1] = p[m + 1]
    BY <1>2, <2>3, AppendProperties
  <2>5. Len(s) = m + 1 /\ s[m + 1] = p[m + 1] /\ \A i \in 1 .. m : s[i] = p[i]
    BY <1>2, <2>4
  <2> HIDE DEF s, t
  <2>6. \A i \in 1 .. Len(s) : s[i] = t[i]
    <3>1. ASSUME NEW i \in 1 .. Len(s)
          PROVE  s[i] = t[i]
      <4>1. (i \in 1 .. m \/ i = m + 1) /\ i \in 1 .. m + 1
        BY <1>1, <2>5
      <4> QED
        BY <2>2, <2>5, <4>1
    <3> QED
      BY <3>1
  <2>7. s = t
    BY <2>2, <2>4, <2>5, <2>6, SeqEqual
  <2> QED
    BY <2>1, <2>7 DEF s, t
<1> QED
  BY <1>1, <1>2, <1>3, <1>4, <1>5, <1>6

\* A walk that visits the items of p one after the other.
LEMMA WalkEnds ==
    ASSUME NEW p \in Seq(Address), Len(p) <= MemSize, NEW further,
           \A m \in 0 .. Len(p) :
              further[Firsts(p, m)] = IF m = Len(p) THEN p ELSE Append(Firsts(p, m), p[m + 1])
    PROVE  Loop(further, <<>>) = p
<1> DEFINE at(n) == IF n < Len(p) THEN n ELSE Len(p)
           F == [n \in 0 .. MemSize |-> {Firsts(p, at(n))}]
<1>1. Len(p) \in Nat /\ MemSize \in Nat \ {0} /\ 0 \in 0 .. Len(p) /\ Len(p) \in 0 .. Len(p)
      /\ 0 \in 0 .. MemSize /\ MemSize \in 0 .. MemSize
  BY RingBufferAssumption
<1>2. at(0) = 0 /\ at(MemSize) = Len(p)
  BY <1>1
<1>3. <<>> \in F[0]
  BY <1>1, <1>2, FirstsFacts
<1>4. ASSUME NEW n \in 0 .. MemSize - 1, NEW s \in F[n]
      PROVE  further[s] \in F[n + 1]
  <2>1. n \in 0 .. MemSize /\ n + 1 \in 0 .. MemSize
    BY <1>1
  <2>2. s = Firsts(p, at(n)) /\ F[n + 1] = {Firsts(p, at(n + 1))}
    BY <2>1
  <2>3. at(n) \in 0 .. Len(p) /\ (IF at(n) = Len(p) THEN at(n + 1) = Len(p) ELSE at(n + 1) = at(n) + 1)
    BY <1>1
  <2> HIDE DEF at, F
  <2>4. further[s] = IF at(n) = Len(p) THEN p ELSE Append(Firsts(p, at(n)), p[at(n) + 1])
    BY <2>2, <2>3
  <2>5. further[s] = Firsts(p, at(n + 1))
    <3>1. CASE at(n) = Len(p)
      <4>1. Firsts(p, Len(p)) = p
        BY <1>1, FirstsFacts
      <4> QED
        BY <2>3, <2>4, <3>1, <4>1
    <3>2. CASE at(n) # Len(p)
      <4>1. Append(Firsts(p, at(n)), p[at(n) + 1]) = Firsts(p, at(n) + 1)
        BY <2>3, <3>2, FirstsFacts
      <4> QED
        BY <2>3, <2>4, <3>2, <4>1
    <3> QED
      BY <3>1, <3>2
  <2> QED
    BY <2>2, <2>5
<1>5. Loop(further, <<>>) \in F[MemSize]
  <2> HIDE DEF F
  <2> QED
    BY <1>3, <1>4, LoopEnds
<1>6. F[MemSize] = {p}
  BY <1>1, <1>2, FirstsFacts
<1> QED
  BY <1>5, <1>6

LEMMA WalkLayout ==
    ASSUME NEW r, NEW q \in Seq(Address), NEW k \in 1 .. Len(q), NEW low, NEW high,
           Layout(r, q, k, low, high)
    PROVE  Walk(r) = q
<1> DEFINE further == [s \in Seq(Address) |->
                         Visit(s, IF s = <<>> THEN FirstItem(r) ELSE NextItem(r, Last(s)))]
<1>1. /\ \A i \in 1 .. Len(q) : q[i] \in Address /\ ~r.free[q[i]] /\ q[i] # NoBlock
      /\ Len(q) \in Nat /\ 1 \in 1 .. Len(q)
  <2>1. /\ \A i \in 1 .. Len(q) : q[i] \in Address /\ ~r.free[q[i]]
        /\ Len(q) \in Nat /\ 1 \in 1 .. Len(q)
    BY LayoutFacts
  <2>2. \A a \in Address : a # NoBlock
    BY RingBufferAssumption DEF Address, NoBlock
  <2> QED
    BY <2>1, <2>2
<1>2. Len(q) <= MemSize
  BY FewItems DEF Layout
<1>3. FirstItem(r) = q[1]
  <2>1. r.consume = q[1]
    BY DEF Layout
  <2> QED
    BY <1>1, <2>1 DEF FirstItem
<1>4. ASSUME NEW m \in 0 .. Len(q)
      PROVE  further[Firsts(q, m)] = IF m = Len(q) THEN q ELSE Append(Firsts(q, m), q[m + 1])
  <2>1. /\ Firsts(q, m) \in Seq(Address) /\ Firsts(q, 0) = <<>> /\ Firsts(q, Len(q)) = q
        /\ m # 0 => Firsts(q, m) # <<>> /\ Last(Firsts(q, m)) = q[m]
        /\ m # Len(q) => m + 1 \in 1 .. Len(q)
    BY FirstsFacts
  <2>2. further[Firsts(q, m)] = Visit(Firsts(q, m), IF Firsts(q, m) = <<>> THEN FirstItem(r) ELSE NextItem(r, Last(Firsts(q, m))))
    BY <2>1
  <2> HIDE DEF further
  <2>3. CASE m = 0
    <3>1. m # Len(q) /\ m + 1 = 1
      BY <1>1, <2>3
    <3> QED
      BY <1>1, <1>3, <2>1, <2>2, <2>3, <3>1 DEF Visit
  <2>4. CASE m # 0
    <3>1. m \in 1 .. Len(q)
      BY <1>1, <2>4
    <3>2. NextItem(r, q[m]) = IF m = Len(q) THEN NoBlock ELSE q[m + 1]
      BY <3>1, NextItemIs
    <3> QED
      BY <1>1, <2>1, <2>2, <2>4, <3>2 DEF Visit
  <2> QED
    BY <2>3, <2>4
<1> HIDE DEF further
<1>5. Loop(further, <<>>) = q
  BY <1>2, <1>4, WalkEnds
<1> QED
  BY <1>5 DEF Walk, further

LEMMA WalkBackLayout ==
    ASSUME NEW r, NEW q \in Seq(Address), NEW k \in 1 .. Len(q), NEW low, NEW high,
           Layout(r, q, k, low, high)
    PROVE  WalkBack(r) = Reverse(IF r.free[r.produce] THEN q ELSE Tail(q))
<1> DEFINE further == [s \in Seq(Address) |->
                         Visit(s, IF s = <<>> THEN LastItem(r) ELSE PrevItem(r, Last(s)))]
           n == Len(q)
           p == Reverse(IF r.free[r.produce] THEN q ELSE Tail(q))
<1>1. /\ \A i \in 1 .. n : q[i] \in Address /\ ~r.free[q[i]] /\ q[i] # NoBlock
      /\ n \in Nat /\ 1 \in 1 .. n /\ n \in 1 .. n
  <2>1. /\ \A i \in 1 .. n : q[i] \in Address /\ ~r.free[q[i]]
        /\ n \in Nat /\ 1 \in 1 .. n /\ n \in 1 .. n
    BY LayoutFacts
  <2>2. \A a \in Address : a # NoBlock
    BY RingBufferAssumption DEF Address, NoBlock
  <2> QED
    BY <2>1, <2>2
<1>2. n <= MemSize
  BY FewItems DEF Layout
<1>3. /\ p \in Seq(Address)
      /\ Len(p) = IF r.free[r.produce] THEN n ELSE n - 1
      /\ \A j \in 1 .. Len(p) : p[j] = q[n - j + 1] /\ n - j + 1 \in 1 .. n
  <2>1. CASE r.free[r.produce]
    <3>1. p = [j \in 1 .. n |-> q[n - j + 1]]
      BY <2>1 DEF Reverse
    <3>2. \A j \in 1 .. n : n - j + 1 \in 1 .. n
      BY <1>1
    <3>3. p \in [1 .. n -> Address]
      BY <1>1, <3>1, <3>2
    <3>4. p \in Seq(Address) /\ Len(p) = n
      BY <1>1, <3>3
    <3> HIDE DEF p
    <3> QED
      BY <2>1, <3>1, <3>2, <3>4
  <2>2. CASE ~r.free[r.produce]
    <3> DEFINE t == Tail(q)
    <3>1. /\ t \in Seq(Address) /\ Len(t) = n - 1
          /\ \A i \in 1 .. Len(t) : t[i] = q[i + 1]
      BY <1>1, TailFacts
    <3>2. p = [j \in 1 .. Len(t) |-> t[Len(t) - j + 1]]
      BY <2>2 DEF Reverse
    <3> HIDE DEF p, t
    <3>3. ASSUME NEW j \in 1 .. n - 1
          PROVE  /\ t[Len(t) - j + 1] = q[n - j + 1] /\ n - j + 1 \in 1 .. n
      <4>1. /\ Len(t) - j + 1 \in 1 .. Len(t) /\ (Len(t) - j + 1) + 1 = n - j + 1
            /\ n - j + 1 \in 1 .. n
        BY <1>1, <3>1
      <4> QED
        BY <3>1, <4>1
    <3>4. p = [j \in 1 .. n - 1 |-> q[n - j + 1]]
      BY <3>1, <3>2, <3>3
    <3>5. p \in [1 .. n - 1 -> Address]
      BY <1>1, <3>3, <3>4
    <3>6. n - 1 \in Nat
      BY <1>1
    <3>7. p \in Seq(Address) /\ Len(p) = n - 1
      BY <3>5, <3>6
    <3> QED
      BY <2>2, <3>3, <3>4, <3>7
  <2> QED
    BY <2>1, <2>2
<1>4. /\ \A i \in 1 .. n - 1 : PrevItem(r, q[i + 1]) = Found(r, q[i])
      /\ LastItem(r) = Found(r, q[n])
      /\ r.free[r.produce] => PrevItem(r, q[1]) = NoBlock
  BY PrevItemIs
<1>5. /\ ~r.free[r.produce] => r.produce = q[1]
      /\ \A i \in 1 .. n : i # 1 => q[i] # r.produce
  BY Producing
<1> HIDE DEF p
\* Going back, a walk finds the item before the m it has visited, if p has it.
<1>6. ASSUME NEW m \in 0 .. Len(p), m # n
      PROVE  Found(r, q[n - m]) = IF m = Len(p) THEN NoBlock ELSE p[m + 1]
  <2>1. Len(p) \in Nat /\ m \in Nat
    BY <1>1, <1>3
  <2>2. CASE m = Len(p)
    <3>1. ~r.free[r.produce]
      BY <1>3, <1>6, <2>2
    <3>2. n - m = 1
      BY <1>1, <1>3, <2>2, <3>1
    <3> QED
      BY <1>5, <2>2, <3>1, <3>2 DEF Found
  <2>3. CASE m # Len(p)
    <3>1. m + 1 \in 1 .. Len(p) /\ n - (m + 1) + 1 = n - m
      BY <1>1, <2>1, <2>3
    <3>2. p[m + 1] = q[n - m] /\ n - m \in 1 .. n
      BY <1>3, <3>1
    <3>3. q[n - m] # r.produce
      <4>1. CASE r.free[r.produce]
        BY <1>1, <3>2, <4>1
      <4>2. CASE ~r.free[r.produce]
        <5>1. n - m # 1
          BY <1>1, <1>3, <2>1, <3>1, <4>2
        <5> QED
          BY <1>5, <3>2, <5>1
      <4> QED
        BY <4>1, <4>2
    <3> QED
      BY <2>3, <3>2, <3>3 DEF Found
  <2> QED
    BY <2>2, <2>3
<1>7. ASSUME NEW m \in 0 .. Len(p)
      PROVE  further[Firsts(p, m)] = IF m = Len(p) THEN p ELSE Append(Firsts(p, m), p[m + 1])
  <2>1. /\ Firsts(p, m) \in Seq(Address) /\ Firsts(p, 0) = <<>> /\ Firsts(p, Len(p)) = p
        /\ m # 0 => Firsts(p, m) # <<>> /\ Last(Firsts(p, m)) = p[m]
        /\ m # Len(p) => m + 1 \in 1 .. Len(p)
    BY <1>3, FirstsFacts
  <2>2. further[Firsts(p, m)] = Visit(Firsts(p, m), IF Firsts(p, m) = <<>> THEN LastItem(r) ELSE PrevItem(r, Last(Firsts(p, m))))
    BY <2>1
  <2> HIDE DEF further
  <2>3. m \in Nat /\ Len(p) \in Nat /\ Len(p) <= n
    BY <1>1, <1>3
  <2>4. m # Len(p) => p[m + 1] # NoBlock
    <3>1. \A j \in 1 .. Len(p) : p[j] # NoBlock
      BY <1>1, <1>3
    <3> QED
      BY <2>1, <3>1
  <2>5. (IF Firsts(p, m) = <<>> THEN LastItem(r) ELSE PrevItem(r, Last(Firsts(p, m))))
        = IF m = Len(p) THEN NoBlock ELSE p[m + 1]
    <3>1. CASE m = 0
      <4>1. m # n /\ n - m = n
        BY <1>1, <3>1
      <4>2. Found(r, q[n]) = IF m = Len(p) THEN NoBlock ELSE p[m + 1]
        BY <1>6, <4>1
      <4> QED
        BY <1>4, <2>1, <3>1, <4>2
    <3>2. CASE m # 0
      <4>1. m \in 1 .. Len(p)
        BY <2>3, <3>2
      <4>2. Last(Firsts(p, m)) = q[n - m + 1] /\ Firsts(p, m) # <<>>
        BY <1>3, <2>1, <3>2, <4>1
      <4>3. CASE m = n
        <5>1. r.free[r.produce] /\ m = Len(p) /\ n - m + 1 = 1
          BY <1>1, <1>3, <2>3, <4>3
        <5> QED
          BY <1>4, <4>2, <5>1
      <4>4. CASE m # n
        <5>1. n - m \in 1 .. n - 1 /\ (n - m) + 1 = n - m + 1
          BY <1>1, <2>3, <4>1, <4>4
        <5>2. PrevItem(r, q[n - m + 1]) = Found(r, q[n - m])
          BY <1>4, <5>1
        <5>3. Found(r, q[n - m]) = IF m = Len(p) THEN NoBlock ELSE p[m + 1]
          BY <1>6, <4>4
        <5> QED
          BY <4>2, <5>2, <5>3
      <4> QED
        BY <4>3, <4>4
    <3> QED
      BY <3>1, <3>2
  <2>6. further[Firsts(p, m)] = Visit(Firsts(p, m), IF m = Len(p) THEN NoBlock ELSE p[m + 1])
    BY <2>2, <2>5
  <2>7. CASE m = Len(p)
    BY <2>1, <2>6, <2>7 DEF Visit
  <2>8. CASE m # Len(p)
    BY <2>4, <2>6, <2>8 DEF Visit
  <2> QED
    BY <2>7, <2>8
<1> HIDE DEF further
<1>8. Len(p) <= MemSize
  BY <1>1, <1>2, <1>3, RingBufferAssumption
<1>9. Loop(further, <<>>) = p
  BY <1>3, <1>7, <1>8, WalkEnds
<1> QED
  BY <1>9 DEF WalkBack, further, p

\* The iterations visit the items that the ring holds.
LEMMA WalkIs ==
    ASSUME NEW r, NEW q \in Seq(Address), Holds(r, q)
    PROVE  /\ Walk(r) = q
           /\ WalkBack(r) = Reverse(IF r.free[r.produce] THEN q ELSE Tail(q))
<1>1. ASSUME NEW k \in 1 .. Len(q), NEW low, NEW high, Layout(r, q, k, low, high)
      PROVE  /\ Walk(r) = q
             /\ WalkBack(r) = Reverse(IF r.free[r.produce] THEN q ELSE Tail(q))
  BY <1>1, WalkLayout, WalkBackLayout
<1>2. CASE q = <<>> /\ r = Cleared
  <2> DEFINE p == <<>>
             there == [s \in Seq(Address) |->
                         Visit(s, IF s = <<>> THEN FirstItem(r) ELSE NextItem(r, Last(s)))]
             back == [s \in Seq(Address) |->
                        Visit(s, IF s = <<>> THEN LastItem(r) ELSE PrevItem(r, Last(s)))]
  <2>1. /\ p \in Seq(Address) /\ Len(p) = 0 /\ Len(p) <= MemSize
        /\ \A m \in 0 .. Len(p) : m = 0 /\ Firsts(p, m) = p
    <3>1. p \in Seq(Address) /\ Len(p) = 0 /\ 0 \in 0 .. Len(p)
      BY EmptySeq
    <3>2. Firsts(p, 0) = p
      BY <3>1, FirstsFacts
    <3> QED
      BY <3>1, <3>2, RingBufferAssumption
  <2>2. FirstItem(r) = NoBlock
    BY <1>2, ClearedFacts DEF FirstItem
  <2>3. LastItem(r) = NoBlock
    <3>1. r.produce = 0 /\ r.free[0] /\ 0 \in Address /\ r \in RingType /\ NoOverlap(r)
      BY <1>2, ClearedFacts
    <3>2. IsBlock(r, 0) /\ End(r, 0) = MemSize
      BY <1>2, ClearedFacts, RingBufferAssumption DEF IsBlock, End
    <3>3. NextBlock(r, 0) = 0
      BY <3>1, <3>2, NextIs
    <3>4. PrevBlock(r, 0) = 0
      BY <3>1, <3>2, <3>3, PrevIs
    <3>5. ~Passable(r, 0) /\ Found(r, 0) = NoBlock
      BY <3>1 DEF Passable, Found
    <3>6. PrevItem(r, 0) = NoBlock
      BY <3>1, <3>4, <3>5, BackNone
    <3> QED
      BY <3>1, <3>6 DEF LastItem
  <2>4. there[p] = p /\ back[p] = p
    BY <2>1, <2>2, <2>3 DEF Visit
  <2> HIDE DEF there, back, p
  <2>5. Loop(there, <<>>) = p /\ Loop(back, <<>>) = p
    BY <2>1, <2>4, WalkEnds
  <2>6. Walk(r) = p /\ WalkBack(r) = p
    BY <2>5 DEF Walk, WalkBack, there, back
  <2>7. r.free[r.produce]
    BY <1>2, ClearedFacts
  <2>8. Reverse(p) = p
    <3>1. Reverse(p) = [i \in 1 .. 0 |-> p[0 - i + 1]]
      BY <2>1 DEF Reverse
    <3>2. Reverse(p) \in Seq(Address) /\ Len(Reverse(p)) = 0
      BY <3>1
    <3> QED
      BY <3>2, EmptySeq DEF p
  <2> QED
    BY <1>2, <2>6, <2>7, <2>8 DEF p
<1> QED
  BY <1>1, <1>2 DEF Holds

-----------------------------------------------------------------------------
(* The invariant *)

\* The ring holds some items, and what is stored has its type.
IInv ==
    /\ \E q \in Seq(Address) : Holds(Ring, q)
    /\ value \in [Address -> Item \cup {None}]
    /\ recycle \in BOOLEAN
    /\ call \in [wanted : Wanted \cup {0}, null : BOOLEAN]

\* What is stored for the items stays.
Kept(q) == \A i \in 1 .. Len(q) : value'[q[i]] = value[q[i]]

LEMMA SetRingIs ==
    ASSUME NEW r \in RingType, NEW stored, SetRing(r, stored)
    PROVE  /\ Ring' = r /\ recycle' = recycle
           /\ \A a \in Address : value'[a] = IF r.free[a] THEN None ELSE stored[a]
           /\ stored \in [Address -> Item \cup {None}] => value' \in [Address -> Item \cup {None}]
<1>1. size' = r.size /\ free' = r.free /\ produce' = r.produce /\ consume' = r.consume
  BY DEF SetRing
<1>2. r = [size |-> r.size, free |-> r.free, produce |-> r.produce, consume |-> r.consume]
  BY DEF RingType
<1>3. Ring' = [size |-> size', free |-> free', produce |-> produce', consume |-> consume']
  BY DEF Ring
<1>4. Ring' = r
  BY <1>1, <1>2, <1>3
<1>5. value' = [a \in Address |-> IF r.free[a] THEN None ELSE stored[a]] /\ recycle' = recycle
  BY DEF SetRing
<1> QED
  BY <1>4, <1>5

LEMMA InitHolds ==
    ASSUME Init
    PROVE  IInv /\ Holds(Ring, <<>>)
<1>1. Ring = Cleared
  BY DEF Init, Ring, Cleared
<1>2. <<>> \in Seq(Address) /\ Holds(Ring, <<>>)
  BY <1>1, EmptySeq DEF Holds
<1>3. /\ value \in [Address -> Item \cup {None}] /\ recycle \in BOOLEAN
      /\ call \in [wanted : Wanted \cup {0}, null : BOOLEAN]
  BY DEF Init
<1> QED
  BY <1>2, <1>3 DEF IInv

LEMMA PopStep ==
    ASSUME IInv, NEW q \in Seq(Address), Holds(Ring, q), Pop
    PROVE  /\ q # <<>> /\ Tail(q) \in Seq(Address) /\ Holds(Ring', Tail(q)) /\ Kept(Tail(q))
           /\ IInv' /\ recycle' = recycle /\ Returned(0, FALSE)
<1> DEFINE r == PopFirst(Ring)
<1>1. ~Ring.free[Ring.consume] /\ SetRing(r, value) /\ Returned(0, FALSE)
  BY DEF Pop, Ring
<1>2. q # <<>>
  BY <1>1, HoldsFacts
<1>3. Holds(r, Tail(q)) /\ Tail(q) \in Seq(Address)
  BY <1>2, PopHolds
<1>4. r \in RingType /\ \A i \in 1 .. Len(Tail(q)) : Tail(q)[i] \in Address /\ ~r.free[Tail(q)[i]]
  BY <1>3, HoldsFacts
<1> HIDE DEF r
<1>5. /\ Ring' = r /\ recycle' = recycle
      /\ \A a \in Address : value'[a] = IF r.free[a] THEN None ELSE value[a]
      /\ value' \in [Address -> Item \cup {None}]
  BY <1>1, <1>4, SetRingIs DEF IInv
<1>6. Kept(Tail(q))
  BY <1>4, <1>5 DEF Kept
<1>7. IInv'
  BY <1>1, <1>3, <1>5 DEF IInv, Returned
<1> QED
  BY <1>1, <1>2, <1>3, <1>5, <1>6, <1>7

\* Allocate refuses the item, or discards m items and stores the new one at b.
Refused(q, w) == (w > MemSize \/ ~recycle) /\ Returned(w, TRUE) /\ Holds(Ring', q) /\ Kept(q)

Accepted(q, w, v, m, b) ==
    /\ w <= MemSize /\ Returned(w, FALSE)
    /\ m > 0 => recycle
    /\ Holds(Ring', Append(Rests(q, m), b)) /\ Kept(Rests(q, m)) /\ value'[b] = v

LEMMA AllocateStep ==
    ASSUME IInv, NEW q \in Seq(Address), Holds(Ring, q),
           NEW w \in Wanted, NEW v \in Item, Allocate(w, v)
    PROVE  /\ IInv' /\ recycle' = recycle
           /\ \/ Refused(q, w)
              \/ \E m \in 0 .. Len(q), b \in Address : Accepted(q, w, v, m, b)
<1> DEFINE e == MakeRoom(Ring, w)
           b == FindBlock(e, w)
<1>1. w \in Nat \ {0} /\ MemSize \in Nat
  BY RingBufferAssumption
<1>2. CASE w > MemSize
  <2>1. UNCHANGED <<size, free, value, produce, consume, recycle>> /\ Returned(w, TRUE)
    BY <1>2 DEF Allocate
  <2>2. Ring' = Ring
    BY <2>1 DEF Ring
  <2>3. IInv'
    BY <2>1, <2>2 DEF IInv, Returned
  <2> QED
    BY <1>2, <2>1, <2>2, <2>3 DEF Refused, Kept
<1>3. CASE ~(w > MemSize)
  <2>1. PICK m \in 0 .. Len(q) : Holds(e, Rests(q, m)) /\ (m > 0 => recycle)
    BY MakeRoomHolds
  <2>2. Rests(q, m) \in Seq(Address) /\ Rests(q, 0) = q
    BY RestsFacts
  <2>3. /\ e \in RingType
        /\ \A i \in 1 .. Len(Rests(q, m)) : Rests(q, m)[i] \in Address /\ ~e.free[Rests(q, m)[i]]
    BY <2>1, <2>2, HoldsFacts
  <2>4. CASE b = NoBlock
    <3>1. SetRing(e, value) /\ Returned(w, TRUE)
      BY <1>3, <2>4 DEF Allocate
    <3>2. ~recycle
      BY <1>1, <1>3, <2>4, RoomMade
    <3> HIDE DEF e, b
    <3>3. m = 0
      <4>1. m \in Nat
        BY EmptySeq
      <4> QED
        BY <2>1, <3>2, <4>1
    <3>4. /\ Ring' = e /\ recycle' = recycle
          /\ \A a \in Address : value'[a] = IF e.free[a] THEN None ELSE value[a]
          /\ value' \in [Address -> Item \cup {None}]
      BY <2>3, <3>1, SetRingIs DEF IInv
    <3>5. Holds(Ring', q) /\ Kept(q)
      BY <2>1, <2>2, <2>3, <3>3, <3>4 DEF Kept
    <3>6. IInv'
      BY <3>1, <3>4, <3>5 DEF IInv, Returned
    <3> QED
      BY <3>1, <3>2, <3>4, <3>5, <3>6 DEF Refused
  <2>5. CASE b # NoBlock
    <3> DEFINE r == Carve(e, w)
    <3>1. SetRing(r, [value EXCEPT ![b] = v]) /\ Returned(w, FALSE)
      BY <1>3, <2>5 DEF Allocate
    <3> HIDE DEF e
    <3>2. b \in Address /\ e.free[b] /\ Holds(r, Append(Rests(q, m), b))
      BY <1>1, <2>1, <2>2, <2>5, CarveHolds
    <3> HIDE DEF b, r
    <3> DEFINE t == Append(Rests(q, m), b)
    <3>3. /\ t \in Seq(Address) /\ Len(t) = Len(Rests(q, m)) + 1 /\ Len(Rests(q, m)) \in Nat
          /\ t[Len(Rests(q, m)) + 1] = b
          /\ \A i \in 1 .. Len(Rests(q, m)) : t[i] = Rests(q, m)[i]
      BY <2>2, <3>2, AppendFacts
    <3> HIDE DEF t
    <3>4. r \in RingType /\ \A i \in 1 .. Len(t) : ~r.free[t[i]]
      BY <3>2, <3>3, HoldsFacts DEF t
    <3> DEFINE stored == [value EXCEPT ![b] = v]
    <3>5. /\ stored \in [Address -> Item \cup {None}] /\ stored[b] = v
          /\ \A a \in Address : a # b => stored[a] = value[a]
      BY <3>2 DEF IInv
    <3>6. SetRing(r, stored)
      BY <3>1
    <3> HIDE DEF stored
    <3>7. /\ Ring' = r /\ recycle' = recycle
          /\ \A a \in Address : value'[a] = IF r.free[a] THEN None ELSE stored[a]
          /\ value' \in [Address -> Item \cup {None}]
      BY <3>4, <3>5, <3>6, SetRingIs
    <3>8. value'[b] = v
      <4>1. Len(Rests(q, m)) + 1 \in 1 .. Len(t)
        BY <3>3
      <4>2. ~r.free[b]
        BY <3>3, <3>4, <4>1
      <4> QED
        BY <3>2, <3>5, <3>7, <4>2
    <3>9. Kept(Rests(q, m))
      <4>1. ASSUME NEW i \in 1 .. Len(Rests(q, m))
            PROVE  value'[Rests(q, m)[i]] = value[Rests(q, m)[i]]
        <5>1. i \in 1 .. Len(t)
          BY <3>3
        <5>2. ~r.free[Rests(q, m)[i]]
          BY <3>3, <3>4, <5>1
        <5>3. Rests(q, m)[i] \in Address /\ Rests(q, m)[i] # b
          BY <2>3, <3>2
        <5> QED
          BY <3>5, <3>7, <5>2, <5>3
      <4> QED
        BY <4>1 DEF Kept
    <3>10. IInv'
      BY <3>1, <3>2, <3>3, <3>7 DEF IInv, Returned, t
    <3>11. Accepted(q, w, v, m, b)
      <4>1. w <= MemSize
        BY <1>1, <1>3
      <4>2. Holds(Ring', Append(Rests(q, m), b))
        BY <3>2, <3>7
      <4> QED
        BY <2>1, <3>1, <3>8, <3>9, <4>1, <4>2 DEF Accepted
    <3> QED
      BY <3>2, <3>7, <3>10, <3>11
  <2> QED
    BY <2>4, <2>5
<1> QED
  BY <1>2, <1>3

LEMMA NextHolds ==
    ASSUME IInv, [Next]_vars
    PROVE  IInv'
<1>1. PICK q \in Seq(Address) : Holds(Ring, q)
  BY DEF IInv
<1>2. CASE UNCHANGED vars
  BY <1>2 DEF IInv, vars, Ring
<1>3. ASSUME NEW w \in Wanted, NEW v \in Item, Allocate(w, v)
      PROVE  IInv'
  BY <1>1, <1>3, AllocateStep
<1>4. CASE Pop
  BY <1>1, <1>4, PopStep
<1> QED
  BY <1>2, <1>3, <1>4 DEF Next

LEMMA IInvAlways ==
    Spec => []IInv
<1>1. Init => IInv
  BY InitHolds
<1>2. IInv /\ [Next]_vars => IInv'
  BY NextHolds
<1> QED
  BY <1>1, <1>2, PTL DEF Spec

-----------------------------------------------------------------------------
(* Theorems *)

\* Blocks stay within the memory, and m_pProduce and m_pConsume stand on blocks, whatever
\* Allocate and PopFirst split, merge and discard.
THEOREM RingTypeCorrect ==
    Spec => []TypeOK
<1>1. ASSUME IInv
      PROVE  TypeOK
  <2>1. PICK q \in Seq(Address) : Holds(Ring, q)
    BY <1>1 DEF IInv
  <2>2. Ring \in RingType /\ IsBlock(Ring, Ring.produce) /\ IsBlock(Ring, Ring.consume)
    BY <2>1, HoldsFacts
  <2>3. Ring.size = size /\ Ring.free = free /\ Ring.produce = produce /\ Ring.consume = consume
    BY DEF Ring
  <2>4. /\ size \in [Address -> 0 .. MemSize] /\ free \in [Address -> BOOLEAN]
        /\ produce \in Address /\ consume \in Address
    BY <2>2, <2>3 DEF RingType
  <2>5. IsBlock(Ring, produce) /\ IsBlock(Ring, consume)
    BY <2>2, <2>3
  <2> QED
    BY <1>1, <2>4, <2>5 DEF TypeOK, IInv
<1> QED
  BY <1>1, IInvAlways, PTL

\* Items and free blocks always lie in the memory as Layout says: the items follow each
\* other, wrapping at most once, with one gap at the end of the memory and one before the
\* oldest item, each merged into one free block.
THEOREM RingTiled ==
    Spec => []Tiled
<1>1. ASSUME IInv
      PROVE  Tiled
  BY <1>1, WalkIs DEF IInv, Tiled
<1> QED
  BY <1>1, IInvAlways, PTL

\* First and Next visit every item once, Last and Prev the same in reverse but for the
\* oldest item of a full memory.
THEOREM WalkCompleteHolds ==
    Spec => []WalkComplete
<1>1. ASSUME IInv
      PROVE  WalkComplete
  <2>1. PICK q \in Seq(Address) : Holds(Ring, q)
    BY <1>1 DEF IInv
  <2>2. Walk(Ring) = q /\ WalkBack(Ring) = Reverse(IF Ring.free[Ring.produce] THEN q ELSE Tail(q))
    BY <2>1, WalkIs
  <2>3. Ring.free = free /\ Ring.produce = produce
    BY DEF Ring
  <2>4. /\ \A i \in 1 .. Len(q) : q[i] \in Address /\ ~free[q[i]] /\ IsBlock(Ring, q[i])
        /\ \A a \in Address : free[a] <=> \A i \in 1 .. Len(q) : q[i] # a
    BY <2>1, <2>3, HoldsFacts DEF Used
  <2>5. {q[i] : i \in 1 .. Len(q)} = InUse
    BY <2>4 DEF InUse
  <2> QED
    BY <2>2, <2>3, <2>5 DEF WalkComplete
<1> QED
  BY <1>1, IInvAlways, PTL

-----------------------------------------------------------------------------
(* Refinement *)

\* What is stored for the items q.
Contents(q) == [i \in 1 .. Len(q) |-> value[q[i]]]

LEMMA QueueIs ==
    ASSUME IInv, NEW q \in Seq(Address), Holds(Ring, q)
    PROVE  Queue = Contents(q) /\ Queue \in Seq(Item \cup {None}) /\ Len(Queue) = Len(q)
<1>1. Walk(Ring) = q
  BY WalkIs
<1>2. Queue = Contents(q)
  BY <1>1 DEF Queue, Contents
<1>3. \A i \in 1 .. Len(q) : value[q[i]] \in Item \cup {None}
  BY DEF IInv
<1>4. Contents(q) \in [1 .. Len(q) -> Item \cup {None}]
  BY <1>3 DEF Contents
<1>5. Contents(q) \in Seq(Item \cup {None}) /\ Len(Contents(q)) = Len(q)
  BY <1>4
<1> QED
  BY <1>2, <1>5

LEMMA QueueNext ==
    ASSUME NEW q \in Seq(Address), Holds(Ring', q)
    PROVE  Queue' = [i \in 1 .. Len(q) |-> value'[q[i]]]
<1>1. Walk(Ring') = q
  BY WalkIs
<1> QED
  BY <1>1 DEF Queue

LEMMA RestsAre ==
    ASSUME NEW q \in Seq(Address), NEW m \in 0 .. Len(q)
    PROVE  /\ Len(Rests(q, m)) = Len(q) - m
           /\ \A i \in 1 .. Len(q) - m : Rests(q, m)[i] = q[m + i] /\ m + i \in 1 .. Len(q)
<1>1. Len(q) \in Nat /\ m \in Int /\ Len(q) \in Int /\ m + 1 \in Int
      /\ \A i \in m + 1 .. Len(q) : q[i] \in Address
  BY EmptySeq
<1>2. /\ Len(Rests(q, m)) = IF m + 1 <= Len(q) THEN Len(q) - (m + 1) + 1 ELSE 0
      /\ \A i \in 1 .. Len(q) - (m + 1) + 1 : Rests(q, m)[i] = q[(m + 1) + i - 1]
  BY <1>1, SubSeqProperties DEF Rests
<1>3. Len(Rests(q, m)) = Len(q) - m
  BY <1>1, <1>2
<1>4. ASSUME NEW i \in 1 .. Len(q) - m
      PROVE  Rests(q, m)[i] = q[m + i] /\ m + i \in 1 .. Len(q)
  <2>1. i \in 1 .. Len(q) - (m + 1) + 1 /\ (m + 1) + i - 1 = m + i /\ m + i \in 1 .. Len(q)
    BY <1>1
  <2> QED
    BY <1>2, <2>1
<1> QED
  BY <1>3, <1>4

\* Discarding the m oldest items discards what is stored for them.
LEMMA ContentsRest ==
    ASSUME IInv, NEW q \in Seq(Address), Holds(Ring, q), NEW m \in 0 .. Len(q)
    PROVE  /\ SubSeq(Queue, m + 1, Len(Queue)) = Contents(Rests(q, m))
           /\ Contents(Rests(q, m)) \in Seq(Item \cup {None})
           /\ Len(Contents(Rests(q, m))) = Len(Rests(q, m))
<1> DEFINE T == Item \cup {None}
           c == Contents(Rests(q, m))
           s == SubSeq(Queue, m + 1, Len(Queue))
<1>1. Queue = Contents(q) /\ Queue \in Seq(T) /\ Len(Queue) = Len(q)
  BY QueueIs
<1>2. Len(q) \in Nat /\ Len(q) \in Int /\ m \in Int /\ m + 1 \in Int
  BY EmptySeq
<1>3. \A i \in 1 .. Len(q) : Queue[i] = value[q[i]] /\ value[q[i]] \in T
  BY <1>1 DEF Contents, IInv
<1>4. /\ Len(Rests(q, m)) = Len(q) - m
      /\ \A i \in 1 .. Len(q) - m : Rests(q, m)[i] = q[m + i] /\ m + i \in 1 .. Len(q)
  BY RestsAre
<1>5. c = [i \in 1 .. Len(q) - m |-> value[q[m + i]]]
  BY <1>4 DEF Contents
<1> HIDE DEF c, T
<1>6. c \in Seq(T) /\ Len(c) = Len(q) - m
  <2>1. c \in [1 .. Len(q) - m -> T]
    BY <1>3, <1>4, <1>5
  <2>2. Len(q) - m \in Nat
    BY <1>2
  <2> QED
    BY <2>1, <2>2
<1>7. s \in Seq(T) /\ Len(s) = Len(q) - m /\ \A i \in 1 .. Len(q) - m : s[i] = Queue[m + i]
  <2>1. \A i \in m + 1 .. Len(q) : Queue[i] \in T
    BY <1>2, <1>3
  <2>2. /\ s \in Seq(T)
        /\ Len(s) = IF m + 1 <= Len(q) THEN Len(q) - (m + 1) + 1 ELSE 0
        /\ \A i \in 1 .. Len(q) - (m + 1) + 1 : s[i] = Queue[(m + 1) + i - 1]
    BY <1>1, <1>2, <2>1, SubSeqProperties
  <2> HIDE DEF s
  <2>3. Len(s) = Len(q) - m
    BY <1>2, <2>2
  <2>4. ASSUME NEW i \in 1 .. Len(q) - m
        PROVE  s[i] = Queue[m + i]
    <3>1. i \in 1 .. Len(q) - (m + 1) + 1 /\ (m + 1) + i - 1 = m + i
      BY <1>2
    <3> QED
      BY <2>2, <3>1
  <2> QED
    BY <2>2, <2>3, <2>4
<1> HIDE DEF s
<1>8. \A i \in 1 .. Len(s) : s[i] = c[i]
  BY <1>3, <1>4, <1>5, <1>7
<1>9. s = c
  BY <1>6, <1>7, <1>8, SeqEqual
<1> QED
  BY <1>4, <1>6, <1>9 DEF s, c, T

LEMMA PopRefines ==
    ASSUME IInv, Pop
    PROVE  Fifo!Pop /\ recycle' = recycle
<1>0. Fifo!Returned(0, FALSE)
  BY DEF Pop, Returned, Fifo!Returned
<1>1. PICK q \in Seq(Address) : Holds(Ring, q)
  BY DEF IInv
<1>2. /\ q # <<>> /\ Tail(q) \in Seq(Address) /\ Holds(Ring', Tail(q)) /\ Kept(Tail(q))
      /\ recycle' = recycle
  BY <1>1, PopStep
<1>3. Queue = Contents(q) /\ Queue \in Seq(Item \cup {None}) /\ Len(Queue) = Len(q)
  BY <1>1, QueueIs
<1>4. Queue' = [i \in 1 .. Len(Tail(q)) |-> value'[Tail(q)[i]]]
  BY <1>2, QueueNext
<1>5. Queue' = Contents(Tail(q))
  BY <1>2, <1>4 DEF Kept, Contents
<1>6. 1 \in 1 .. Len(q) /\ Len(q) \in Nat /\ 0 \in 0 .. Len(q) /\ 0 # Len(q) /\ 0 + 1 = 1 /\ 1 \in 0 .. Len(q)
  BY <1>2, EmptySeq
<1>7. Queue # <<>>
  BY <1>3, <1>6
<1>8. Tail(q) = Rests(q, 1)
  BY <1>6, RestsFacts
<1>9. Contents(Rests(q, 1)) = SubSeq(Queue, 2, Len(Queue))
  <2>1. Contents(Rests(q, 1)) = SubSeq(Queue, 1 + 1, Len(Queue))
    BY <1>1, <1>6, ContentsRest
  <2>2. 1 + 1 = 2
    OBVIOUS
  <2> QED
    BY <2>1, <2>2, Zenon
<1>10. Tail(Queue) = SubSeq(Queue, 2, Len(Queue))
  BY <1>3, <1>7, TailIsSubSeq
<1>11. Queue' = Tail(Queue)
  BY <1>5, <1>8, <1>9, <1>10, Zenon
<1> QED
  BY <1>0, <1>2, <1>7, <1>11 DEF Fifo!Pop

LEMMA AllocateRefines ==
    ASSUME IInv, NEW w \in Wanted, NEW v \in Item, Allocate(w, v)
    PROVE  /\ recycle' = recycle
           /\ Fifo!Refuse(w) \/ Fifo!Allocate(w, v)
<1>1. PICK q \in Seq(Address) : Holds(Ring, q)
  BY DEF IInv
<1>2. /\ recycle' = recycle
      /\ Refused(q, w) \/ \E m \in 0 .. Len(q), b \in Address : Accepted(q, w, v, m, b)
  BY <1>1, AllocateStep
<1>3. Queue = Contents(q) /\ Queue \in Seq(Item \cup {None}) /\ Len(Queue) = Len(q)
  BY <1>1, QueueIs
<1>4. CASE Refused(q, w)
  <2>1. (w > MemSize \/ ~recycle) /\ Returned(w, TRUE) /\ Holds(Ring', q) /\ Kept(q)
    BY <1>4 DEF Refused
  <2>2. Queue' = [i \in 1 .. Len(q) |-> value'[q[i]]]
    BY <2>1, QueueNext
  <2>3. Queue' = Contents(q)
    BY <2>1, <2>2 DEF Kept, Contents
  <2>4. Queue' = Queue
    BY <1>3, <2>3, Zenon
  <2>5. Fifo!Refuse(w)
    BY <2>1, <2>4 DEF Returned, Fifo!Refuse, Fifo!Returned
  <2> QED
    BY <1>2, <2>5, Zenon
<1>5. ASSUME NEW m \in 0 .. Len(q), NEW b \in Address, Accepted(q, w, v, m, b)
      PROVE  Fifo!Allocate(w, v)
  <2> DEFINE p == Rests(q, m)
             t == Append(p, b)
             c == Contents(p)
             T == Item \cup {None}
  <2>1. (m > 0 => recycle) /\ Holds(Ring', t) /\ Kept(p) /\ value'[b] = v
    BY <1>5 DEF Accepted
  <2>2. p \in Seq(Address)
    BY RestsFacts
  <2>3. SubSeq(Queue, m + 1, Len(Queue)) = c /\ c \in Seq(T) /\ Len(c) = Len(p)
    BY <1>1, ContentsRest
  <2>4. /\ t \in Seq(Address) /\ Len(t) = Len(p) + 1 /\ Len(p) \in Nat
        /\ t[Len(p) + 1] = b
        /\ \A i \in 1 .. Len(p) : t[i] = p[i]
    BY <2>2, AppendFacts
  <2>5. \A i \in 1 .. Len(p) : c[i] = value[p[i]]
    BY DEF Contents
  <2>6. v \in T
    OBVIOUS
  <2> HIDE DEF p, t, c, T
  <2>7. Queue' = [i \in 1 .. Len(t) |-> value'[t[i]]]
    BY <2>1, <2>4, QueueNext
  <2>8. /\ Append(c, v) \in Seq(T) /\ Len(Append(c, v)) = Len(c) + 1
        /\ \A i \in 1 .. Len(c) : Append(c, v)[i] = c[i]
        /\ Append(c, v)[Len(c) + 1] = v
    BY <2>3, <2>6, AppendProperties
  <2>9. ASSUME NEW i \in 1 .. Len(t)
        PROVE  value'[t[i]] = Append(c, v)[i]
    <3>1. CASE i \in 1 .. Len(p)
      BY <2>1, <2>3, <2>4, <2>5, <2>8, <3>1, SMTT(20) DEF Kept
    <3>2. CASE i \notin 1 .. Len(p)
      <4>1. i = Len(p) + 1
        BY <2>4, <3>2
      <4> QED
        BY <2>1, <2>3, <2>4, <2>8, <4>1
    <3> QED
      BY <3>1, <3>2
  <2>10. Append(c, v) = [i \in 1 .. Len(t) |-> Append(c, v)[i]]
    <3> DEFINE d == Append(c, v)
    <3>1. d \in Seq(T) /\ Len(d) = Len(t)
      BY <2>3, <2>4, <2>8
    <3> HIDE DEF d
    <3>2. d = [i \in 1 .. Len(d) |-> d[i]]
      BY <3>1
    <3>3. d = [i \in 1 .. Len(t) |-> d[i]]
      BY <3>1, <3>2
    <3> QED
      BY <3>3 DEF d
  <2>11. Queue' = Append(c, v)
    BY <2>7, <2>9, <2>10
  <2>12. m \in 0 .. Len(Queue)
    BY <1>3
  <2>13. w <= MemSize /\ Fifo!Returned(w, FALSE)
    BY <1>5 DEF Accepted, Returned, Fifo!Returned
  <2> QED
    BY <2>1, <2>3, <2>11, <2>12, <2>13 DEF Fifo!Allocate
<1> QED
  BY <1>2, <1>4, <1>5

\* The ring buffer is a FIFO queue: PopFirst takes the oldest item; Allocate returns null for
\* an item that fits only without recycling, and with it discards oldest items only.
THEOREM FifoImplemented ==
    Spec => ImplementsFifo
<1>1. ASSUME Init
      PROVE  Fifo!Init
  <2>1. IInv /\ Holds(Ring, <<>>) /\ <<>> \in Seq(Address)
    BY <1>1, InitHolds, EmptySeq
  <2>2. Queue = Contents(<<>>)
    BY <2>1, QueueIs
  <2>3. Contents(<<>>) = <<>>
    BY DEF Contents
  <2>4. call = [wanted |-> 0, null |-> FALSE]
    BY <1>1 DEF Init
  <2> QED
    BY <2>1, <2>2, <2>3, <2>4 DEF Fifo!Init, IInv
<1>2. ASSUME IInv, [Next]_vars
      PROVE  [Fifo!Next]_vars
  <2>1. CASE UNCHANGED vars
    BY <2>1
  <2>2. CASE Pop
    BY <1>2, <2>2, PopRefines DEF Fifo!Next
  <2>3. ASSUME NEW w \in Wanted, NEW v \in Item, Allocate(w, v)
        PROVE  Fifo!Next
    BY <1>2, <2>3, AllocateRefines DEF Fifo!Next
  <2> QED
    BY <1>2, <2>1, <2>2, <2>3 DEF Next
<1> QED
  BY <1>1, <1>2, IInvAlways, PTL DEF Spec, ImplementsFifo
=============================================================================
