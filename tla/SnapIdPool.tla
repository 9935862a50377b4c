----------------------------- MODULE SnapIdPool -----------------------------
(***************************************************************************)
(* CSnapIdPool (engine/server/snap_id_pool.cpp): the ids of the entities   *)
(* in a snapshot.  A free id is a member of a stack, one that was given    *)
(* back waits in a queue, so that clients do not take the next entity for  *)
(* the old one.  The two linked lists are sequences here; m_State says     *)
(* which of them an id is in.                                              *)
(*                                                                         *)
(* The clock counts nanoseconds since the start of the program in 64 bits; *)
(* m_Timeout is an int.  2^31 nanoseconds are 2.1 seconds.                 *)
(***************************************************************************)
EXTENDS Integers, Sequences, SequencesExt

CONSTANTS
    MaxIds,  \* MAX_IDS
    IntHalf, \* 2^31: an int is in -IntHalf .. IntHalf - 1
    Hold,    \* time_freq() * 5
    MaxNow   \* bound: the time

VARIABLES
    free,    \* the list from m_FirstFree on
    timed,   \* the list from m_FirstTimed to m_LastTimed
    timeout, \* m_Timeout of each id
    now,     \* time_get()
    freed    \* history: when each id was given back last

vars == <<free, timed, timeout, now, freed>>

Id == 0 .. MaxIds - 1

Allocated == {id \in Id : ~Contains(free, id) /\ ~Contains(timed, id)}

\* Reset
Init ==
    /\ free = [i \in 1 .. MaxIds |-> i - 1]
    /\ timed = <<>>
    /\ timeout = [id \in Id |-> 0]
    /\ now = 0
    /\ freed = [id \in Id |-> 0]

\* The assignment of a 64 bit integer to an int.
AsInt(t) == ((t + IntHalf) % (2 * IntHalf)) - IntHalf

\* How many ids at the head of the queue NewId releases.
NumExpired ==
    CHOOSE n \in 0 .. Len(timed) :
        /\ \A i \in 1 .. n : timeout[timed[i]] < now
        /\ n < Len(timed) => timeout[timed[n + 1]] >= now

\* RemoveFirstTimeout, n times: onto the stack of free ids.
Released(n) == Reverse(SubSeq(timed, 1, n)) \o free

\* An entity is created; without a free id it gets -1.
NewId ==
    LET ids == Released(NumExpired)
    IN  /\ free' = IF ids = <<>> THEN ids ELSE Tail(ids)
        /\ timed' = SubSeq(timed, NumExpired + 1, Len(timed))
        /\ UNCHANGED <<timeout, now, freed>>

\* An entity is destroyed.
FreeId(id) ==
    /\ id \in Allocated
    /\ timed' = Append(timed, id)
    /\ timeout' = [timeout EXCEPT ![id] = AsInt(now + Hold)]
    /\ freed' = [freed EXCEPT ![id] = now]
    /\ UNCHANGED <<free, now>>

\* A map is loaded.
TimeoutIds ==
    /\ free' = Released(Len(timed))
    /\ timed' = <<>>
    /\ UNCHANGED <<timeout, now, freed>>

Clock == now < MaxNow /\ now' = now + 1 /\ UNCHANGED <<free, timed, timeout, freed>>

Next == NewId \/ (\E id \in Id : FreeId(id)) \/ TimeoutIds \/ Clock

Spec == Init /\ [][Next]_vars

-----------------------------------------------------------------------------

\* "process timed ids": an id that was given back waits for the five seconds
\* FreeId sets as its timeout before NewId makes it free.
HeldBack ==
    [][NewId => \A id \in Id :
          Contains(timed, id) /\ ~Contains(timed', id) => now > freed[id] + Hold]_vars

=============================================================================
