--------------------------- MODULE CircularBuffer ---------------------------
(***************************************************************************)
(* The circular buffer of src/main/owl/circular_buffer.c, called by one    *)
(* task at a time: an array, the two indices and the flag that tells a     *)
(* full buffer from an empty one.  TxPath models the same calls when two   *)
(* tasks interleave in them.                                               *)
(***************************************************************************)
EXTENDS Integers, Sequences

CONSTANTS
    Data,           \* the pointers that are put
    Size,           \* the argument of circular_buf_init
    Unset           \* what malloc leaves in a slot

ASSUME BufferAssumption ==
    /\ Size \in Nat \ {0}       \* assert(size), circular_buffer.c:42
    /\ Unset \notin Data

VARIABLES
    buffer, head, tail, full,
    result          \* what the last call returned

vars == << buffer, head, tail, full, result >>

Index == 0 .. Size - 1

\* The (i + 1) % max of an index below max.
Succ(i) == IF i + 1 = Size THEN 0 ELSE i + 1

Returned(status, data) == [status |-> status, data |-> data]

Empty == ~full /\ head = tail

Length ==
    IF full THEN Size
    ELSE IF head >= tail THEN head - tail ELSE Size + head - tail

Init ==
    /\ buffer = [i \in Index |-> Unset]
    /\ head = 0
    /\ tail = 0
    /\ full = FALSE
    /\ result = Returned(0, {})

\* Wrong on purpose: a full buffer keeps its tail.
AdvanceHeadOnly ==
    /\ tail' = tail
    /\ head' = Succ(head)
    /\ full' = (head' = tail')

\* advance_pointer; full is compared with the new indices.
AdvancePointer ==
    /\ tail' = IF full THEN Succ(tail) ELSE tail
    /\ head' = Succ(head)
    /\ full' = (head' = tail')

\* Wrong on purpose: the flag is not cleared.
RetreatStaysFull ==
    /\ full' = full
    /\ tail' = Succ(tail)
    /\ head' = head

RetreatPointer ==
    /\ full' = FALSE
    /\ tail' = Succ(tail)
    /\ head' = head

Put(d) ==
    /\ buffer' = [buffer EXCEPT ![head] = d]
    /\ AdvancePointer
    /\ result' = Returned(0, {})

Put2(d) ==
    \/ /\ ~full
       /\ buffer' = [buffer EXCEPT ![head] = d]
       /\ AdvancePointer
       /\ result' = Returned(0, {})
    \/ /\ full
       /\ UNCHANGED << buffer, head, tail, full >>
       /\ result' = Returned(-1, {})

\* circular_buf_get: with peek the item stays.
Get(peek) ==
    \/ /\ ~Empty
       /\ result' = Returned(0, {buffer[tail]})
       /\ buffer' = buffer
       /\ IF peek THEN UNCHANGED << head, tail, full >> ELSE RetreatPointer
    \/ /\ Empty
       /\ UNCHANGED << buffer, head, tail, full >>
       /\ result' = Returned(-1, {})

Reset ==
    /\ head' = 0
    /\ tail' = 0
    /\ full' = FALSE
    /\ buffer' = buffer
    /\ result' = Returned(0, {})

Next ==
    \/ \E d \in Data : Put(d) \/ Put2(d)
    \/ \E peek \in BOOLEAN : Get(peek)
    \/ Reset

Spec == Init /\ [][Next]_vars

-----------------------------------------------------------------------------
\* Type invariant.
TypeOK ==
    /\ buffer \in [Index -> Data \cup {Unset}]
    /\ head \in Index
    /\ tail \in Index
    /\ full \in BOOLEAN

\* The slot of the k-th item, counted from the tail.
Slot(k) == IF tail + k < Size THEN tail + k ELSE tail + k - Size

\* The flag is set only where the indices meet, and every slot the indices
\* enclose has been written: no caller is handed an uninitialised pointer.
Sound ==
    /\ full => head = tail
    /\ \A k \in 0 .. Length - 1 : buffer[Slot(k)] \in Data

\* The items, oldest first.
Items == [k \in 1 .. Length |-> buffer[Slot(k - 1)]]

Abstract == INSTANCE Fifo WITH items <- Items

\* Every call does to the queue of items what circular_buffer.h says.
ImplementsFifo == Abstract!Spec
=============================================================================
