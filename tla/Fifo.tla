-------------------------------- MODULE Fifo --------------------------------
(***************************************************************************)
(* What src/main/owl/circular_buffer.h promises of a circular buffer: a    *)
(* first-in first-out queue of bounded length with two ways to put, one    *)
(* that overwrites the oldest item of a full queue and one that refuses.   *)
(***************************************************************************)
EXTENDS Integers, Sequences

CONSTANTS Data, Size

VARIABLES items, result

vars == << items, result >>

\* What a call returned: its status, and the datum it handed out, if any.
Returned(status, data) == [status |-> status, data |-> data]

Init == items = << >> /\ result = Returned(0, {})

Put(d) ==
    /\ items' = IF Len(items) < Size THEN Append(items, d) ELSE Append(Tail(items), d)
    /\ result' = Returned(0, {})

Put2(d) ==
    IF Len(items) < Size
      THEN items' = Append(items, d) /\ result' = Returned(0, {})
      ELSE items' = items /\ result' = Returned(-1, {})

Get(peek) ==
    IF items # << >>
      THEN /\ items' = IF peek THEN items ELSE Tail(items)
           /\ result' = Returned(0, {items[1]})
      ELSE items' = items /\ result' = Returned(-1, {})

Reset == items' = << >> /\ result' = Returned(0, {})

Next ==
    \/ \E d \in Data : Put(d) \/ Put2(d)
    \/ \E peek \in BOOLEAN : Get(peek)
    \/ Reset

Spec == Init /\ [][Next]_vars
=============================================================================
