------------------------------- MODULE KeyMap -------------------------------
(***************************************************************************)
(* What src/main/owl/hashmap.h promises the peer table: a map from keys to *)
(* values with an iterator that can remove the element it stands on.       *)
(***************************************************************************)
CONSTANTS Key, Value, None

VARIABLES
    map,            \* map[k]: the value of k, or None
    current,        \* the element the iterator stands on, or None
    astray,         \* the map has been modified under the iterator
    result          \* what the last call returned

vars == << map, current, astray, result >>

\* A status, and the value handed out, if any.
Returned(status, value) == [status |-> status, value |-> value]

Init ==
    /\ map = [k \in Key |-> None]
    /\ current = None
    /\ astray = FALSE
    /\ result = Returned("MAP_OK", None)

\* "You should not modify the the map while iterating" (hashmap.h:81): an iterator
\* that has gone astray may stand anywhere after another put.
Stands ==
    /\ astray' = astray
    /\ IF astray THEN current' \in Key \cup {None} ELSE current' = current

\* A put is only made after a get has found nothing (peers.c:90-104).
Put(k, v) ==
    /\ map[k] = None
    /\ map' = [map EXCEPT ![k] = v]
    /\ result' = Returned("MAP_OK", None)
    /\ Stands

\* In the middle of a put the elements are moved: no call has returned yet.
Grow ==
    /\ UNCHANGED << map, result >>
    /\ current' \in Key \cup {None}
    /\ astray' = TRUE

\* hashmap.h does not say what becomes of the other elements.  Some may be lost
\* (hashmap.c:126); none changes, and none is lost under an iterator that it leaves in
\* its place.
PutNoMemory ==
    /\ result' = Returned("MAP_OMEM", None)
    /\ \E lost \in SUBSET Key :
          /\ map' = [k \in Key |-> IF k \in lost THEN None ELSE map[k]]
          /\ current # None /\ ~astray => lost = {}
    /\ Stands

Get(k, remove) ==
    /\ result' = IF map[k] = None THEN Returned("MAP_MISSING", None)
                                  ELSE Returned("MAP_OK", map[k])
    /\ map' = IF remove THEN [map EXCEPT ![k] = None] ELSE map
    /\ IF remove /\ k = current THEN current' = None /\ astray' = TRUE
                               ELSE UNCHANGED << current, astray >>

\* Every element the iterator hands out is in the map then.
ItNext ==
    /\ \/ \E k \in Key : /\ map[k] # None
                         /\ current' = k
                         /\ result' = Returned("MAP_OK", map[k])
       \/ current' = None /\ result' = Returned("MAP_MISSING", None)
    /\ UNCHANGED << map, astray >>

\* "Removes current element from hashmap."
ItRemove ==
    /\ \/ /\ current # None
          /\ map' = [map EXCEPT ![current] = None]
          /\ result' = Returned("MAP_OK", None)
       \/ /\ current = None
          /\ map' = map
          /\ result' = Returned("MAP_MISSING", None)
    /\ current' = None
    /\ astray' = astray

\* An iterator begins, or is freed.
ItNewOrFree == UNCHANGED << map, result >> /\ current' = None /\ astray' = FALSE

Next ==
    \/ \E k \in Key : \/ \E v \in Value : Put(k, v)
                      \/ \E remove \in BOOLEAN : Get(k, remove)
    \/ PutNoMemory \/ Grow
    \/ ItNext \/ ItRemove \/ ItNewOrFree

Spec == Init /\ [][Next]_vars
=============================================================================
