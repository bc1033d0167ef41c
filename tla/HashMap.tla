------------------------------ MODULE HashMap ------------------------------
(***************************************************************************)
(* The hash map of src/main/owl/hashmap.c, which holds the peers: open     *)
(* addressing with a bounded probe sequence, holes where elements were     *)
(* removed, and a table that doubles when it is half full or a probe finds *)
(* no place.  Calls do not overlap: PeerTable interleaves them.            *)
(*                                                                         *)
(* hashmap_put and hashmap_rehash call each other.  What their frames on   *)
(* the stack have still to put is one sequence, pending: the rest of the   *)
(* innermost old table, then the element whose put has doubled it, and so  *)
(* on out to the element of the first call.  Each step puts its head.      *)
(***************************************************************************)
EXTENDS Integers, Sequences, FiniteSets, FiniteSetsExt

CONSTANTS
    Key, Value,
    None,
    InitialSize,    \* INITIAL_SIZE
    MaxChain,       \* MAX_CHAIN_LENGTH
    HashValues      \* the values of siphash24 to look at: a bound for TLC

\* hashmap_element, in use.
Element == [key : Key, data : Value]

\* hashmap_put does not return when so many keys have neighbouring hash values that
\* no table is large enough: out of the question for values of 64 bits.
Hashes ==
    { h \in [Key -> HashValues] :
        \A k \in Key : Cardinality({ l \in Key : /\ h[l] > h[k] - MaxChain
                                                /\ h[l] < h[k] + MaxChain }) <= MaxChain }

ASSUME MapAssumption ==
    /\ InitialSize \in Nat \ {0}
    /\ MaxChain \in 1 .. InitialSize
    /\ HashValues \subseteq Nat
    /\ None \notin Key \cup Value \cup Element

VARIABLES
    siphash,        \* the hash function, which does not change
    data,           \* the table: in each place an element, or None
    size,
    pending,        \* what the puts under way have still to put
    it,             \* the iterator
    result          \* what the last call returned

vars == << siphash, data, size, pending, it, result >>

Returned(status, value) == [status |-> status, value |-> value]

EmptyTable(n) == [i \in 0 .. n - 1 |-> None]

TableSize(d) == Cardinality(DOMAIN d)

\* The place that the probe of k looks at after j others.
Probe(d, k, j) == (siphash[k] + j) % TableSize(d)

Holds(d, i, k) == d[i] # None /\ d[i].key = k

\* Wrong on purpose: the search ends at the first hole.
LookupToHole(d, k) ==
    { Probe(d, k, j) : j \in
        { j \in 0 .. MaxChain - 1 : /\ Holds(d, Probe(d, k, j), k)
                                   /\ \A h \in 0 .. j : d[Probe(d, k, h)] # None } }

\* Where hashmap_get finds k: it looks past the holes.
Lookup(d, k) == { i \in { Probe(d, k, j) : j \in 0 .. MaxChain - 1 } : Holds(d, i, k) }

\* hashmap_hash: the first place that is free or holds k, or none: MAP_FULL.
Place(d, n, k) ==
    LET free == { j \in 0 .. MaxChain - 1 :
                    LET i == Probe(d, k, j) IN d[i] = None \/ d[i].key = k }
    IN IF n >= TableSize(d) \div 2 \/ free = {} THEN {} ELSE { Probe(d, k, Min(free)) }

\* The places of a table in the order of hashmap_rehash.
Entries(d) == [i \in 1 .. TableSize(d) |-> d[i - 1]]

\* No iterator; and one at place i.  The rest is observed: how far it has got, the
\* steady keys, which have been in the map since it was made and have not been moved,
\* how often it has returned each of these, and whether it has gone astray: elements
\* have been moved, or the one it stands on taken, under it.
NoIterator ==
    [ i |-> -1, count |-> [k \in Key |-> 0], steady |-> {}, state |-> "none", astray |-> FALSE ]

\* The key of the element the iterator stands on.
Standing ==
    IF it.state = "at" /\ it.i >= 0 /\ data[it.i] # None THEN data[it.i].key ELSE None

\* Key k is not in the map any more.
Without(k) == [it EXCEPT !.steady = @ \ {k}, !.count[k] = 0]

Keys == { data[i].key : i \in { j \in DOMAIN data : data[j] # None } }

Init ==
    /\ siphash \in Hashes
    /\ data = EmptyTable(InitialSize)
    /\ size = 0
    /\ pending = << >>
    /\ it = NoIterator
    /\ result = Returned("MAP_OK", None)

\* The peer table puts what a get has not found (peers.c:90-104).
Put(k, v) ==
    /\ pending = << >>
    /\ Lookup(data, k) = {}
    /\ pending' = << [key |-> k, data |-> v] >>
    /\ UNCHANGED << siphash, data, size, it, result >>

\* hashmap_rehash passes over the places that hold nothing.
Skip ==
    /\ pending # << >>
    /\ Head(pending) = None
    /\ pending' = Tail(pending)
    /\ UNCHANGED << siphash, data, size, it, result >>

\* hashmap_put has found a place; the outermost call returns.
Store ==
    /\ pending # << >>
    /\ Head(pending) # None
    /\ \E i \in Place(data, size, Head(pending).key) :
          data' = [data EXCEPT ![i] = Head(pending)]
    /\ size' = size + 1
    /\ pending' = Tail(pending)
    /\ result' = IF pending' = << >> THEN Returned("MAP_OK", None) ELSE result
    /\ UNCHANGED << siphash, it >>

NoPlace ==
    /\ pending # << >>
    /\ Head(pending) # None
    /\ Place(data, size, Head(pending).key) = {}

\* hashmap_rehash, of a table that is half full or has MaxChain elements in a row.  An
\* iterator goes on at the same place of the new table.
Rehash ==
    /\ NoPlace
    /\ data' = EmptyTable(2 * TableSize(data))
    /\ size' = 0
    /\ pending' = Entries(data) \o pending
    /\ it' = IF it.state \in { "at", "removed" }
             THEN [NoIterator EXCEPT !.i = it.i, !.state = it.state, !.astray = TRUE]
             ELSE it
    /\ UNCHANGED << siphash, result >>

\* The larger table cannot be allocated.  Every call returns, and what it has still
\* to put is in no table.
RehashNoMemory ==
    /\ NoPlace
    /\ pending' = << >>
    /\ result' = Returned("MAP_OMEM", None)
    /\ UNCHANGED << siphash, data, size, it >>

Get(k) ==
    /\ pending = << >>
    /\ result' = IF Lookup(data, k) = {} THEN Returned("MAP_MISSING", None)
                 ELSE Returned("MAP_OK", data[Min(Lookup(data, k))].data)
    /\ UNCHANGED << siphash, data, size, pending, it >>

\* hashmap_get with remove, of awdl_peer_remove.
GetRemove(k) ==
    /\ pending = << >>
    /\ \/ /\ Lookup(data, k) = {}
          /\ result' = Returned("MAP_MISSING", None)
          /\ UNCHANGED << data, size, it >>
       \/ /\ Lookup(data, k) # {}
          /\ LET i == Min(Lookup(data, k)) IN
             /\ result' = Returned("MAP_OK", data[i].data)
             /\ data' = [data EXCEPT ![i] = None]
          /\ size' = size - 1
          /\ it' = [Without(k) EXCEPT !.astray = @ \/ Standing = k]
    /\ UNCHANGED << siphash, pending >>

ItNew ==
    /\ pending = << >>
    /\ it.state = "none"
    /\ it' = [NoIterator EXCEPT !.steady = Keys, !.state = "at"]
    /\ UNCHANGED << siphash, data, size, pending, result >>

\* Wrong on purpose: the search begins one place too far.
AheadSkipping == { i \in DOMAIN data : i > it.i + 1 /\ data[i] # None }

\* The places the search of hashmap_it_next stops at.
Ahead == { i \in DOMAIN data : i > it.i /\ data[i] # None }

\* How often k has been returned, once it is again.
Again(k) == IF k \notin it.steady THEN 0 ELSE IF it.count[k] = 2 THEN 2 ELSE it.count[k] + 1

ItNext ==
    /\ pending = << >>
    /\ it.state \in { "at", "removed" }
    /\ \/ /\ Ahead # {}
          /\ LET i == Min(Ahead) IN
             /\ it' = [it EXCEPT !.i = i, !.state = "at",
                                 !.count[data[i].key] = Again(data[i].key)]
             /\ result' = Returned("MAP_OK", data[i].data)
       \/ /\ Ahead = {}
          /\ it' = [it EXCEPT !.i = TableSize(data), !.state = "ended"]
          /\ result' = Returned("MAP_MISSING", None)
    /\ UNCHANGED << siphash, data, size, pending >>

\* Wrong on purpose: the element goes, the count stays.
ItRemoveNoCount ==
    /\ pending = << >>
    /\ it.state = "at"
    /\ it.i >= 0
    /\ data[it.i] # None
    /\ data' = [data EXCEPT ![it.i] = None]
    /\ it' = [Without(data[it.i].key) EXCEPT !.state = "removed"]
    /\ result' = Returned("MAP_OK", None)
    /\ UNCHANGED << siphash, size, pending >>

\* awdl_peers_remove calls hashmap_it_remove once, after an element has been handed
\* out; what goes is whatever is there now.
ItRemove ==
    /\ pending = << >>
    /\ it.state = "at"
    /\ it.i >= 0
    /\ \/ /\ data[it.i] = None
          /\ it' = [it EXCEPT !.state = "removed"]
          /\ result' = Returned("MAP_MISSING", None)
          /\ UNCHANGED << data, size >>
       \/ /\ data[it.i] # None
          /\ data' = [data EXCEPT ![it.i] = None]
          /\ size' = size - 1
          /\ it' = [Without(data[it.i].key) EXCEPT !.state = "removed"]
          /\ result' = Returned("MAP_OK", None)
    /\ UNCHANGED << siphash, pending >>

ItFree ==
    /\ pending = << >>
    /\ it.state = "ended"
    /\ it' = NoIterator
    /\ UNCHANGED << siphash, data, size, pending, result >>

Next ==
    \/ \E k \in Key : \/ \E v \in Value : Put(k, v)
                      \/ Get(k) \/ GetRemove(k)
    \/ Skip \/ Store \/ Rehash \/ RehashNoMemory
    \/ ItNew \/ ItNext \/ ItRemove \/ ItFree

Spec == Init /\ [][Next]_vars

-----------------------------------------------------------------------------
\* Every key is in one place, one that hashmap_get looks at however the table was
\* filled, emptied and rehashed, and size counts them; the table is at most half
\* full (hashmap.c:77), so that a probe sequence has a hole to find.
WellFormed ==
    /\ \A k \in Keys : /\ Cardinality(Lookup(data, k)) = 1
                       /\ \A i \in DOMAIN data : Holds(data, i, k) => i \in Lookup(data, k)
    /\ size = Cardinality({ i \in DOMAIN data : data[i] # None })
    /\ size <= TableSize(data) \div 2

\* An iteration that is over has handed out each key exactly once that was in the
\* map all the while, whatever was put in and removed meanwhile (hashmap.c:249-263):
\* each but those that a growth of the table has moved under it.
EachOnce == it.state = "ended" => \A k \in it.steady : it.count[k] = 1

\* The elements of the map: those in the table and those that rehashes have still to
\* move, but not the one that hashmap_put has been called with and not yet stored.
Elements ==
    ({ data[i] : i \in DOMAIN data } \cup { pending[j] : j \in 1 .. Len(pending) - 1 })
        \ {None}

Contents ==
    [k \in Key |->
        IF \E e \in Elements : e.key = k THEN (CHOOSE e \in Elements : e.key = k).data
                                        ELSE None]

Abstract == INSTANCE KeyMap WITH
    map <- Contents,
    current <- Standing,
    astray <- it.astray

\* Every call does to the map from keys to values what hashmap.h says of it, also
\* while a rehash moves the elements (hashmap.c:119-129), under an iterator too.
ImplementsMap == Abstract!Spec
=============================================================================
