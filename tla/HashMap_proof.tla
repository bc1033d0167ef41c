---------------------------- MODULE HashMap_proof ----------------------------
(***************************************************************************)
(* Theorems about HashMap, for any keys, any hash function that keeps      *)
(* neighbours apart (Hashes) and any sizes.                                *)
(*                                                                         *)
(* MapInv is the inductive invariant.  A table has every key within its    *)
(* probe and once (Placed, Unique), and is counted (Counted); what a       *)
(* rehash has still to put is not in the table and not twice on the stack  *)
(* (Apart).  Removals make holes and need nothing else, since              *)
(* hashmap_get looks past them.  Under an iterator each steady key keeps   *)
(* its place, and a growth of the table leaves none steady (Iterating).    *)
(*                                                                         *)
(* The theorems on finite sets count the places in use.  That a set of     *)
(* numbers has a least element, which Min rests on, is the only induction, *)
(* and comes from the well-foundedness of < on Nat.                        *)
(***************************************************************************)
EXTENDS HashMap, FiniteSetTheorems, SequenceTheorems, WellFoundedInduction, TLAPS

\* A set of natural numbers has a least element.
LEMMA Least ==
  ASSUME NEW S, S \subseteq Nat, S # {}
  PROVE  \E m \in S : \A k \in S : m <= k
  <1>1. PICK m \in S : \A k \in S : << k, m >> \notin OpToRel(<, Nat)
    BY WFMin, NatLessThanWellFounded, Zenon
  <1>2. \A k \in S : << k, m >> \in Nat \X Nat
    OBVIOUS
  <1>3. \A k \in S : ~(k < m)
    BY <1>1, <1>2, Zenon DEF OpToRel
  <1>4. m \in Nat /\ \A k \in S : k \in Nat
    OBVIOUS
  <1>5. \A k \in S : m <= k
    BY <1>3, <1>4
  <1>6. QED
    BY <1>5

LEMMA MinIs ==
  ASSUME NEW S, S \subseteq Nat, S # {}
  PROVE  Min(S) \in S /\ \A k \in S : Min(S) <= k
  <1>1. \E m \in S : \A k \in S : m <= k
    BY Least
  <1>2. QED
    BY <1>1, Zenon DEF Min

-----------------------------------------------------------------------------
(* One table.                                                              *)

\* A table of n places.
Table(n) == [0 .. n - 1 -> Element \cup {None}]

LEMMA TableSizeIs ==
  ASSUME NEW n \in Nat \ {0}, NEW d \in Table(n)
  PROVE  TableSize(d) = n /\ DOMAIN d = 0 .. n - 1
  <1>1. DOMAIN d = 0 .. n - 1
    BY DEF Table
  <1>2. Cardinality(0 .. n - 1) = n
    BY FS_Interval
  <1>3. QED
    BY <1>1, <1>2 DEF TableSize

LEMMA ElementIs ==
  \A e \in Element : e # None /\ e.key \in Key /\ e.data \in Value
  BY MapAssumption DEF MapAssumption, Element

\* A probe looks at places of the table.
LEMMA ProbeType ==
  ASSUME NEW n \in Nat \ {0}, NEW d \in Table(n), siphash \in [Key -> Nat],
         NEW k \in Key, NEW j \in Nat
  PROVE  Probe(d, k, j) \in 0 .. n - 1
  <1>1. siphash[k] + j \in Nat
    OBVIOUS
  <1>2. Probe(d, k, j) = (siphash[k] + j) % n
    BY TableSizeIs DEF Probe
  <1>3. QED
    BY <1>1, <1>2

\* The places that hashmap_get and hashmap_hash look at for k.
Reach(d, k) == { Probe(d, k, j) : j \in 0 .. MaxChain - 1 }

\* What hashmap_hash returns is free or holds k already, and there is room for one
\* more.
LEMMA PlaceIs ==
  ASSUME NEW n \in Nat \ {0}, NEW d \in Table(n), siphash \in [Key -> Nat],
         NEW k \in Key, NEW m, NEW i \in Place(d, m, k)
  PROVE  /\ i \in 0 .. n - 1
         /\ i \in Reach(d, k)
         /\ d[i] = None \/ d[i].key = k
         /\ ~(m >= n \div 2)
         /\ Place(d, m, k) = {i}
  <1> DEFINE free == { j \in 0 .. MaxChain - 1 :
                         LET p == Probe(d, k, j) IN d[p] = None \/ d[p].key = k }
  <1>1. Place(d, m, k) = IF m >= TableSize(d) \div 2 \/ free = {} THEN {}
                         ELSE { Probe(d, k, Min(free)) }
    BY Zenon DEF Place
  <1>2. ~(m >= TableSize(d) \div 2) /\ free # {} /\ Place(d, m, k) = { Probe(d, k, Min(free)) }
    BY <1>1
  <1>3. free \subseteq Nat
    OBVIOUS
  <1>4. Min(free) \in free
    BY <1>2, <1>3, MinIs
  <1>5. i = Probe(d, k, Min(free))
    BY <1>2
  <1>6. Min(free) \in 0 .. MaxChain - 1 /\ (d[i] = None \/ d[i].key = k)
    BY <1>4, <1>5
  <1>7. i \in Reach(d, k)
    BY <1>5, <1>6 DEF Reach
  <1>8. i \in 0 .. n - 1
    <2>1. Min(free) \in Nat
      BY <1>6
    <2>2. QED
      BY <1>5, <2>1, ProbeType
  <1>9. TableSize(d) = n
    BY TableSizeIs
  <1>10. Place(d, m, k) = {i}
    BY <1>2, <1>5
  <1>11. QED
    BY <1>2, <1>6, <1>7, <1>8, <1>9, <1>10

\* Every element is where hashmap_get looks for it, and no key is there twice.
Placed(d) ==
  \A i \in DOMAIN d : d[i] # None => i \in Reach(d, d[i].key)

Unique(d) ==
  \A i, j \in DOMAIN d : d[i] # None /\ d[j] # None /\ d[i].key = d[j].key => i = j

\* hashmap_get finds a key where it is.
LEMMA LookupIs ==
  ASSUME NEW n \in Nat \ {0}, NEW d \in Table(n), siphash \in [Key -> Nat],
         NEW k \in Key, Placed(d)
  PROVE  Lookup(d, k) = { i \in 0 .. n - 1 : Holds(d, i, k) }
  <1>1. DOMAIN d = 0 .. n - 1
    BY TableSizeIs
  <1>2. \A i \in Reach(d, k) : i \in 0 .. n - 1
    BY ProbeType DEF Reach
  <1>3. \A i \in 0 .. n - 1 : Holds(d, i, k) => i \in Reach(d, k)
    BY <1>1 DEF Holds, Placed
  <1>4. Lookup(d, k) = { i \in Reach(d, k) : Holds(d, i, k) }
    BY DEF Lookup, Reach
  <1>5. QED
    BY <1>2, <1>3, <1>4

LEMMA LookupOne ==
  ASSUME NEW n \in Nat \ {0}, NEW d \in Table(n), siphash \in [Key -> Nat],
         Placed(d), Unique(d), NEW i \in 0 .. n - 1, d[i] # None, d[i].key \in Key
  PROVE  Lookup(d, d[i].key) = {i}
  <1>1. DOMAIN d = 0 .. n - 1
    BY TableSizeIs
  <1>2. Lookup(d, d[i].key) = { j \in 0 .. n - 1 : Holds(d, j, d[i].key) }
    BY LookupIs
  <1>3. \A j \in 0 .. n - 1 : Holds(d, j, d[i].key) <=> j = i
    BY <1>1 DEF Unique, Holds
  <1>4. QED
    BY <1>2, <1>3

Used(d) == { i \in DOMAIN d : d[i] # None }

LEMMA UsedFinite ==
  ASSUME NEW n \in Nat \ {0}, NEW d \in Table(n)
  PROVE  IsFiniteSet(Used(d)) /\ Cardinality(Used(d)) \in Nat
  <1>1. Used(d) \subseteq 0 .. n - 1
    BY TableSizeIs DEF Used
  <1>2. IsFiniteSet(0 .. n - 1)
    BY FS_Interval
  <1>3. IsFiniteSet(Used(d))
    BY <1>1, <1>2, FS_Subset
  <1>4. QED
    BY <1>3, FS_CardinalityType

\* A probe depends on the size of the table alone.
LEMMA ReachSame ==
  ASSUME NEW n \in Nat \ {0}, NEW d \in Table(n), NEW e \in Table(n), NEW k
  PROVE  Reach(d, k) = Reach(e, k)
  <1>1. TableSize(d) = TableSize(e)
    BY TableSizeIs
  <1>2. QED
    BY <1>1 DEF Reach, Probe

\* An element goes into a free place of its own probe.
LEMMA TableStore ==
  ASSUME NEW n \in Nat \ {0}, NEW d \in Table(n), Placed(d), Unique(d),
         NEW e \in Element, NEW i \in 0 .. n - 1, i \in Reach(d, e.key), d[i] = None,
         \A j \in DOMAIN d : d[j] # None => d[j].key # e.key,
         NEW f, f = [d EXCEPT ![i] = e]
  PROVE  /\ f \in Table(n) /\ Placed(f) /\ Unique(f)
         /\ Cardinality(Used(f)) = Cardinality(Used(d)) + 1
  <1>1. DOMAIN d = 0 .. n - 1
    BY TableSizeIs
  <1>2. f \in Table(n) /\ DOMAIN f = 0 .. n - 1
    BY <1>1 DEF Table
  <1>3. f[i] = e /\ e # None /\ \A j \in 0 .. n - 1 : j # i => f[j] = d[j]
    BY <1>1, ElementIs
  <1>4. Placed(f)
    <2>1. \A k : Reach(f, k) = Reach(d, k)
      BY <1>2, ReachSame
    <2>2. QED
      BY <1>1, <1>2, <1>3, <2>1 DEF Placed
  <1>5. Unique(f)
    BY <1>1, <1>2, <1>3 DEF Unique
  <1>6. Used(f) = Used(d) \cup {i} /\ i \notin Used(d)
    BY <1>1, <1>2, <1>3 DEF Used
  <1>7. Cardinality(Used(f)) = Cardinality(Used(d)) + 1
    BY <1>6, UsedFinite, FS_AddElement
  <1>8. QED
    BY <1>2, <1>4, <1>5, <1>7

\* An element is taken out.
LEMMA TableClear ==
  ASSUME NEW n \in Nat \ {0}, NEW d \in Table(n), Placed(d), Unique(d),
         NEW i \in 0 .. n - 1, d[i] # None,
         NEW f, f = [d EXCEPT ![i] = None]
  PROVE  /\ f \in Table(n) /\ Placed(f) /\ Unique(f)
         /\ Cardinality(Used(f)) = Cardinality(Used(d)) - 1
  <1>1. DOMAIN d = 0 .. n - 1
    BY TableSizeIs
  <1>2. f \in Table(n) /\ DOMAIN f = 0 .. n - 1
    BY <1>1 DEF Table
  <1>3. f[i] = None /\ \A j \in 0 .. n - 1 : j # i => f[j] = d[j]
    BY <1>1
  <1>4. Placed(f)
    <2>1. \A k : Reach(f, k) = Reach(d, k)
      BY <1>2, ReachSame
    <2>2. QED
      BY <1>1, <1>2, <1>3, <2>1 DEF Placed
  <1>5. Unique(f)
    BY <1>1, <1>2, <1>3 DEF Unique
  <1>6. Used(f) = Used(d) \ {i} /\ i \in Used(d)
    BY <1>1, <1>2, <1>3 DEF Used
  <1>7. Cardinality(Used(f)) = Cardinality(Used(d)) - 1
    BY <1>6, UsedFinite, FS_RemoveElement
  <1>8. QED
    BY <1>2, <1>4, <1>5, <1>7

LEMMA TableEmpty ==
  ASSUME NEW n \in Nat \ {0}
  PROVE  /\ EmptyTable(n) \in Table(n)
         /\ Placed(EmptyTable(n)) /\ Unique(EmptyTable(n))
         /\ Cardinality(Used(EmptyTable(n))) = 0
         /\ TableSize(EmptyTable(n)) = n
         /\ DOMAIN EmptyTable(n) = 0 .. n - 1
         /\ \A i \in 0 .. n - 1 : EmptyTable(n)[i] = None
  <1>1. /\ EmptyTable(n) \in Table(n)
        /\ DOMAIN EmptyTable(n) = 0 .. n - 1
        /\ \A i \in 0 .. n - 1 : EmptyTable(n)[i] = None
    BY DEF EmptyTable, Table
  <1>2. TableSize(EmptyTable(n)) = n
    BY <1>1, TableSizeIs
  <1>3. Placed(EmptyTable(n)) /\ Unique(EmptyTable(n)) /\ Used(EmptyTable(n)) = {}
    BY <1>1 DEF Placed, Unique, Used
  <1>4. QED
    BY <1>1, <1>2, <1>3, FS_EmptySet

-----------------------------------------------------------------------------
(* The invariant.                                                          *)

MapTypeOK ==
    /\ siphash \in [Key -> Nat]
    /\ TableSize(data) \in Nat \ {0}
    /\ data \in Table(TableSize(data))
    /\ pending \in Seq(Element \cup {None})
    /\ it \in [ i : Int, count : [Key -> Nat], steady : SUBSET Key,
                state : { "none", "at", "removed", "ended" }, astray : BOOLEAN ]

Counted ==
    /\ size = Cardinality(Used(data))
    /\ size <= TableSize(data) \div 2

\* An element still to be put is not in the table, and not twice on the stack.
Apart ==
    \A a \in 1 .. Len(pending) : pending[a] # None =>
        /\ \A j \in DOMAIN data : data[j] # None => data[j].key # pending[a].key
        /\ \A b \in 1 .. Len(pending) :
              pending[b] # None /\ pending[b].key = pending[a].key => a = b

\* The outermost call puts an element.
PutLast == pending # << >> => pending[Len(pending)] # None

\* Each steady key is in the table, and has been handed out once if the iterator has
\* come to its place and not at all before; a growth of the table leaves none.  Unless
\* it has gone astray the iterator stands on an element, and no rehash is under way.
Iterating ==
    /\ it.state \in { "at", "removed" } =>
          /\ it.i \in -1 .. TableSize(data) - 1
          /\ \A k \in it.steady : \E i \in DOMAIN data :
                /\ Holds(data, i, k)
                /\ it.count[k] = IF i <= it.i THEN 1 ELSE 0
    /\ it.state \in { "at", "removed" } /\ ~it.astray =>
          /\ Len(pending) <= 1
          /\ it.state = "at" /\ it.i >= 0 => data[it.i] # None
    /\ it.state = "ended" => \A k \in it.steady : it.count[k] = 1

MapInv ==
    MapTypeOK /\ Placed(data) /\ Unique(data) /\ Counted /\ Apart /\ PutLast /\ Iterating

LEMMA MapInitInv == Init => MapInv
  <1> SUFFICES ASSUME Init PROVE MapInv
    OBVIOUS
  <1>1. InitialSize \in Nat \ {0} /\ data = EmptyTable(InitialSize)
    BY MapAssumption DEF MapAssumption, Init
  <1>2. siphash \in [Key -> Nat]
    BY MapAssumption DEF MapAssumption, Init, Hashes
  <1>3. MapTypeOK
    BY <1>1, <1>2, TableEmpty DEF MapTypeOK, Init, NoIterator
  <1>4. Placed(data) /\ Unique(data) /\ Counted
    BY <1>1, TableEmpty DEF Counted, Init
  <1>5. Apart /\ PutLast /\ Iterating
    BY DEF Apart, PutLast, Iterating, Init, NoIterator
  <1>6. QED
    BY <1>3, <1>4, <1>5 DEF MapInv

\* Such a table is well formed, and an iteration that is over has met every key.
LEMMA MapInvHolds == MapInv => WellFormed /\ EachOnce
  <1> SUFFICES ASSUME MapInv PROVE WellFormed /\ EachOnce
    OBVIOUS
  <1> DEFINE n == TableSize(data)
  <1>1. /\ siphash \in [Key -> Nat] /\ n \in Nat \ {0} /\ data \in Table(n)
        /\ Placed(data) /\ Unique(data)
    BY DEF MapInv, MapTypeOK
  <1>2. DOMAIN data = 0 .. n - 1
    BY <1>1, TableSizeIs
  <1>3. \A i \in 0 .. n - 1 : data[i] # None => data[i].key \in Key
    BY <1>1, ElementIs DEF Table
  <1>4. \A i \in 0 .. n - 1 : data[i] # None => Lookup(data, data[i].key) = {i}
    BY <1>1, <1>3, LookupOne
  <1>5. ASSUME NEW k \in Keys
        PROVE  /\ Cardinality(Lookup(data, k)) = 1
               /\ \A i \in DOMAIN data : Holds(data, i, k) => i \in Lookup(data, k)
    <2>1. PICK i \in 0 .. n - 1 : data[i] # None /\ data[i].key = k
      BY <1>2, <1>5 DEF Keys
    <2>2. Lookup(data, k) = {i}
      BY <1>4, <2>1
    <2>3. \A j \in 0 .. n - 1 : Holds(data, j, k) => j = i
      BY <1>1, <1>2, <2>1 DEF Holds, Unique
    <2>4. QED
      BY <1>2, <2>2, <2>3, FS_Singleton
  <1>6. size = Cardinality({ i \in DOMAIN data : data[i] # None }) /\ size <= n \div 2
    BY DEF MapInv, Counted, Used
  <1>7. QED
    BY <1>5, <1>6 DEF WellFormed, EachOnce, MapInv, Iterating

-----------------------------------------------------------------------------
(* Each call preserves the invariant.                                      *)

\* What the invariant says of the table.
LEMMA MapFacts ==
  ASSUME MapInv
  PROVE  /\ siphash \in [Key -> Nat] /\ TableSize(data) \in Nat \ {0}
         /\ data \in Table(TableSize(data)) /\ DOMAIN data = 0 .. TableSize(data) - 1
         /\ Placed(data) /\ Unique(data)
         /\ \A i \in DOMAIN data : data[i] # None => data[i] \in Element /\ data[i].key \in Key
         /\ \A k \in Key : Lookup(data, k) = { i \in DOMAIN data : Holds(data, i, k) }
  <1>1. /\ siphash \in [Key -> Nat] /\ TableSize(data) \in Nat \ {0}
        /\ data \in Table(TableSize(data)) /\ Placed(data) /\ Unique(data)
    BY DEF MapInv, MapTypeOK
  <1>2. DOMAIN data = 0 .. TableSize(data) - 1
    BY <1>1, TableSizeIs
  <1>3. \A i \in DOMAIN data : data[i] # None => data[i] \in Element /\ data[i].key \in Key
    BY <1>1, <1>2, ElementIs DEF Table
  <1>4. \A k \in Key : Lookup(data, k) = { i \in DOMAIN data : Holds(data, i, k) }
    BY <1>1, <1>2, LookupIs
  <1>5. QED
    BY <1>1, <1>2, <1>3, <1>4

\* What it says of the head of pending.
LEMMA HeadFacts ==
  ASSUME MapInv, pending # << >>
  PROVE  /\ Len(pending) \in Nat \ {0}
         /\ Tail(pending) \in Seq(Element \cup {None})
         /\ Len(Tail(pending)) = Len(pending) - 1
         /\ \A a \in 1 .. Len(pending) - 1 : Tail(pending)[a] = pending[a + 1]
         /\ Head(pending) = pending[1]
         /\ Head(pending) # None => Head(pending) \in Element /\ Head(pending).key \in Key
  <1>1. pending \in Seq(Element \cup {None})
    BY DEF MapInv, MapTypeOK
  <1>2. Len(pending) \in Nat \ {0} /\ pending[1] \in Element \cup {None}
    BY <1>1
  <1>3. QED
    BY <1>1, <1>2, ElementIs

\* A tail is apart when the whole was.
LEMMA TailApart ==
  ASSUME MapInv, pending # << >>, pending' = Tail(pending), data' = data
  PROVE  Apart' /\ PutLast'
  <1>1. Len(pending') = Len(pending) - 1 /\ Len(pending) \in Nat \ {0}
    BY HeadFacts
  <1>2. \A a \in 1 .. Len(pending') : a + 1 \in 1 .. Len(pending) /\ pending'[a] = pending[a + 1]
    BY <1>1, HeadFacts
  <1>3. Apart'
    <2> SUFFICES ASSUME NEW a \in 1 .. Len(pending'), pending'[a] # None
                 PROVE  /\ \A j \in DOMAIN data : data[j] # None => data[j].key # pending'[a].key
                        /\ \A b \in 1 .. Len(pending') :
                              pending'[b] # None /\ pending'[b].key = pending'[a].key => a = b
      BY DEF Apart
    <2>1. a + 1 \in 1 .. Len(pending) /\ pending'[a] = pending[a + 1]
      BY <1>2
    <2>2. \A j \in DOMAIN data : data[j] # None => data[j].key # pending'[a].key
      BY <2>1 DEF MapInv, Apart
    <2>3. ASSUME NEW b \in 1 .. Len(pending'), pending'[b] # None, pending'[b].key = pending'[a].key
          PROVE  a = b
      <3>1. b + 1 \in 1 .. Len(pending) /\ pending'[b] = pending[b + 1]
        BY <1>2
      <3>2. a + 1 = b + 1
        BY <2>1, <2>3, <3>1 DEF MapInv, Apart
      <3>3. QED
        BY <1>1, <3>2
    <2>4. QED
      BY <2>2, <2>3
  <1>4. PutLast'
    <2> SUFFICES ASSUME pending' # << >> PROVE pending'[Len(pending')] # None
      BY DEF PutLast
    <2>1. Len(pending') \in 1 .. Len(pending')
      BY <1>1, HeadFacts
    <2>2. pending'[Len(pending')] = pending[Len(pending)]
      BY <1>1, <1>2, <2>1
    <2>3. QED
      BY <2>2 DEF MapInv, PutLast
  <1>5. QED
    BY <1>3, <1>4

LEMMA SameMap ==
  ASSUME MapInv, UNCHANGED << siphash, data, size, pending, it >>
  PROVE  MapInv'
  BY DEF MapInv, MapTypeOK, Placed, Unique, Counted, Apart, PutLast, Iterating,
         Reach, Probe, TableSize, Used, Holds, Table

LEMMA PutStep ==
  ASSUME MapInv, NEW k \in Key, NEW v \in Value, Put(k, v)
  PROVE  MapInv'
  <1> DEFINE e == [key |-> k, data |-> v]
  <1>1. /\ pending = << >> /\ Lookup(data, k) = {} /\ pending' = << e >>
        /\ UNCHANGED << siphash, data, size, it >>
    BY DEF Put
  <1>2. e \in Element /\ e # None /\ e.key = k
    BY ElementIs DEF Element
  <1> HIDE DEF e
  <1>3. pending' \in Seq(Element \cup {None}) /\ Len(pending') = 1 /\ pending'[1] = e
    BY <1>1, <1>2
  <1>4. \A j \in DOMAIN data : data[j] # None => data[j].key # k
    BY <1>1, MapFacts DEF Holds
  <1>5. Apart' /\ PutLast'
    BY <1>1, <1>2, <1>3, <1>4 DEF Apart, PutLast
  <1>6. Iterating'
    BY <1>1, <1>3 DEF MapInv, Iterating, Holds, TableSize
  <1>7. MapTypeOK'
    BY <1>1, <1>3 DEF MapInv, MapTypeOK, Table, TableSize
  <1>8. Placed(data)' /\ Unique(data)' /\ Counted'
    BY <1>1 DEF MapInv, Placed, Unique, Counted, Reach, Probe, TableSize, Used
  <1>9. QED
    BY <1>5, <1>6, <1>7, <1>8 DEF MapInv

LEMMA SkipStep ==
  ASSUME MapInv, Skip
  PROVE  MapInv'
  <1>1. /\ pending # << >> /\ pending' = Tail(pending)
        /\ UNCHANGED << siphash, data, size, it >>
    BY DEF Skip
  <1>2. Apart' /\ PutLast'
    BY <1>1, TailApart
  <1>3. pending' \in Seq(Element \cup {None}) /\ Len(pending') = Len(pending) - 1 /\ Len(pending) \in Nat
    BY <1>1, HeadFacts
  <1>4. Iterating'
    BY <1>1, <1>3 DEF MapInv, Iterating, Holds, TableSize
  <1>5. MapTypeOK'
    BY <1>1, <1>3 DEF MapInv, MapTypeOK, Table, TableSize
  <1>6. Placed(data)' /\ Unique(data)' /\ Counted'
    BY <1>1 DEF MapInv, Placed, Unique, Counted, Reach, Probe, TableSize, Used
  <1>7. QED
    BY <1>2, <1>4, <1>5, <1>6 DEF MapInv

\* Where hashmap_put puts an element.
LEMMA StoreFacts ==
  ASSUME MapInv, Store
  PROVE  \E i \in DOMAIN data :
            /\ i \in Reach(data, Head(pending).key)
            /\ data[i] = None
            /\ data' = [data EXCEPT ![i] = Head(pending)]
            /\ ~(size >= TableSize(data) \div 2)
  <1>1. pending # << >> /\ Head(pending) # None
    BY DEF Store
  <1>2. PICK i \in Place(data, size, Head(pending).key) :
           data' = [data EXCEPT ![i] = Head(pending)]
    BY DEF Store
  <1>3. Head(pending).key \in Key
    BY <1>1, HeadFacts
  <1>4. /\ i \in DOMAIN data /\ i \in Reach(data, Head(pending).key)
        /\ data[i] = None \/ data[i].key = Head(pending).key
        /\ ~(size >= TableSize(data) \div 2)
    BY <1>2, <1>3, MapFacts, PlaceIs
  <1>5. data[i] = None
    BY <1>1, <1>4, HeadFacts DEF MapInv, Apart
  <1>6. QED
    BY <1>2, <1>4, <1>5

LEMMA StoreStep ==
  ASSUME MapInv, Store
  PROVE  MapInv'
  <1> DEFINE n == TableSize(data)  e == Head(pending)
  <1>1. /\ pending # << >> /\ e # None /\ pending' = Tail(pending)
        /\ size' = size + 1 /\ UNCHANGED << siphash, it >>
    BY DEF Store
  <1>2. PICK i \in DOMAIN data :
           /\ i \in Reach(data, e.key) /\ data[i] = None
           /\ data' = [data EXCEPT ![i] = e] /\ ~(size >= n \div 2)
    BY StoreFacts
  <1>3. e \in Element /\ e.key \in Key /\ e = pending[1] /\ Len(pending) \in Nat \ {0}
    BY <1>1, HeadFacts
  <1>4. \A j \in DOMAIN data : data[j] # None => data[j].key # e.key
    BY <1>1, <1>3 DEF MapInv, Apart
  <1>5. n \in Nat \ {0} /\ data \in Table(n) /\ DOMAIN data = 0 .. n - 1
    BY MapFacts
  <1>6. /\ data' \in Table(n) /\ Placed(data') /\ Unique(data')
        /\ Cardinality(Used(data')) = Cardinality(Used(data)) + 1
    <2>1. Placed(data) /\ Unique(data) /\ i \in 0 .. n - 1
      BY <1>5, MapFacts
    <2> HIDE DEF n, e
    <2>2. ASSUME NEW f, f = [data EXCEPT ![i] = e]
          PROVE  /\ f \in Table(n) /\ Placed(f) /\ Unique(f)
                 /\ Cardinality(Used(f)) = Cardinality(Used(data)) + 1
      BY <1>2, <1>3, <1>4, <1>5, <2>1, <2>2, TableStore
    <2>3. QED
      BY <1>2, <2>2
  <1>7. TableSize(data') = n /\ DOMAIN data' = 0 .. n - 1
    BY <1>5, <1>6, TableSizeIs
  <1>8. pending' \in Seq(Element \cup {None}) /\ Len(pending') = Len(pending) - 1
    BY <1>1, HeadFacts
  <1>9. MapTypeOK'
    BY <1>1, <1>5, <1>6, <1>7, <1>8 DEF MapInv, MapTypeOK
  <1>10. Counted'
    <2>1. size \in Nat
      BY <1>5, UsedFinite DEF MapInv, Counted
    <2>2. size + 1 <= n \div 2
      BY <1>2, <1>5, <2>1
    <2>3. QED
      BY <1>1, <1>6, <1>7, <2>2 DEF MapInv, Counted
  <1>11. Apart' /\ PutLast'
    <2>1. \A a \in 1 .. Len(pending') : a + 1 \in 1 .. Len(pending) /\ pending'[a] = pending[a + 1]
      BY <1>1, <1>3, <1>8, HeadFacts
    <2>2. \A j \in 0 .. n - 1 : data'[j] = IF j = i THEN e ELSE data[j]
      BY <1>2, <1>5
    <2>3. ASSUME NEW a \in 1 .. Len(pending'), pending'[a] # None
          PROVE  /\ \A j \in DOMAIN data' : data'[j] # None => data'[j].key # pending'[a].key
                 /\ \A b \in 1 .. Len(pending') :
                       pending'[b] # None /\ pending'[b].key = pending'[a].key => a = b
      <3>1. a + 1 \in 1 .. Len(pending) /\ pending'[a] = pending[a + 1]
        BY <2>1
      <3>2. pending'[a].key # e.key
        <4>1. a + 1 # 1 /\ 1 \in 1 .. Len(pending)
          BY <1>3, <1>8
        <4>2. QED
          BY <1>1, <1>3, <2>3, <3>1, <4>1 DEF MapInv, Apart
      <3>3. \A j \in DOMAIN data : data[j] # None => data[j].key # pending'[a].key
        BY <2>3, <3>1 DEF MapInv, Apart
      <3>4. \A j \in DOMAIN data' : data'[j] # None => data'[j].key # pending'[a].key
        BY <1>5, <1>7, <2>2, <3>2, <3>3
      <3>5. ASSUME NEW b \in 1 .. Len(pending'), pending'[b] # None, pending'[b].key = pending'[a].key
            PROVE  a = b
        <4>1. b + 1 \in 1 .. Len(pending) /\ pending'[b] = pending[b + 1]
          BY <2>1
        <4>2. a + 1 = b + 1
          BY <2>3, <3>1, <3>5, <4>1 DEF MapInv, Apart
        <4>3. QED
          BY <1>3, <1>8, <4>2
      <3>6. QED
        BY <3>4, <3>5
    <2>4. Apart'
      BY <2>3 DEF Apart
    <2>5. PutLast'
      <3> SUFFICES ASSUME pending' # << >> PROVE pending'[Len(pending')] # None
        BY DEF PutLast
      <3>1. Len(pending') \in 1 .. Len(pending')
        BY <1>3, <1>8
      <3>2. pending'[Len(pending')] = pending[Len(pending)]
        BY <1>3, <1>8, <2>1, <3>1
      <3>3. QED
        BY <1>1, <3>2 DEF MapInv, PutLast
    <2>6. QED
      BY <2>4, <2>5
  <1>12. Iterating'
    <2>1. CASE it.state \in { "at", "removed" }
      <3>1. \A j \in DOMAIN data : data[j] # None => data'[j] = data[j]
        BY <1>2, <1>5
      <3>2. /\ it.i \in -1 .. n - 1
            /\ ~it.astray => /\ Len(pending) <= 1
                             /\ it.state = "at" /\ it.i >= 0 => data[it.i] # None
        BY <2>1 DEF MapInv, Iterating
      <3>3. ~it.astray /\ it.state = "at" /\ it.i >= 0 => data'[it.i] # None
        BY <1>5, <3>1, <3>2
      <3>4. ASSUME NEW k \in it.steady
            PROVE  \E j \in DOMAIN data' :
                     Holds(data', j, k) /\ it.count[k] = IF j <= it.i THEN 1 ELSE 0
        <4>1. PICK j \in DOMAIN data :
                Holds(data, j, k) /\ it.count[k] = IF j <= it.i THEN 1 ELSE 0
          BY <2>1 DEF MapInv, Iterating
        <4>2. Holds(data', j, k) /\ j \in DOMAIN data'
          BY <1>5, <1>7, <3>1, <4>1 DEF Holds
        <4>3. QED
          BY <4>1, <4>2
      <3>5. ~it.astray => Len(pending') <= 1
        BY <1>3, <1>8, <3>2
      <3>6. QED
        BY <1>1, <1>7, <2>1, <3>2, <3>3, <3>4, <3>5 DEF Iterating
    <2>2. CASE it.state \notin { "at", "removed" }
      BY <1>1, <2>2 DEF MapInv, Iterating
    <2>3. QED
      BY <2>1, <2>2
  <1>13. Placed(data)' /\ Unique(data)'
    BY <1>1, <1>6 DEF Placed, Unique, Reach, Probe
  <1>14. QED
    BY <1>9, <1>10, <1>11, <1>12, <1>13 DEF MapInv

\* The elements of the old table, in front of what was still to be put.
LEMMA RehashFacts ==
  ASSUME MapInv, Rehash
  PROVE  /\ pending' \in Seq(Element \cup {None})
         /\ Len(pending) \in Nat \ {0}
         /\ Len(pending') = TableSize(data) + Len(pending)
         /\ \A a \in 1 .. TableSize(data) : a - 1 \in DOMAIN data /\ pending'[a] = data[a - 1]
         /\ \A a \in 1 .. Len(pending) : pending'[TableSize(data) + a] = pending[a]
         /\ \A a \in 1 .. Len(pending') :
               a \in 1 .. TableSize(data) \/ a - TableSize(data) \in 1 .. Len(pending)
  <1> DEFINE n == TableSize(data)
  <1>1. /\ n \in Nat \ {0} /\ data \in Table(n) /\ DOMAIN data = 0 .. n - 1
    BY MapFacts
  <1>2. \A a \in 1 .. n : a - 1 \in 0 .. n - 1 /\ data[a - 1] \in Element \cup {None}
    BY <1>1 DEF Table
  <1>3. Entries(data) \in [1 .. n -> Element \cup {None}]
    BY <1>1, <1>2 DEF Entries
  <1>4. /\ Entries(data) \in Seq(Element \cup {None})
        /\ Len(Entries(data)) = n
        /\ \A a \in 1 .. n : Entries(data)[a] = data[a - 1]
    <2>1. Entries(data) \in Seq(Element \cup {None})
      BY <1>1, <1>3, SeqDef
    <2>2. \A a \in 1 .. n : Entries(data)[a] = data[a - 1]
      BY DEF Entries
    <2> HIDE DEF n
    <2>3. Len(Entries(data)) = n
      BY <1>1, <1>3, <2>1
    <2>4. QED
      BY <2>1, <2>2, <2>3
  <1>5. pending \in Seq(Element \cup {None}) /\ pending # << >>
    BY DEF MapInv, MapTypeOK, Rehash, NoPlace
  <1>6. Len(pending) \in Nat \ {0}
    BY <1>5
  <1>7. pending' = Entries(data) \o pending
    BY DEF Rehash
  <1> HIDE DEF n
  <1>8. /\ pending' \in Seq(Element \cup {None})
        /\ Len(pending') = n + Len(pending)
        /\ \A a \in 1 .. n + Len(pending) :
              pending'[a] = IF a <= n THEN Entries(data)[a] ELSE pending[a - n]
    BY <1>4, <1>5, <1>7, ConcatProperties
  <1>9. \A a \in 1 .. n : pending'[a] = data[a - 1]
    BY <1>1, <1>4, <1>6, <1>8
  <1>10. \A a \in 1 .. Len(pending) : pending'[n + a] = pending[a]
    <2> SUFFICES ASSUME NEW a \in 1 .. Len(pending) PROVE pending'[n + a] = pending[a]
      OBVIOUS
    <2>1. PICK b \in 1 .. n + Len(pending) : b = n + a /\ ~(b <= n) /\ b - n = a
      BY <1>1, <1>6
    <2>2. pending'[b] = pending[b - n]
      BY <1>8, <2>1
    <2>3. QED
      BY <2>1, <2>2
  <1>11. QED
    BY <1>1, <1>2, <1>6, <1>8, <1>9, <1>10 DEF n

LEMMA RehashStep ==
  ASSUME MapInv, Rehash
  PROVE  MapInv'
  <1> DEFINE n == TableSize(data)
  <1>1. /\ pending # << >> /\ data' = EmptyTable(2 * n) /\ size' = 0 /\ siphash' = siphash
        /\ it' = IF it.state \in { "at", "removed" }
                 THEN [NoIterator EXCEPT !.i = it.i, !.state = it.state, !.astray = TRUE]
                 ELSE it
    BY DEF Rehash, NoPlace
  <1>2. n \in Nat \ {0} /\ DOMAIN data = 0 .. n - 1 /\ Unique(data)
    BY MapFacts
  <1>3. 2 * n \in Nat \ {0}
    BY <1>2
  <1>4. /\ data' \in Table(2 * n) /\ Placed(EmptyTable(2 * n)) /\ Unique(data')
        /\ Cardinality(Used(data')) = 0 /\ TableSize(data') = 2 * n
        /\ DOMAIN data' = 0 .. 2 * n - 1 /\ \A i \in DOMAIN data' : data'[i] = None
    BY <1>1, <1>3, TableEmpty
  <1>5. MapTypeOK'
    <2>1. it' \in [ i : Int, count : [Key -> Nat], steady : SUBSET Key,
                    state : { "none", "at", "removed", "ended" }, astray : BOOLEAN ]
      BY <1>1 DEF MapInv, MapTypeOK, NoIterator
    <2>2. QED
      BY <1>1, <1>3, <1>4, <2>1, RehashFacts DEF MapInv, MapTypeOK
  <1>6. Placed(data)' /\ Unique(data)'
    BY <1>4 DEF Placed, Unique
  <1>7. Counted'
    BY <1>1, <1>3, <1>4 DEF Counted
  <1>8. Apart'
    <2> SUFFICES ASSUME NEW a \in 1 .. Len(pending'), NEW b \in 1 .. Len(pending'),
                        pending'[a] # None, pending'[b] # None, pending'[b].key = pending'[a].key
                 PROVE  a = b
      BY <1>4 DEF Apart
    <2> HIDE DEF n
    <2>1. /\ Len(pending) \in Nat \ {0}
          /\ Len(pending') = n + Len(pending)
          /\ \A c \in 1 .. n : c - 1 \in DOMAIN data /\ pending'[c] = data[c - 1]
          /\ \A c \in 1 .. Len(pending) : pending'[n + c] = pending[c]
      BY RehashFacts DEF n
    <2>2. \A c \in 1 .. Len(pending') : c > n => c - n \in 1 .. Len(pending) /\ pending'[c] = pending[c - n]
      <3> SUFFICES ASSUME NEW c \in 1 .. Len(pending'), c > n
                   PROVE  c - n \in 1 .. Len(pending) /\ pending'[c] = pending[c - n]
        OBVIOUS
      <3>1. c - n \in 1 .. Len(pending) /\ n + (c - n) = c
        BY <1>2, <2>1
      <3>2. QED
        BY <2>1, <3>1
    <2>3. \A c \in 1 .. Len(pending') : c <= n => c \in 1 .. n
      BY <1>2, <2>1
    <2>4. CASE a <= n /\ b <= n
      <3>1. a - 1 \in DOMAIN data /\ pending'[a] = data[a - 1]
            /\ b - 1 \in DOMAIN data /\ pending'[b] = data[b - 1]
        BY <2>1, <2>3, <2>4
      <3>2. a - 1 = b - 1
        BY <1>2, <3>1 DEF Unique
      <3>3. QED
        BY <2>1, <3>2, <1>2
    <2>5. CASE a > n /\ b > n
      <3>1. a - n = b - n
        BY <2>2, <2>5 DEF MapInv, Apart
      <3>2. QED
        BY <1>2, <2>1, <3>1
    <2>6. CASE a <= n /\ b > n
      <3>1. a - 1 \in DOMAIN data /\ pending'[a] = data[a - 1]
        BY <2>1, <2>3, <2>6
      <3>2. b - n \in 1 .. Len(pending) /\ pending'[b] = pending[b - n]
        BY <2>2, <2>6
      <3>3. QED
        BY <3>1, <3>2 DEF MapInv, Apart
    <2>7. CASE a > n /\ b <= n
      <3>1. b - 1 \in DOMAIN data /\ pending'[b] = data[b - 1]
        BY <2>1, <2>3, <2>7
      <3>2. a - n \in 1 .. Len(pending) /\ pending'[a] = pending[a - n]
        BY <2>2, <2>7
      <3>3. QED
        BY <3>1, <3>2 DEF MapInv, Apart
    <2>8. QED
      BY <1>2, <2>1, <2>4, <2>5, <2>6, <2>7
  <1>9. PutLast'
    <2>1. Len(pending) \in 1 .. Len(pending)
      BY RehashFacts
    <2>2. pending'[Len(pending')] = pending[Len(pending)]
      BY <2>1, RehashFacts
    <2>3. QED
      BY <1>1, <2>2 DEF MapInv, PutLast
  <1>10. Iterating'
    <2>1. CASE it.state \in { "at", "removed" }
      <3>1. it'.i = it.i /\ it'.state = it.state /\ it'.astray /\ it'.steady = {}
        BY <1>1, <2>1 DEF NoIterator
      <3>2. it.i \in -1 .. n - 1
        BY <2>1 DEF MapInv, Iterating
      <3>3. it'.i \in -1 .. TableSize(data') - 1
        BY <1>2, <1>4, <3>1, <3>2
      <3>4. QED
        BY <2>1, <3>1, <3>3 DEF Iterating
    <2>2. CASE it.state \notin { "at", "removed" }
      BY <1>1, <2>2 DEF MapInv, Iterating
    <2>3. QED
      BY <2>1, <2>2
  <1>11. QED
    BY <1>5, <1>6, <1>7, <1>8, <1>9, <1>10 DEF MapInv

LEMMA RehashNoMemoryStep ==
  ASSUME MapInv, RehashNoMemory
  PROVE  MapInv'
  <1>1. pending' = << >> /\ UNCHANGED << siphash, data, size, it >>
    BY DEF RehashNoMemory
  <1>2. Apart' /\ PutLast'
    BY <1>1 DEF Apart, PutLast
  <1>3. Iterating'
    BY <1>1 DEF MapInv, Iterating, Holds, TableSize
  <1>4. MapTypeOK'
    BY <1>1 DEF MapInv, MapTypeOK, Table, TableSize
  <1>5. Placed(data)' /\ Unique(data)' /\ Counted'
    BY <1>1 DEF MapInv, Placed, Unique, Counted, Reach, Probe, TableSize, Used
  <1>6. QED
    BY <1>2, <1>3, <1>4, <1>5 DEF MapInv

\* An element goes while no put is under way.
LEMMA RemoveStep ==
  ASSUME MapInv, pending = << >>, NEW i \in DOMAIN data, data[i] # None,
         data' = [data EXCEPT ![i] = None], size' = size - 1,
         UNCHANGED << siphash, pending >>
  PROVE  /\ TableSize(data') = TableSize(data) /\ data' \in Table(TableSize(data))
         /\ Placed(data)' /\ Unique(data)' /\ Counted' /\ Apart' /\ PutLast'
  <1> DEFINE n == TableSize(data)
  <1>1. n \in Nat \ {0} /\ data \in Table(n) /\ DOMAIN data = 0 .. n - 1
        /\ Placed(data) /\ Unique(data)
    BY MapFacts
  <1>2. /\ data' \in Table(n) /\ Placed(data') /\ Unique(data')
        /\ Cardinality(Used(data')) = Cardinality(Used(data)) - 1
    <2> HIDE DEF n
    <2>1. ASSUME NEW f, f = [data EXCEPT ![i] = None]
          PROVE  /\ f \in Table(n) /\ Placed(f) /\ Unique(f)
                 /\ Cardinality(Used(f)) = Cardinality(Used(data)) - 1
      BY <1>1, <2>1, TableClear
    <2>2. QED
      BY <2>1
  <1>3. TableSize(data') = n
    BY <1>1, <1>2, TableSizeIs
  <1>4. Placed(data)' /\ Unique(data)'
    BY <1>2 DEF Placed, Unique, Reach, Probe
  <1>5. Counted'
    <2>1. size \in Nat /\ size <= n \div 2 /\ size' = Cardinality(Used(data'))
      BY <1>1, <1>2, UsedFinite DEF MapInv, Counted
    <2>2. QED
      BY <1>1, <1>3, <2>1 DEF Counted
  <1>6. Apart' /\ PutLast'
    BY DEF Apart, PutLast
  <1>7. QED
    BY <1>2, <1>3, <1>4, <1>5, <1>6

\* What an iterator keeps when key k has gone.
LEMMA WithoutIs ==
  ASSUME MapInv, NEW k \in Key
  PROVE  /\ Without(k).i = it.i /\ Without(k).state = it.state /\ Without(k).astray = it.astray
         /\ Without(k).steady = it.steady \ {k}
         /\ \A l \in Key : l # k => Without(k).count[l] = it.count[l]
         /\ Without(k) \in [ i : Int, count : [Key -> Nat], steady : SUBSET Key,
                             state : { "none", "at", "removed", "ended" }, astray : BOOLEAN ]
  <1>1. it \in [ i : Int, count : [Key -> Nat], steady : SUBSET Key,
                state : { "none", "at", "removed", "ended" }, astray : BOOLEAN ]
    BY DEF MapInv, MapTypeOK
  <1>2. Without(k) = [it EXCEPT !.steady = it.steady \ {k}, !.count = [it.count EXCEPT ![k] = 0]]
    BY <1>1 DEF Without
  <1> DEFINE c == [it.count EXCEPT ![k] = 0]
             s == it.steady \ {k}
  <1>3. c \in [Key -> Nat]
    BY <1>1
  <1>4. \A l \in Key : l # k => c[l] = it.count[l]
    BY <1>1
  <1>5. s \in SUBSET Key
    BY <1>1
  <1>6. Without(k) = [it EXCEPT !.steady = s, !.count = c]
    BY <1>2
  <1> HIDE DEF c, s
  <1>7. /\ Without(k).i = it.i /\ Without(k).state = it.state /\ Without(k).astray = it.astray
        /\ Without(k).steady = s /\ Without(k).count = c
    BY <1>1, <1>6
  <1>8. Without(k) \in [ i : Int, count : [Key -> Nat], steady : SUBSET Key,
                         state : { "none", "at", "removed", "ended" }, astray : BOOLEAN ]
    BY <1>1, <1>3, <1>5, <1>6
  <1>9. s = it.steady \ {k}
    BY DEF s
  <1>10. QED
    BY <1>4, <1>7, <1>8, <1>9

\* The steady keys that stay are where they were.
LEMMA SteadyStay ==
  ASSUME MapInv, it.state \in { "at", "removed" }, NEW i \in DOMAIN data, data[i] # None,
         data' = [data EXCEPT ![i] = None], NEW k \in it.steady \ {data[i].key}
  PROVE  \E j \in DOMAIN data' :
            Holds(data', j, k) /\ Without(data[i].key).count[k] = IF j <= it.i THEN 1 ELSE 0
  <1>1. PICK j \in DOMAIN data :
          Holds(data, j, k) /\ it.count[k] = IF j <= it.i THEN 1 ELSE 0
    BY DEF MapInv, Iterating
  <1>2. j # i
    BY <1>1 DEF Holds
  <1>3. data'[j] = data[j] /\ j \in DOMAIN data'
    BY <1>2
  <1>4. k \in Key /\ k # data[i].key /\ data[i].key \in Key
    BY MapFacts DEF MapInv, MapTypeOK
  <1>5. Without(data[i].key).count[k] = it.count[k]
    BY <1>4, WithoutIs
  <1>6. QED
    BY <1>1, <1>3, <1>5 DEF Holds

LEMMA GetRemoveStep ==
  ASSUME MapInv, NEW k \in Key, GetRemove(k)
  PROVE  MapInv'
  <1>1. pending = << >> /\ UNCHANGED << siphash, pending >>
    BY DEF GetRemove
  <1>2. CASE UNCHANGED << data, size, it >>
    BY <1>1, <1>2, SameMap
  <1>3. CASE /\ Lookup(data, k) # {} /\ data' = [data EXCEPT ![Min(Lookup(data, k))] = None]
             /\ size' = size - 1 /\ it' = [Without(k) EXCEPT !.astray = @ \/ Standing = k]
    <2> DEFINE m == Min(Lookup(data, k))
    <2>1. Lookup(data, k) \subseteq Nat
      BY MapFacts
    <2>2. m \in DOMAIN data /\ data[m] # None /\ data[m].key = k
      BY <1>3, <2>1, MinIs, MapFacts DEF Holds
    <2>3. data' = [data EXCEPT ![m] = None]
      BY <1>3
    <2> HIDE DEF m
    <2>4. /\ TableSize(data') = TableSize(data) /\ data' \in Table(TableSize(data))
          /\ Placed(data)' /\ Unique(data)' /\ Counted' /\ Apart' /\ PutLast'
      BY <1>1, <1>3, <2>2, <2>3, RemoveStep
    <2>5. /\ it'.i = it.i /\ it'.state = it.state /\ it'.steady = it.steady \ {k}
          /\ it'.count = Without(k).count
          /\ ~it'.astray => ~it.astray /\ Standing # k
          /\ it' \in [ i : Int, count : [Key -> Nat], steady : SUBSET Key,
                       state : { "none", "at", "removed", "ended" }, astray : BOOLEAN ]
      BY <1>3, WithoutIs
    <2>6. MapTypeOK'
      BY <1>1, <2>4, <2>5 DEF MapInv, MapTypeOK
    <2>7. ASSUME it.state \in { "at", "removed" } PROVE Iterating'
      <3>1. ASSUME NEW l \in it'.steady
            PROVE  \E j \in DOMAIN data' :
                      Holds(data', j, l) /\ it'.count[l] = IF j <= it'.i THEN 1 ELSE 0
        <4>1. \A h \in it.steady \ {data[m].key} : \E j \in DOMAIN data' :
                 Holds(data', j, h) /\ Without(data[m].key).count[h] = IF j <= it.i THEN 1 ELSE 0
          BY <2>2, <2>3, <2>7, SteadyStay
        <4>2. QED
          BY <2>2, <2>5, <3>1, <4>1
      <3>2. it'.i \in -1 .. TableSize(data') - 1
        BY <2>4, <2>5, <2>7 DEF MapInv, Iterating
      <3>3. ASSUME ~it'.astray, it.state = "at", it.i >= 0 PROVE data'[it.i] # None
        <4>1. data[it.i] # None /\ Standing # k
          BY <2>5, <2>7, <3>3 DEF MapInv, Iterating
        <4>2. it.i # m
          BY <2>2, <3>3, <4>1 DEF Standing
        <4>3. it.i \in DOMAIN data
          BY <2>7, <3>3, MapFacts DEF MapInv, Iterating
        <4>4. QED
          BY <2>3, <4>1, <4>2, <4>3
      <3>4. Len(pending') <= 1
        BY <1>1
      <3>5. QED
        BY <2>5, <2>7, <3>1, <3>2, <3>3, <3>4 DEF Iterating
    <2>8. ASSUME it.state = "ended" PROVE Iterating'
      <3>1. ASSUME NEW l \in it'.steady PROVE it'.count[l] = 1
        <4>1. l \in it.steady /\ l \in Key /\ l # k
          BY <2>5, <3>1 DEF MapInv, MapTypeOK
        <4>2. it'.count[l] = it.count[l]
          BY <2>5, <4>1, WithoutIs
        <4>3. QED
          BY <2>8, <4>1, <4>2 DEF MapInv, Iterating
      <3>2. QED
        BY <2>5, <2>8, <3>1 DEF Iterating
    <2>9. Iterating'
      BY <2>5, <2>7, <2>8 DEF Iterating
    <2>10. QED
      BY <2>4, <2>6, <2>9 DEF MapInv
  <1>4. QED
    BY <1>2, <1>3 DEF GetRemove

LEMMA ItNewStep ==
  ASSUME MapInv, ItNew
  PROVE  MapInv'
  <1>1. /\ pending = << >> /\ UNCHANGED << siphash, data, size, pending >>
        /\ it' = [NoIterator EXCEPT !.steady = Keys, !.state = "at"]
    BY DEF ItNew
  <1>2. TableSize(data) \in Nat \ {0} /\ DOMAIN data = 0 .. TableSize(data) - 1
        /\ Keys \subseteq Key
    BY MapFacts DEF Keys
  <1>3. /\ it'.i = -1 /\ it'.state = "at" /\ it'.steady = Keys
        /\ it'.count = [k \in Key |-> 0]
        /\ it' \in [ i : Int, count : [Key -> Nat], steady : SUBSET Key,
                     state : { "none", "at", "removed", "ended" }, astray : BOOLEAN ]
    BY <1>1, <1>2 DEF NoIterator
  <1>4. ASSUME NEW k \in Keys
        PROVE  \E i \in DOMAIN data :
                 Holds(data, i, k) /\ it'.count[k] = IF i <= it'.i THEN 1 ELSE 0
    <2>1. PICK i \in DOMAIN data : data[i] # None /\ data[i].key = k
      BY <1>4 DEF Keys
    <2>2. ~(i <= -1) /\ it'.count[k] = 0
      BY <1>2, <1>3, <1>4, <2>1
    <2>3. QED
      BY <1>3, <2>1, <2>2 DEF Holds
  <1>5. Iterating'
    BY <1>1, <1>2, <1>3, <1>4 DEF Iterating, Holds, TableSize
  <1>6. MapTypeOK'
    BY <1>1, <1>3 DEF MapInv, MapTypeOK, Table, TableSize
  <1>7. Placed(data)' /\ Unique(data)' /\ Counted' /\ Apart' /\ PutLast'
    BY <1>1 DEF MapInv, Placed, Unique, Counted, Apart, PutLast, Reach, Probe, TableSize, Used
  <1>8. QED
    BY <1>5, <1>6, <1>7 DEF MapInv

\* The search of hashmap_it_next stops at the first element ahead.
LEMMA AheadIs ==
  ASSUME MapInv, Ahead # {}
  PROVE  /\ Min(Ahead) \in DOMAIN data /\ Min(Ahead) > it.i /\ data[Min(Ahead)] # None
         /\ \A i \in DOMAIN data : i > it.i /\ data[i] # None => Min(Ahead) <= i
  <1>1. Ahead \subseteq Nat
    BY MapFacts DEF Ahead
  <1>2. Min(Ahead) \in Ahead /\ \A i \in Ahead : Min(Ahead) <= i
    BY <1>1, MinIs
  <1>3. QED
    BY <1>2 DEF Ahead

LEMMA ItNextStep ==
  ASSUME MapInv, ItNext
  PROVE  MapInv'
  <1>1. /\ pending = << >> /\ it.state \in { "at", "removed" }
        /\ UNCHANGED << siphash, data, size, pending >>
    BY DEF ItNext
  <1>2. /\ TableSize(data) \in Nat \ {0} /\ DOMAIN data = 0 .. TableSize(data) - 1
        /\ Unique(data)
        /\ \A i \in DOMAIN data : data[i] # None => data[i].key \in Key
    BY MapFacts
  <1>3. it \in [ i : Int, count : [Key -> Nat], steady : SUBSET Key,
                state : { "none", "at", "removed", "ended" }, astray : BOOLEAN ]
    BY DEF MapInv, MapTypeOK
  <1>4. \A k \in it.steady : \E i \in DOMAIN data :
           Holds(data, i, k) /\ it.count[k] = IF i <= it.i THEN 1 ELSE 0
    BY <1>1 DEF MapInv, Iterating
  <1>5. CASE /\ Ahead # {}
             /\ it' = [it EXCEPT !.i = Min(Ahead), !.state = "at",
                                 !.count[data[Min(Ahead)].key] = Again(data[Min(Ahead)].key)]
    <2> DEFINE m == Min(Ahead)  key == data[m].key
    <2>1. /\ m \in DOMAIN data /\ m > it.i /\ data[m] # None
          /\ \A i \in DOMAIN data : i > it.i /\ data[i] # None => m <= i
      BY <1>5, AheadIs
    <2>2. key \in Key /\ m \in Int
      BY <1>2, <2>1
    <2> HIDE DEF m, key
    <2>3. /\ it'.i = m /\ it'.state = "at" /\ it'.steady = it.steady
          /\ \A k \in Key : it'.count[k] = IF k # key THEN it.count[k] ELSE Again(k)
          /\ it'.astray = it.astray
          /\ it' \in [ i : Int, count : [Key -> Nat], steady : SUBSET Key,
                       state : { "none", "at", "removed", "ended" }, astray : BOOLEAN ]
      <3> DEFINE again == Again(key)
      <3>1. it.count \in [Key -> Nat] /\ again \in Nat
        BY <1>3, <2>2 DEF Again
      <3> HIDE DEF again
      <3>2. it' = [it EXCEPT !.i = m, !.state = "at", !.count = [@ EXCEPT ![key] = again]]
        BY <1>5, Zenon DEF m, key, again
      <3>3. [it.count EXCEPT ![key] = again] \in [Key -> Nat]
        BY <2>2, <3>1
      <3>4. /\ it'.i = m /\ it'.state = "at" /\ it'.steady = it.steady
            /\ it'.count = [it.count EXCEPT ![key] = again]
            /\ it'.astray = it.astray
            /\ it' \in [ i : Int, count : [Key -> Nat], steady : SUBSET Key,
                         state : { "none", "at", "removed", "ended" }, astray : BOOLEAN ]
        BY <1>3, <2>2, <3>2, <3>3
      <3>5. QED
        BY <2>2, <3>1, <3>4 DEF again
    <2>4. ASSUME NEW k \in it.steady
          PROVE  \E i \in DOMAIN data :
                   Holds(data, i, k) /\ it'.count[k] = IF i <= it'.i THEN 1 ELSE 0
      <3>1. PICK i \in DOMAIN data :
              Holds(data, i, k) /\ it.count[k] = IF i <= it.i THEN 1 ELSE 0
        BY <1>4
      <3>2. k \in Key /\ it.i \in Int /\ i \in Int
        BY <1>2, <1>3
      <3>3. CASE i = m
        <4>1. k = key /\ ~(i <= it.i) /\ it.count[k] = 0
          BY <2>1, <2>2, <3>1, <3>2, <3>3 DEF Holds, key
        <4>2. it'.count[k] = 1
          BY <2>3, <3>2, <4>1 DEF Again
        <4>3. QED
          BY <2>2, <2>3, <3>1, <3>3, <4>2
      <3>4. CASE i # m
        <4>1. k # key
          BY <1>2, <2>1, <3>1, <3>4 DEF Holds, Unique, key
        <4>2. it'.count[k] = it.count[k]
          BY <2>3, <3>2, <4>1
        <4>3. i <= it.i <=> i <= m
          BY <2>1, <2>2, <3>1, <3>2, <3>4 DEF Holds
        <4>4. QED
          BY <2>3, <3>1, <4>2, <4>3
      <3>5. QED
        BY <3>3, <3>4
    <2>5. Iterating'
      BY <1>1, <1>2, <2>1, <2>3, <2>4 DEF Iterating, Holds, TableSize
    <2>6. MapTypeOK'
      BY <1>1, <2>3 DEF MapInv, MapTypeOK, Table, TableSize
    <2>7. QED
      BY <1>1, <2>5, <2>6 DEF MapInv, Placed, Unique, Counted, Apart, PutLast, Reach, Probe, TableSize, Used
  <1>6. CASE /\ Ahead = {}
             /\ it' = [it EXCEPT !.i = TableSize(data), !.state = "ended"]
    <2>1. /\ it'.state = "ended" /\ it'.steady = it.steady /\ it'.count = it.count
          /\ it' \in [ i : Int, count : [Key -> Nat], steady : SUBSET Key,
                       state : { "none", "at", "removed", "ended" }, astray : BOOLEAN ]
      <3>1. TableSize(data) \in Int
        BY <1>2
      <3>2. QED
        BY <1>3, <1>6, <3>1
    <2>2. \A k \in it.steady : it.count[k] = 1
      BY <1>2, <1>3, <1>4, <1>6 DEF Ahead, Holds
    <2>3. Iterating'
      BY <2>1, <2>2 DEF Iterating
    <2>4. MapTypeOK'
      BY <1>1, <2>1 DEF MapInv, MapTypeOK, Table, TableSize
    <2>5. QED
      BY <1>1, <2>3, <2>4 DEF MapInv, Placed, Unique, Counted, Apart, PutLast, Reach, Probe, TableSize, Used
  <1>7. QED
    BY <1>5, <1>6, Zenon DEF ItNext

LEMMA ItRemoveStep ==
  ASSUME MapInv, ItRemove
  PROVE  MapInv'
  <1>1. /\ pending = << >> /\ it.state = "at" /\ it.i >= 0
        /\ UNCHANGED << siphash, pending >>
    BY DEF ItRemove
  <1>2. /\ TableSize(data) \in Nat \ {0} /\ DOMAIN data = 0 .. TableSize(data) - 1
    BY MapFacts
  <1>3. it \in [ i : Int, count : [Key -> Nat], steady : SUBSET Key,
                state : { "none", "at", "removed", "ended" }, astray : BOOLEAN ]
    BY DEF MapInv, MapTypeOK
  <1>4. it.i \in DOMAIN data
    BY <1>1, <1>2 DEF MapInv, Iterating
  <1>5. CASE it' = [it EXCEPT !.state = "removed"] /\ UNCHANGED << data, size >>
    <2>1. /\ it'.i = it.i /\ it'.state = "removed" /\ it'.count = it.count
          /\ it'.steady = it.steady /\ it'.astray = it.astray
          /\ it' \in [ i : Int, count : [Key -> Nat], steady : SUBSET Key,
                       state : { "none", "at", "removed", "ended" }, astray : BOOLEAN ]
      BY <1>3, <1>5
    <2>2. Iterating'
      BY <1>1, <1>5, <2>1 DEF MapInv, Iterating, Holds, TableSize
    <2>3. MapTypeOK'
      BY <1>1, <1>5, <2>1 DEF MapInv, MapTypeOK, Table, TableSize
    <2>4. QED
      BY <1>1, <1>5, <2>2, <2>3
      DEF MapInv, Placed, Unique, Counted, Apart, PutLast, Reach, Probe, TableSize, Used
  <1>6. CASE /\ data[it.i] # None /\ data' = [data EXCEPT ![it.i] = None] /\ size' = size - 1
             /\ it' = [Without(data[it.i].key) EXCEPT !.state = "removed"]
    <2> DEFINE key == data[it.i].key
    <2>1. key \in Key
      BY <1>4, <1>6, MapFacts
    <2>2. /\ TableSize(data') = TableSize(data) /\ data' \in Table(TableSize(data))
          /\ Placed(data)' /\ Unique(data)' /\ Counted' /\ Apart' /\ PutLast'
      BY <1>1, <1>4, <1>6, RemoveStep
    <2>3. /\ it'.i = it.i /\ it'.state = "removed" /\ it'.count = Without(key).count
          /\ it'.steady = it.steady \ {key} /\ it'.astray = it.astray
          /\ it' \in [ i : Int, count : [Key -> Nat], steady : SUBSET Key,
                       state : { "none", "at", "removed", "ended" }, astray : BOOLEAN ]
      BY <1>6, <2>1, WithoutIs
    <2>4. ASSUME NEW k \in it'.steady
          PROVE  \E j \in DOMAIN data' :
                   Holds(data', j, k) /\ it'.count[k] = IF j <= it'.i THEN 1 ELSE 0
      <3>1. \A h \in it.steady \ {key} : \E j \in DOMAIN data' :
               Holds(data', j, h) /\ Without(key).count[h] = IF j <= it.i THEN 1 ELSE 0
        BY <1>1, <1>4, <1>6, SteadyStay
      <3>2. QED
        BY <2>3, <2>4, <3>1
    <2>5. Len(pending') <= 1 /\ it'.i \in -1 .. TableSize(data') - 1
      BY <1>1, <1>2, <1>4, <2>2, <2>3
    <2>6. Iterating'
      BY <2>3, <2>4, <2>5 DEF Iterating
    <2>7. MapTypeOK'
      BY <1>1, <2>2, <2>3 DEF MapInv, MapTypeOK
    <2>8. QED
      BY <2>2, <2>6, <2>7 DEF MapInv
  <1>7. QED
    BY <1>5, <1>6 DEF ItRemove

LEMMA ItFreeStep ==
  ASSUME MapInv, ItFree
  PROVE  MapInv'
  <1>1. UNCHANGED << siphash, data, size, pending >> /\ it' = NoIterator
    BY DEF ItFree
  <1>2. MapTypeOK' /\ Iterating'
    BY <1>1 DEF MapInv, MapTypeOK, Iterating, NoIterator, Table, TableSize
  <1>3. QED
    BY <1>1, <1>2 DEF MapInv, Placed, Unique, Counted, Apart, PutLast, Reach, Probe, TableSize, Used

LEMMA MapStep == MapInv /\ [Next]_vars => MapInv'
  <1> SUFFICES ASSUME MapInv, [Next]_vars PROVE MapInv'
    OBVIOUS
  <1>1. ASSUME NEW k \in Key, Get(k) PROVE MapInv'
    BY <1>1, SameMap DEF Get
  <1>2. ASSUME UNCHANGED vars PROVE MapInv'
    BY <1>2, SameMap DEF vars
  <1>3. QED
    BY <1>1, <1>2, PutStep, SkipStep, StoreStep, RehashStep, RehashNoMemoryStep,
       GetRemoveStep, ItNewStep, ItNextStep, ItRemoveStep, ItFreeStep DEF Next

LEMMA MapAlways == Spec => []MapInv
  BY MapInitInv, MapStep, PTL DEF Spec

\* A key is where hashmap_get looks for it, the elements are counted, and the table
\* is at most half full: for any keys, hash values, sizes and failures of calloc,
\* also in the middle of a rehash.
THEOREM MapWellFormed == Spec => []WellFormed
  BY MapAlways, MapInvHolds, PTL

\* An iteration hands out each key exactly once that has been in the map all the while,
\* whatever is put in and removed, and that no growth of the table has moved.
THEOREM MapEachOnce == Spec => []EachOnce
  BY MapAlways, MapInvHolds, PTL

-----------------------------------------------------------------------------
(* The map the table implements.                                           *)

Distinct(E) == \A e, f \in E : e.key = f.key => e = f

\* The map of a set of elements with different keys.
MapOf(E) ==
    [k \in Key |-> IF \E e \in E : e.key = k THEN (CHOOSE e \in E : e.key = k).data ELSE None]

LEMMA MapOfIs ==
  ASSUME NEW E, E \subseteq Element, Distinct(E)
  PROVE  /\ \A e \in E : MapOf(E)[e.key] = e.data /\ MapOf(E)[e.key] # None
         /\ \A k \in Key : (\A e \in E : e.key # k) => MapOf(E)[k] = None
         /\ DOMAIN MapOf(E) = Key
  <1>1. ASSUME NEW e \in E
        PROVE  MapOf(E)[e.key] = e.data /\ MapOf(E)[e.key] # None
    <2>1. e.key \in Key /\ e.data \in Value
      BY ElementIs
    <2>2. (CHOOSE f \in E : f.key = e.key) = e
      BY DEF Distinct
    <2>3. MapOf(E)[e.key] = e.data
      BY <2>1, <2>2 DEF MapOf
    <2>4. QED
      BY <2>1, <2>3, MapAssumption DEF MapAssumption
  <1>2. \A k \in Key : (\A e \in E : e.key # k) => MapOf(E)[k] = None
    BY DEF MapOf
  <1>3. DOMAIN MapOf(E) = Key
    BY DEF MapOf
  <1>4. QED
    BY <1>1, <1>2, <1>3

\* A map with one element more.
LEMMA MapOfAdd ==
  ASSUME NEW E, E \subseteq Element, Distinct(E), NEW e \in Element,
         \A f \in E : f.key # e.key
  PROVE  MapOf(E \cup {e}) = [MapOf(E) EXCEPT ![e.key] = e.data]
  <1> DEFINE F == E \cup {e}
  <1>1. F \subseteq Element /\ Distinct(F)
    BY DEF Distinct
  <1>2. ASSUME NEW k \in Key
        PROVE  MapOf(F)[k] = IF k = e.key THEN e.data ELSE MapOf(E)[k]
    <2>1. CASE k = e.key
      BY <1>1, <2>1, MapOfIs
    <2>2. CASE k # e.key /\ \E f \in E : f.key = k
      BY <1>1, <2>2, MapOfIs
    <2>3. CASE k # e.key /\ \A f \in E : f.key # k
      BY <1>1, <2>3, MapOfIs
    <2>4. QED
      BY <2>1, <2>2, <2>3
  <1>3. MapOf(F) = [k \in Key |-> MapOf(F)[k]] /\ MapOf(E) = [k \in Key |-> MapOf(E)[k]]
    BY DEF MapOf
  <1> HIDE DEF F
  <1>4. MapOf(F) = [MapOf(E) EXCEPT ![e.key] = e.data]
    BY <1>2, <1>3, ElementIs
  <1>5. QED
    BY <1>4 DEF F

\* And with one less.
LEMMA MapOfRemove ==
  ASSUME NEW E, E \subseteq Element, Distinct(E), NEW e \in E
  PROVE  MapOf(E \ {e}) = [MapOf(E) EXCEPT ![e.key] = None]
  <1> DEFINE F == E \ {e}
  <1>1. F \subseteq Element /\ Distinct(F)
    BY DEF Distinct
  <1>2. ASSUME NEW k \in Key
        PROVE  MapOf(F)[k] = IF k = e.key THEN None ELSE MapOf(E)[k]
    <2>1. CASE k = e.key
      <3>1. \A f \in F : f.key # k
        BY <2>1 DEF Distinct
      <3>2. QED
        BY <1>1, <2>1, <3>1, MapOfIs
    <2>2. CASE k # e.key /\ \E f \in E : f.key = k
      BY <1>1, <2>2, MapOfIs
    <2>3. CASE k # e.key /\ \A f \in E : f.key # k
      BY <1>1, <2>3, MapOfIs
    <2>4. QED
      BY <2>1, <2>2, <2>3
  <1>3. MapOf(F) = [k \in Key |-> MapOf(F)[k]] /\ MapOf(E) = [k \in Key |-> MapOf(E)[k]]
    BY DEF MapOf
  <1> HIDE DEF F
  <1>4. MapOf(F) = [MapOf(E) EXCEPT ![e.key] = None]
    BY <1>2, <1>3, ElementIs
  <1>5. QED
    BY <1>4 DEF F

\* With some less, every other key keeps its value.
LEMMA MapOfSubset ==
  ASSUME NEW E, E \subseteq Element, Distinct(E), NEW F, F \subseteq E, NEW k \in Key
  PROVE  MapOf(F)[k] = None \/ MapOf(F)[k] = MapOf(E)[k]
  <1>1. F \subseteq Element /\ Distinct(F)
    BY DEF Distinct
  <1>2. CASE \E f \in F : f.key = k
    BY <1>1, <1>2, MapOfIs
  <1>3. CASE \A f \in F : f.key # k
    BY <1>1, <1>3, MapOfIs
  <1>4. QED
    BY <1>2, <1>3

\* The elements of the map, while a rehash may be under way.
LEMMA ElementsIs ==
  ASSUME MapInv
  PROVE  /\ Contents = MapOf(Elements)
         /\ Elements \subseteq Element
         /\ Distinct(Elements)
         /\ \A i \in DOMAIN data : data[i] # None => data[i] \in Elements
         /\ pending = << >> => \A e \in Elements : \E i \in DOMAIN data : data[i] # None /\ data[i] = e
         /\ pending # << >> => \A e \in Elements : e.key # pending[Len(pending)].key
  <1>1. Contents = MapOf(Elements)
    BY DEF Contents, MapOf
  <1>2. pending \in Seq(Element \cup {None})
    BY DEF MapInv, MapTypeOK
  <1>3. Len(pending) \in Nat /\ \A j \in 1 .. Len(pending) : pending[j] \in Element \cup {None}
    BY <1>2
  <1>4. \A j \in 1 .. Len(pending) - 1 : j \in 1 .. Len(pending)
    BY <1>3
  <1>5. \A i \in DOMAIN data : data[i] # None => data[i] \in Element
    BY MapFacts
  <1>6. Elements \subseteq Element
    BY <1>3, <1>4, <1>5 DEF Elements
  <1>7. \A e \in Elements : \/ \E i \in DOMAIN data : data[i] # None /\ data[i] = e
                           \/ \E j \in 1 .. Len(pending) - 1 : pending[j] # None /\ pending[j] = e
    BY DEF Elements
  <1>8. Distinct(Elements)
    <2> SUFFICES ASSUME NEW e \in Elements, NEW f \in Elements, e.key = f.key PROVE e = f
      BY DEF Distinct
    <2>1. CASE /\ \E i \in DOMAIN data : data[i] # None /\ data[i] = e
               /\ \E i \in DOMAIN data : data[i] # None /\ data[i] = f
      BY <2>1, MapFacts DEF Unique
    <2>2. CASE /\ \E i \in DOMAIN data : data[i] # None /\ data[i] = e
               /\ \E j \in 1 .. Len(pending) - 1 : pending[j] # None /\ pending[j] = f
      BY <1>4, <2>2 DEF MapInv, Apart
    <2>3. CASE /\ \E j \in 1 .. Len(pending) - 1 : pending[j] # None /\ pending[j] = e
               /\ \E i \in DOMAIN data : data[i] # None /\ data[i] = f
      BY <1>4, <2>3 DEF MapInv, Apart
    <2>4. CASE /\ \E j \in 1 .. Len(pending) - 1 : pending[j] # None /\ pending[j] = e
               /\ \E j \in 1 .. Len(pending) - 1 : pending[j] # None /\ pending[j] = f
      BY <1>4, <2>4 DEF MapInv, Apart
    <2>5. QED
      BY <1>7, <2>1, <2>2, <2>3, <2>4
  <1>9. \A i \in DOMAIN data : data[i] # None => data[i] \in Elements
    BY DEF Elements
  <1>10. pending = << >> => \A e \in Elements : \E i \in DOMAIN data : data[i] # None /\ data[i] = e
    BY <1>7
  <1>11. ASSUME pending # << >>, NEW e \in Elements PROVE e.key # pending[Len(pending)].key
    <2>1. Len(pending) \in 1 .. Len(pending) /\ pending[Len(pending)] # None
      BY <1>2, <1>11 DEF MapInv, PutLast
    <2>2. CASE \E i \in DOMAIN data : data[i] # None /\ data[i] = e
      BY <2>1, <2>2 DEF MapInv, Apart
    <2>3. CASE \E j \in 1 .. Len(pending) - 1 : pending[j] # None /\ pending[j] = e
      <3>1. PICK j \in 1 .. Len(pending) - 1 : pending[j] # None /\ pending[j] = e
        BY <2>3
      <3>2. j \in 1 .. Len(pending) /\ j # Len(pending)
        BY <1>3
      <3>3. QED
        BY <2>1, <3>1, <3>2 DEF MapInv, Apart
    <2>4. QED
      BY <1>7, <2>2, <2>3
  <1>12. QED
    BY <1>1, <1>6, <1>8, <1>9, <1>10, <1>11

\* Where the iterator stands.
LEMMA StandingIs ==
  ASSUME MapInv
  PROVE  /\ it.state = "at" /\ it.i >= 0 => it.i \in DOMAIN data
         /\ it.state = "at" /\ it.i >= 0 /\ ~it.astray => data[it.i] # None
         /\ Standing \in Key \cup {None}
         /\ Standing # None => it.state = "at" /\ it.i >= 0 /\ data[it.i] # None
  BY MapFacts DEF MapInv, Iterating, Standing

-----------------------------------------------------------------------------
(* Each step is a step of KeyMap or none.                                  *)

\* Nothing has changed that KeyMap knows of.
LEMMA Stutter ==
  ASSUME Elements' = Elements, Standing' = Standing, it'.astray = it.astray, result' = result
  PROVE  UNCHANGED Abstract!vars
  BY DEF Contents, Abstract!vars

LEMMA ItType ==
  ASSUME MapInv
  PROVE  it.astray \in BOOLEAN
  BY DEF MapInv, MapTypeOK

LEMMA PutRefines ==
  ASSUME MapInv, NEW k \in Key, NEW v \in Value, Put(k, v)
  PROVE  UNCHANGED Abstract!vars
  <1>1. /\ pending = << >> /\ pending' = << [key |-> k, data |-> v] >>
        /\ UNCHANGED << data, it, result >>
    BY DEF Put
  <1>2. Len(pending) = 0 /\ Len(pending') = 1
    BY <1>1
  <1>3. Elements' = Elements
    BY <1>1, <1>2 DEF Elements
  <1>4. QED
    BY <1>1, <1>3, Stutter DEF Standing

LEMMA SkipRefines ==
  ASSUME MapInv, Skip
  PROVE  UNCHANGED Abstract!vars
  <1>1. /\ pending # << >> /\ pending[1] = None /\ pending' = Tail(pending)
        /\ UNCHANGED << data, it, result >>
    BY HeadFacts DEF Skip
  <1>2. /\ Len(pending) \in Nat \ {0} /\ Len(pending') = Len(pending) - 1
        /\ \A a \in 1 .. Len(pending) - 1 : pending'[a] = pending[a + 1]
    BY <1>1, HeadFacts
  <1>3. Elements' = Elements
    <2>1. ASSUME NEW e, e \in Elements PROVE e \in Elements'
      <3>1. CASE \E i \in DOMAIN data : data[i] = e
        BY <1>1, <2>1, <3>1 DEF Elements
      <3>2. CASE \E j \in 1 .. Len(pending) - 1 : pending[j] = e
        <4>1. PICK j \in 1 .. Len(pending) - 1 : pending[j] = e
          BY <3>2
        <4>2. e # None /\ j # 1
          BY <1>1, <2>1, <4>1 DEF Elements
        <4>3. PICK a \in 1 .. Len(pending') - 1 : a + 1 = j /\ a \in 1 .. Len(pending) - 1
          BY <1>2, <4>1, <4>2
        <4>4. pending'[a] = e
          BY <1>2, <4>1, <4>3
        <4>5. QED
          BY <4>2, <4>3, <4>4 DEF Elements
      <3>3. QED
        BY <2>1, <3>1, <3>2 DEF Elements
    <2>2. ASSUME NEW e, e \in Elements' PROVE e \in Elements
      <3>1. CASE \E i \in DOMAIN data : data[i] = e
        BY <1>1, <2>2, <3>1 DEF Elements
      <3>2. CASE \E a \in 1 .. Len(pending') - 1 : pending'[a] = e
        <4>1. PICK a \in 1 .. Len(pending') - 1 : pending'[a] = e
          BY <3>2
        <4>2. a + 1 \in 1 .. Len(pending) - 1 /\ pending[a + 1] = e
          BY <1>2, <4>1
        <4>3. QED
          BY <2>2, <4>2 DEF Elements
      <3>3. QED
        BY <1>1, <2>2, <3>1, <3>2 DEF Elements
    <2>3. QED
      BY <2>1, <2>2
  <1>4. QED
    BY <1>1, <1>3, Stutter DEF Standing

LEMMA StoreRefines ==
  ASSUME MapInv, Store
  PROVE  \/ UNCHANGED Abstract!vars
         \/ Abstract!Grow
         \/ \E k \in Key, v \in Value : Abstract!Put(k, v)
  <1> DEFINE e == Head(pending)
  <1>1. /\ pending # << >> /\ e # None /\ pending' = Tail(pending) /\ it' = it
        /\ result' = IF pending' = << >> THEN Returned("MAP_OK", None) ELSE result
    BY DEF Store
  <1>2. PICK i \in DOMAIN data : data[i] = None /\ data' = [data EXCEPT ![i] = e]
    BY StoreFacts
  <1>3. /\ e \in Element /\ e.key \in Key /\ e = pending[1]
        /\ Len(pending) \in Nat \ {0} /\ Len(pending') = Len(pending) - 1
        /\ \A a \in 1 .. Len(pending) - 1 : pending'[a] = pending[a + 1]
    BY <1>1, HeadFacts
  <1> HIDE DEF e
  <1>4. DOMAIN data' = DOMAIN data /\ \A j \in DOMAIN data : data'[j] = IF j = i THEN e ELSE data[j]
    BY <1>2
  <1>5. it'.astray = it.astray /\ Standing' \in Key \cup {None}
        /\ (~it.astray => Standing' = Standing)
    <2>1. ~it.astray => Standing' = Standing
      BY <1>1, <1>2, <1>4, StandingIs DEF Standing
    <2>2. Standing' \in Key \cup {None}
      <3>1. MapInv'
        BY StoreStep
      <3>2. \A i2 \in DOMAIN data' : data'[i2] # None => data'[i2].key \in Key
        BY <1>3, <1>4, MapFacts
      <3>3. it.state = "at" /\ it.i >= 0 => it.i \in DOMAIN data'
        BY <1>4, StandingIs
      <3>4. QED
        BY <1>1, <3>2, <3>3 DEF Standing
    <2>3. QED
      BY <1>1, <2>1, <2>2
  <1>6. CASE Len(pending) = 1
    <2>1. Len(pending') = 0 /\ pending' = << >>
      BY <1>1, <1>3, <1>6, HeadFacts, EmptySeq
    <2>2. Elements' = Elements \cup {e}
      <3>1. Elements = { data[j] : j \in DOMAIN data } \ {None}
        BY <1>6 DEF Elements
      <3>2. Elements' = { data'[j] : j \in DOMAIN data' } \ {None}
        BY <2>1 DEF Elements
      <3>3. QED
        BY <1>1, <1>2, <1>4, <3>1, <3>2
    <2>3. \A f \in Elements : f.key # e.key
      BY <1>1, <1>3, <1>6, ElementsIs
    <2>4. Contents' = [Contents EXCEPT ![e.key] = e.data]
      <3>1. Contents' = MapOf(Elements') /\ Contents = MapOf(Elements)
        BY DEF Contents, MapOf
      <3>2. MapOf(Elements \cup {e}) = [MapOf(Elements) EXCEPT ![e.key] = e.data]
        BY <1>3, <2>3, ElementsIs, MapOfAdd
      <3>3. QED
        BY <2>2, <3>1, <3>2
    <2>5. Contents[e.key] = None
      BY <1>3, <2>3, ElementsIs, MapOfIs
    <2>6. e.data \in Value
      BY <1>3, ElementIs
    <2>7. Abstract!Put(e.key, e.data)
      <3>1. Abstract!Stands
        BY <1>5, ItType DEF Abstract!Stands
      <3>2. QED
        BY <1>1, <2>1, <2>4, <2>5, <3>1 DEF Abstract!Put, Abstract!Returned, Returned
    <2>8. QED
      BY <1>3, <2>6, <2>7
  <1>7. CASE Len(pending) # 1
    <2>1. Len(pending') # 0 /\ pending' # << >>
      BY <1>3, <1>7
    <2>2. Elements' = Elements
      <3>1. ASSUME NEW f, f \in Elements PROVE f \in Elements'
        <4>1. CASE \E j \in DOMAIN data : data[j] = f
          BY <1>2, <1>4, <3>1, <4>1 DEF Elements
        <4>2. CASE \E j \in 1 .. Len(pending) - 1 : pending[j] = f
          <5>1. PICK j \in 1 .. Len(pending) - 1 : pending[j] = f
            BY <4>2
          <5>2. CASE j = 1
            BY <1>2, <1>3, <1>4, <3>1, <5>1, <5>2 DEF Elements
          <5>3. CASE j # 1
            <6>1. PICK a \in 1 .. Len(pending') - 1 : a + 1 = j /\ a \in 1 .. Len(pending) - 1
              BY <1>3, <5>1, <5>3
            <6>2. pending'[a] = f
              BY <1>3, <5>1, <6>1
            <6>3. QED
              BY <3>1, <6>1, <6>2 DEF Elements
          <5>4. QED
            BY <5>2, <5>3
        <4>3. QED
          BY <3>1, <4>1, <4>2 DEF Elements
      <3>2. ASSUME NEW f, f \in Elements' PROVE f \in Elements
        <4>1. 1 \in 1 .. Len(pending) - 1
          BY <1>3, <1>7
        <4>2. CASE \E j \in DOMAIN data' : data'[j] = f
          BY <1>1, <1>3, <1>4, <3>2, <4>1, <4>2 DEF Elements
        <4>3. CASE \E a \in 1 .. Len(pending') - 1 : pending'[a] = f
          <5>1. PICK a \in 1 .. Len(pending') - 1 : pending'[a] = f
            BY <4>3
          <5>2. a + 1 \in 1 .. Len(pending) - 1 /\ pending[a + 1] = f
            BY <1>3, <5>1
          <5>3. QED
            BY <3>2, <5>2 DEF Elements
        <4>4. QED
          BY <3>2, <4>2, <4>3 DEF Elements
      <3>3. QED
        BY <3>1, <3>2
    <2>3. result' = result
      BY <1>1, <2>1
    <2>4. CASE ~it.astray
      BY <1>5, <2>2, <2>3, <2>4, Stutter
    <2>5. CASE it.astray
      <3>1. Contents' = Contents
        BY <2>2 DEF Contents
      <3>2. it'.astray = TRUE
        BY <1>1, <2>5, ItType
      <3>3. QED
        BY <1>5, <2>3, <3>1, <3>2 DEF Abstract!Grow
    <2>6. QED
      BY <2>4, <2>5
  <1>8. QED
    BY <1>6, <1>7

LEMMA RehashRefines ==
  ASSUME MapInv, Rehash
  PROVE  Abstract!Grow \/ UNCHANGED Abstract!vars
  <1> DEFINE n == TableSize(data)
  <1>1. /\ data' = EmptyTable(2 * n) /\ result' = result
        /\ it' = IF it.state \in { "at", "removed" }
                 THEN [NoIterator EXCEPT !.i = it.i, !.state = it.state, !.astray = TRUE]
                 ELSE it
    BY DEF Rehash
  <1>2. n \in Nat \ {0} /\ DOMAIN data = 0 .. n - 1
    BY MapFacts
  <1>3. \A i \in DOMAIN data' : data'[i] = None
    <2>1. 2 * n \in Nat \ {0}
      BY <1>2
    <2>2. QED
      BY <1>1, <2>1, TableEmpty
  <1> HIDE DEF n
  <1>4. /\ Len(pending) \in Nat \ {0}
        /\ Len(pending') = n + Len(pending)
        /\ \A a \in 1 .. n : pending'[a] = data[a - 1]
        /\ \A a \in 1 .. Len(pending) : pending'[n + a] = pending[a]
    BY RehashFacts DEF n
  <1>5. Elements' = Elements
    <2>1. ASSUME NEW e, e \in Elements PROVE e \in Elements'
      <3>1. CASE \E i \in DOMAIN data : data[i] = e
        <4>1. PICK i \in DOMAIN data : data[i] = e
          BY <3>1
        <4>2. i \in Nat /\ i + 1 \in 1 .. n /\ i + 1 - 1 = i
          BY <1>2, <4>1
        <4>3. i + 1 \in 1 .. Len(pending') - 1
          BY <1>2, <1>4, <4>2
        <4>4. pending'[i + 1] = data[(i + 1) - 1]
          BY <1>4, <4>2
        <4>5. pending'[i + 1] = e
          BY <4>1, <4>2, <4>4
        <4>6. QED
          BY <2>1, <4>3, <4>5 DEF Elements
      <3>2. CASE \E j \in 1 .. Len(pending) - 1 : pending[j] = e
        <4>1. PICK j \in 1 .. Len(pending) - 1 : pending[j] = e
          BY <3>2
        <4>2. n + j \in 1 .. Len(pending') - 1 /\ j \in 1 .. Len(pending)
          BY <1>2, <1>4
        <4>3. pending'[n + j] = e
          BY <1>4, <4>1, <4>2
        <4>4. QED
          BY <2>1, <4>2, <4>3 DEF Elements
      <3>3. QED
        BY <2>1, <3>1, <3>2 DEF Elements
    <2>2. ASSUME NEW e, e \in Elements' PROVE e \in Elements
      <3>1. PICK a \in 1 .. Len(pending') - 1 : pending'[a] = e
        BY <1>3, <2>2 DEF Elements
      <3>2. CASE a <= n
        <4>1. a \in 1 .. n /\ a - 1 \in DOMAIN data
          BY <1>2, <1>4, <3>1, <3>2
        <4>2. QED
          BY <1>4, <2>2, <3>1, <4>1 DEF Elements
      <3>3. CASE ~(a <= n)
        <4>1. PICK j \in 1 .. Len(pending) - 1 : n + j = a /\ j \in 1 .. Len(pending)
          <5>1. a - n \in 1 .. Len(pending) - 1 /\ n + (a - n) = a /\ a - n \in 1 .. Len(pending)
            BY <1>2, <1>4, <3>1, <3>3
          <5>2. QED
            BY <5>1
        <4>2. pending[j] = e
          BY <1>4, <3>1, <4>1
        <4>3. QED
          BY <2>2, <4>1, <4>2 DEF Elements
      <3>4. QED
        BY <3>2, <3>3
    <2>3. QED
      BY <2>1, <2>2
  <1>6. CASE it.state \in { "at", "removed" }
    <2>1. it'.astray = TRUE /\ it'.i = it.i
      BY <1>1, <1>6 DEF NoIterator
    <2>2. 2 * n \in Nat \ {0} /\ it.i \in -1 .. n - 1
      BY <1>2, <1>6 DEF MapInv, Iterating, n
    <2>3. it.i >= 0 => it.i \in 0 .. 2 * n - 1
      BY <1>2, <2>2
    <2>4. it.i >= 0 => it.i \in DOMAIN data'
      BY <1>1, <2>2, <2>3, TableEmpty
    <2>5. Standing' = None
      BY <1>3, <2>1, <2>4 DEF Standing
    <2>6. Contents' = Contents
      BY <1>5 DEF Contents
    <2>7. QED
      BY <1>1, <2>1, <2>5, <2>6 DEF Abstract!Grow
  <1>7. CASE it.state \notin { "at", "removed" }
    <2>1. it' = it
      BY <1>1, <1>7
    <2>2. Standing' = None /\ Standing = None
      BY <1>7, <2>1 DEF Standing
    <2>3. QED
      BY <1>1, <1>5, <2>1, <2>2, Stutter
  <1>8. QED
    BY <1>6, <1>7

\* Out of memory.  Under an iterator the new element is all that is lost.
LEMMA RehashNoMemoryRefines ==
  ASSUME MapInv, RehashNoMemory
  PROVE  Abstract!PutNoMemory
  <1>1. /\ pending # << >> /\ pending' = << >> /\ UNCHANGED << data, it >>
        /\ result' = Returned("MAP_OMEM", None)
    BY DEF RehashNoMemory, NoPlace
  <1>2. Len(pending) \in Nat \ {0} /\ Len(pending') = 0
    BY <1>1, HeadFacts
  <1>3. Elements' \subseteq Elements
    BY <1>1, <1>2 DEF Elements
  <1>4. Elements \subseteq Element /\ Distinct(Elements)
    BY ElementsIs
  <1>5. Contents = MapOf(Elements) /\ Contents' = MapOf(Elements')
    BY DEF Contents, MapOf
  <1> DEFINE lost == { k \in Key : Contents'[k] # Contents[k] }
  <1>6. \A k \in Key : Contents'[k] = IF k \in lost THEN None ELSE Contents[k]
    BY <1>3, <1>4, <1>5, MapOfSubset
  <1>7. Contents' = [k \in Key |-> IF k \in lost THEN None ELSE Contents[k]]
    <2>1. Contents' = [k \in Key |-> Contents'[k]]
      BY DEF Contents
    <2>2. QED
      BY <1>6, <2>1
  <1>8. Standing # None /\ ~it.astray => lost = {}
    <2>1. it.state = "at" /\ ~it.astray => Len(pending) <= 1
      BY DEF MapInv, Iterating
    <2>2. Len(pending) <= 1 => Elements' = Elements
      <3>1. Len(pending) <= 1 => Len(pending) = 1
        BY <1>2
      <3>2. QED
        BY <1>1, <1>2, <3>1 DEF Elements
    <2>3. Elements' = Elements => lost = {}
      BY <1>5
    <2>4. QED
      BY <2>1, <2>2, <2>3 DEF Standing
  <1>9. Abstract!Stands
    <2>1. Standing' = Standing /\ it'.astray = it.astray
      BY <1>1 DEF Standing
    <2>2. QED
      BY <2>1, StandingIs, ItType DEF Abstract!Stands
  <1>10. lost \in SUBSET Key
    OBVIOUS
  <1> HIDE DEF lost
  <1>11. QED
    BY <1>1, <1>7, <1>8, <1>9, <1>10 DEF Abstract!PutNoMemory, Abstract!Returned, Returned

\* What hashmap_get answers is what the map holds.
LEMMA GetAnswers ==
  ASSUME MapInv, pending = << >>, NEW k \in Key
  PROVE  /\ Lookup(data, k) = {} <=> Contents[k] = None
         /\ Lookup(data, k) # {} =>
               LET i == Min(Lookup(data, k)) IN
               /\ i \in DOMAIN data /\ data[i] # None /\ data[i].key = k
               /\ Contents[k] = data[i].data
  <1>1. /\ Lookup(data, k) = { i \in DOMAIN data : Holds(data, i, k) }
        /\ Lookup(data, k) \subseteq Nat
    BY MapFacts
  <1>2. /\ Contents = MapOf(Elements) /\ Elements \subseteq Element /\ Distinct(Elements)
        /\ \A i \in DOMAIN data : data[i] # None => data[i] \in Elements
        /\ \A e \in Elements : \E i \in DOMAIN data : data[i] # None /\ data[i] = e
    BY ElementsIs
  <1>3. CASE Lookup(data, k) = {}
    <2>1. \A e \in Elements : e.key # k
      BY <1>1, <1>2, <1>3 DEF Holds
    <2>2. QED
      BY <1>2, <1>3, <2>1, MapOfIs
  <1>4. CASE Lookup(data, k) # {}
    <2> DEFINE i == Min(Lookup(data, k))
    <2>1. i \in Lookup(data, k)
      BY <1>1, <1>4, MinIs
    <2> HIDE DEF i
    <2>2. i \in DOMAIN data /\ data[i] # None /\ data[i].key = k
      BY <1>1, <2>1 DEF Holds
    <2>3. data[i] \in Elements
      BY <1>2, <2>2
    <2>4. Contents[k] = data[i].data /\ Contents[k] # None
      BY <1>2, <2>2, <2>3, MapOfIs
    <2>5. QED
      BY <1>4, <2>2, <2>4 DEF i
  <1>5. QED
    BY <1>3, <1>4

LEMMA GetRefines ==
  ASSUME MapInv, NEW k \in Key, Get(k)
  PROVE  Abstract!Get(k, FALSE)
  <1>1. /\ pending = << >> /\ UNCHANGED << data, pending, it >>
        /\ result' = IF Lookup(data, k) = {} THEN Returned("MAP_MISSING", None)
                     ELSE Returned("MAP_OK", data[Min(Lookup(data, k))].data)
    BY DEF Get
  <1>2. result' = IF Contents[k] = None THEN Returned("MAP_MISSING", None)
                  ELSE Returned("MAP_OK", Contents[k])
    BY <1>1, GetAnswers
  <1>3. Contents' = Contents /\ Standing' = Standing
    BY <1>1 DEF Contents, Elements, Standing
  <1>4. QED
    BY <1>1, <1>2, <1>3 DEF Abstract!Get, Abstract!Returned, Returned

\* The map after an element has gone from the table.
LEMMA RemoveRefines ==
  ASSUME MapInv, pending = << >>, pending' = pending, NEW i \in DOMAIN data, data[i] # None,
         data' = [data EXCEPT ![i] = None]
  PROVE  Contents' = [Contents EXCEPT ![data[i].key] = None]
  <1>1. Len(pending) = 0 /\ Len(pending') = 0
    BY EmptySeq
  <1>2. /\ Elements = { data[j] : j \in DOMAIN data } \ {None}
        /\ Elements' = { data'[j] : j \in DOMAIN data' } \ {None}
    BY <1>1 DEF Elements
  <1>3. DOMAIN data' = DOMAIN data /\ \A j \in DOMAIN data : data'[j] = IF j = i THEN None ELSE data[j]
    OBVIOUS
  <1>4. \A j \in DOMAIN data : data[j] = data[i] => j = i
    BY MapFacts DEF Unique
  <1>5. Elements' = Elements \ {data[i]}
    BY <1>2, <1>3, <1>4
  <1>6. Contents = MapOf(Elements) /\ Contents' = MapOf(Elements')
    BY DEF Contents, MapOf
  <1>7. Elements \subseteq Element /\ Distinct(Elements) /\ data[i] \in Elements
    BY ElementsIs
  <1>8. MapOf(Elements \ {data[i]}) = [MapOf(Elements) EXCEPT ![data[i].key] = None]
    BY <1>7, MapOfRemove
  <1>9. QED
    BY <1>5, <1>6, <1>8

LEMMA GetRemoveRefines ==
  ASSUME MapInv, NEW k \in Key, GetRemove(k)
  PROVE  Abstract!Get(k, TRUE)
  <1>1. pending = << >> /\ UNCHANGED pending
    BY DEF GetRemove
  <1>2. Standing # None => Contents[Standing] # None
    BY <1>1, StandingIs, MapFacts, ElementsIs, MapOfIs DEF Standing
  <1>3. CASE /\ Lookup(data, k) = {} /\ result' = Returned("MAP_MISSING", None)
             /\ UNCHANGED << data, size, it >>
    <2>1. Contents[k] = None
      BY <1>1, <1>3, GetAnswers
    <2>2. Contents' = Contents /\ Standing' = Standing
      BY <1>1, <1>3 DEF Contents, Elements, Standing
    <2>3. Contents' = [Contents EXCEPT ![k] = None]
      BY <2>1, <2>2 DEF Contents
    <2>4. k # Standing
      BY <1>2, <2>1, MapAssumption
    <2>5. QED
      BY <1>3, <2>1, <2>2, <2>3, <2>4 DEF Abstract!Get, Abstract!Returned, Returned
  <1>4. CASE /\ Lookup(data, k) # {}
             /\ result' = Returned("MAP_OK", data[Min(Lookup(data, k))].data)
             /\ data' = [data EXCEPT ![Min(Lookup(data, k))] = None]
             /\ it' = [Without(k) EXCEPT !.astray = @ \/ Standing = k]
    <2> DEFINE i == Min(Lookup(data, k))
    <2>1. /\ i \in DOMAIN data /\ data[i] # None /\ data[i].key = k
          /\ Contents[k] = data[i].data /\ Contents[k] # None
      BY <1>1, <1>4, GetAnswers
    <2>2. result' = Returned("MAP_OK", data[i].data) /\ data' = [data EXCEPT ![i] = None]
      BY <1>4
    <2> HIDE DEF i
    <2>3. Contents' = [Contents EXCEPT ![k] = None]
      BY <1>1, <2>1, <2>2, RemoveRefines
    <2>4. /\ it'.i = it.i /\ it'.state = it.state
          /\ it'.astray = (it.astray \/ Standing = k)
      BY <1>4, WithoutIs
    <2>5. CASE Standing = k
      <3>1. it.state = "at" /\ it.i >= 0 /\ data[it.i] # None /\ it.i \in DOMAIN data
            /\ data[it.i].key = k
        BY <2>5, StandingIs, MapAssumption DEF Standing
      <3>2. it.i = i
        BY <2>1, <3>1, MapFacts DEF Unique
      <3>3. Standing' = None /\ it'.astray = TRUE
        BY <2>2, <2>4, <2>5, <3>1, <3>2 DEF Standing
      <3>4. QED
        BY <2>1, <2>2, <2>3, <2>5, <3>3 DEF Abstract!Get, Abstract!Returned, Returned
    <2>6. CASE Standing # k
      <3>1. it'.astray = it.astray
        BY <2>4, <2>6, ItType
      <3>2. it.state = "at" /\ it.i >= 0 => it.i \in DOMAIN data /\ data'[it.i] = data[it.i]
        <4> SUFFICES ASSUME it.state = "at", it.i >= 0
                     PROVE  it.i \in DOMAIN data /\ data'[it.i] = data[it.i]
          OBVIOUS
        <4>1. it.i \in DOMAIN data
          BY StandingIs
        <4>2. it.i # i
          BY <2>1, <2>6 DEF Standing
        <4>3. QED
          BY <2>2, <4>1, <4>2
      <3>3. Standing' = Standing
        BY <2>4, <3>2 DEF Standing
      <3>4. QED
        BY <2>1, <2>2, <2>3, <2>6, <3>1, <3>3 DEF Abstract!Get, Abstract!Returned, Returned
    <2>7. QED
      BY <2>5, <2>6
  <1>5. QED
    BY <1>3, <1>4 DEF GetRemove

LEMMA ItNewRefines ==
  ASSUME MapInv, ItNew
  PROVE  Abstract!ItNewOrFree
  <1>1. /\ it'.i = -1 /\ it'.astray = FALSE /\ UNCHANGED << data, pending, result >>
    BY DEF ItNew, NoIterator
  <1>2. Standing' = None /\ Contents' = Contents
    BY <1>1 DEF Standing, Contents, Elements
  <1>3. QED
    BY <1>1, <1>2 DEF Abstract!ItNewOrFree

LEMMA ItNextRefines ==
  ASSUME MapInv, ItNext
  PROVE  Abstract!ItNext
  <1>1. pending = << >> /\ UNCHANGED << data, pending >>
    BY DEF ItNext
  <1>2. Contents' = Contents
    BY <1>1 DEF Contents, Elements
  <1>3. it \in [ i : Int, count : [Key -> Nat], steady : SUBSET Key,
                state : { "none", "at", "removed", "ended" }, astray : BOOLEAN ]
    BY DEF MapInv, MapTypeOK
  <1>4. CASE /\ Ahead # {}
             /\ it' = [it EXCEPT !.i = Min(Ahead), !.state = "at",
                                 !.count[data[Min(Ahead)].key] = Again(data[Min(Ahead)].key)]
             /\ result' = Returned("MAP_OK", data[Min(Ahead)].data)
    <2> DEFINE m == Min(Ahead)
    <2>1. m \in DOMAIN data /\ data[m] # None /\ m >= 0
      BY <1>4, AheadIs, MapFacts
    <2>2. it'.i = m /\ it'.state = "at" /\ it'.astray = it.astray
      BY <1>3, <1>4
    <2>3. result' = Returned("MAP_OK", data[m].data)
      BY <1>4
    <2> HIDE DEF m
    <2>4. Standing' = data[m].key
      BY <1>1, <2>1, <2>2 DEF Standing
    <2>5. /\ data[m].key \in Key /\ Contents[data[m].key] = data[m].data
          /\ Contents[data[m].key] # None
      BY <2>1, MapFacts, ElementsIs, MapOfIs
    <2>6. QED
      BY <1>2, <2>2, <2>3, <2>4, <2>5 DEF Abstract!ItNext, Abstract!Returned, Returned
  <1>5. CASE /\ Ahead = {}
             /\ it' = [it EXCEPT !.i = TableSize(data), !.state = "ended"]
             /\ result' = Returned("MAP_MISSING", None)
    <2>1. it'.state = "ended" /\ it'.astray = it.astray
      BY <1>3, <1>5
    <2>2. Standing' = None
      BY <2>1 DEF Standing
    <2>3. QED
      BY <1>2, <1>5, <2>1, <2>2 DEF Abstract!ItNext, Abstract!Returned, Returned
  <1>6. QED
    BY <1>4, <1>5, Zenon DEF ItNext

LEMMA ItRemoveRefines ==
  ASSUME MapInv, ItRemove
  PROVE  Abstract!ItRemove
  <1>1. /\ pending = << >> /\ pending' = pending /\ it.state = "at" /\ it.i >= 0
    BY DEF ItRemove
  <1>2. it.i \in DOMAIN data
    BY <1>1, StandingIs
  <1>3. CASE /\ data[it.i] = None /\ it' = [it EXCEPT !.state = "removed"]
             /\ result' = Returned("MAP_MISSING", None) /\ data' = data
    <2>1. it'.state = "removed" /\ it'.astray = it.astray
      BY <1>3 DEF MapInv, MapTypeOK
    <2>2. Standing = None /\ Standing' = None /\ Contents' = Contents
      BY <1>1, <1>3, <2>1 DEF Standing, Contents, Elements
    <2>3. QED
      BY <1>3, <2>1, <2>2 DEF Abstract!ItRemove, Abstract!Returned, Returned
  <1>4. CASE /\ data[it.i] # None /\ data' = [data EXCEPT ![it.i] = None]
             /\ it' = [Without(data[it.i].key) EXCEPT !.state = "removed"]
             /\ result' = Returned("MAP_OK", None)
    <2>1. Contents' = [Contents EXCEPT ![data[it.i].key] = None]
      BY <1>1, <1>2, <1>4, RemoveRefines
    <2>2. data[it.i].key \in Key
      BY <1>2, <1>4, MapFacts
    <2>3. it'.state = "removed" /\ it'.astray = it.astray
      BY <1>4, <2>2, WithoutIs
    <2>4. Standing = data[it.i].key /\ Standing' = None
      BY <1>1, <1>4, <2>3 DEF Standing
    <2>5. data[it.i].key # None
      BY <2>2, MapAssumption
    <2>6. QED
      BY <1>4, <2>1, <2>3, <2>4, <2>5 DEF Abstract!ItRemove, Abstract!Returned, Returned
  <1>5. QED
    BY <1>3, <1>4 DEF ItRemove

LEMMA ItFreeRefines ==
  ASSUME MapInv, ItFree
  PROVE  Abstract!ItNewOrFree
  <1>1. it'.i = -1 /\ it'.astray = FALSE /\ UNCHANGED << data, pending, result >>
    BY DEF ItFree, NoIterator
  <1>2. Standing' = None /\ Contents' = Contents
    BY <1>1 DEF Standing, Contents, Elements
  <1>3. QED
    BY <1>1, <1>2 DEF Abstract!ItNewOrFree

LEMMA MapRefines == MapInv /\ [Next]_vars => [Abstract!Next]_(Abstract!vars)
  <1> SUFFICES ASSUME MapInv, [Next]_vars PROVE [Abstract!Next]_(Abstract!vars)
    OBVIOUS
  <1>1. ASSUME UNCHANGED vars PROVE UNCHANGED Abstract!vars
    BY <1>1, Stutter DEF vars, Elements, Standing
  <1>2. ASSUME NEW k \in Key, NEW v \in Value, Put(k, v) PROVE UNCHANGED Abstract!vars
    BY <1>2, PutRefines
  <1>3. ASSUME NEW k \in Key, Get(k) \/ GetRemove(k) PROVE Abstract!Next
    BY <1>3, GetRefines, GetRemoveRefines DEF Abstract!Next
  <1>4. ASSUME Skip PROVE UNCHANGED Abstract!vars
    BY <1>4, SkipRefines
  <1>5. ASSUME Store \/ Rehash PROVE Abstract!Next \/ UNCHANGED Abstract!vars
    BY <1>5, StoreRefines, RehashRefines DEF Abstract!Next
  <1>6. ASSUME RehashNoMemory \/ ItNew \/ ItNext \/ ItRemove \/ ItFree PROVE Abstract!Next
    BY <1>6, RehashNoMemoryRefines, ItNewRefines, ItNextRefines, ItRemoveRefines, ItFreeRefines
    DEF Abstract!Next
  <1>7. QED
    BY <1>1, <1>2, <1>3, <1>4, <1>5, <1>6 DEF Next

\* The new table is the empty map.
LEMMA MapInitRefines == Init => Abstract!Init
  <1> SUFFICES ASSUME Init PROVE Abstract!Init
    OBVIOUS
  <1>1. /\ data = EmptyTable(InitialSize) /\ pending = << >> /\ it = NoIterator
        /\ result = Returned("MAP_OK", None)
    BY DEF Init
  <1>2. \A i \in DOMAIN data : data[i] = None
    BY <1>1 DEF EmptyTable
  <1>3. Elements = {}
    BY <1>1, <1>2, EmptySeq DEF Elements
  <1>4. Contents = [k \in Key |-> None]
    BY <1>3 DEF Contents
  <1>5. Standing = None /\ it.astray = FALSE
    BY <1>1 DEF Standing, NoIterator
  <1>6. QED
    BY <1>1, <1>4, <1>5 DEF Abstract!Init, Abstract!Returned, Returned

\* hashmap.c implements the map of hashmap.h, for any keys, hash values and sizes,
\* also while a rehash is under way, under an iterator too, and when it fails.
THEOREM MapImplementsKeyMap == Spec => ImplementsMap
  BY MapInitRefines, MapAlways, MapRefines, PTL DEF Spec, ImplementsMap, Abstract!Spec
=============================================================================
