---------------------------- MODULE RxFrame_proof ----------------------------
(***************************************************************************)
(* Theorems about RxFrame, for any stations, any frames on the air that    *)
(* RxAssumption admits and any encoding: action frames with TLVs in any    *)
(* order and repeated, of this make or another, data frames with a payload *)
(* of any length, A-MSDUs of any number of subframes, every trailer.       *)
(*                                                                         *)
(* RxInv is the inductive invariant.  The frame at hand is one on the air  *)
(* (InvFrame), the view stands at the beginning of one of its parts, or    *)
(* behind the last (InvView), a record is that of its device (InvPeer),    *)
(* the packets are the beginnings of the parts passed (InvOut), the blocks *)
(* are those of the point in the code (InvLive), and a record says what    *)
(* the TLVs passed so far have told (InvKnown).                            *)
(*                                                                         *)
(* First come the sizes: a struct is packed, so that the place of a field  *)
(* is a sum of the widths before it, and what a TLV tells is read back if  *)
(* the parser reads at that place.  The lemmas named ...Is say so of each  *)
(* TLV, those named ...Told of each parser.  Sums over sets and over       *)
(* sequences are taken apart by least counterexamples, since < is          *)
(* well-founded on Nat.                                                    *)
(***************************************************************************)
EXTENDS RxFrame, FiniteSetTheorems, SequenceTheorems, WellFoundedInduction, TLAPS

\* A set of natural numbers has a least element.
LEMMA Least ==
  ASSUME NEW S, S \subseteq Nat, S # {}
  PROVE  \E m \in S : \A k \in S : m <= k
  <1>1. PICK m \in S : \A k \in S : << k, m >> \notin OpToRel(<, Nat)
    BY WFMin, NatLessThanWellFounded, Zenon
  <1>2. \A k \in S : << k, m >> \in Nat \X Nat
    OBVIOUS
  <1>3. \A k \in S : ~(k < m)
    BY <1>1, <1>2, Zenon DEF OpToRel
  <1>4. m \in Nat /\ \A k \in S : k \in Nat
    OBVIOUS
  <1>5. \A k \in S : m <= k
    BY <1>3, <1>4
  <1>6. QED
    BY <1>5

\* Some member of a set, the one that MapThenFoldSet takes first.
Some(s) == CHOOSE x \in s : TRUE

\* g[s] is the sum of w over s, for the subsets s of S.
Sums(w, S, g) ==
    g = [s \in SUBSET S |-> IF s = {} THEN 0 ELSE w[Some(s)] + g[s \ {Some(s)}]]

LEMMA SumIs ==
  ASSUME NEW w, NEW S
  PROVE  SumFunctionOnSet(w, S) = (CHOOSE g : Sums(w, S, g))[S]
  BY DEF SumFunctionOnSet, FoldFunctionOnSet, MapThenFoldSet, Sums, Some

\* One subset without one of its members.
LEMMA Smaller ==
  ASSUME NEW s, IsFiniteSet(s), s # {}
  PROVE  /\ Some(s) \in s
         /\ \A x \in s : IsFiniteSet(s \ {x}) /\ Cardinality(s \ {x}) < Cardinality(s)
         /\ Cardinality(s) \in Nat
  <1>1. Some(s) \in s
    BY DEF Some
  <1>2. Cardinality(s) \in Nat
    BY FS_CardinalityType
  <1>3. ASSUME NEW x \in s
        PROVE  IsFiniteSet(s \ {x}) /\ Cardinality(s \ {x}) < Cardinality(s)
    BY <1>2, <1>3, FS_RemoveElement
  <1>4. QED
    BY <1>1, <1>2, <1>3

\* Among finite sets there is one of the fewest members.
LEMMA Fewest ==
  ASSUME NEW P, P # {}, \A t \in P : IsFiniteSet(t)
  PROVE  \E t \in P : \A u \in P : Cardinality(t) <= Cardinality(u)
  <1> DEFINE sizes == { Cardinality(t) : t \in P }
  <1>1. sizes \subseteq Nat /\ sizes # {}
    BY FS_CardinalityType
  <1>2. PICK n \in sizes : \A k \in sizes : n <= k
    <2> HIDE DEF sizes
    <2>1. QED
      BY <1>1, Least
  <1>3. QED
    BY <1>2

\* Sums over the same set are the same.
LEMMA SumsUnique ==
  ASSUME NEW w, NEW A, NEW B, NEW g, NEW h, Sums(w, A, g), Sums(w, B, h),
         NEW s, s \subseteq A, s \subseteq B, IsFiniteSet(s)
  PROVE  g[s] = h[s]
  <1> SUFFICES ASSUME g[s] # h[s] PROVE FALSE
    OBVIOUS
  <1> DEFINE differ == { t \in SUBSET s : g[t] # h[t] }
  <1>1. \A t \in SUBSET s : IsFiniteSet(t) /\ Cardinality(t) \in Nat
    BY FS_Subset, FS_CardinalityType
  <1>2. differ # {} /\ \A t \in differ : IsFiniteSet(t)
    BY <1>1
  <1>3. PICK t \in differ : \A u \in differ : Cardinality(t) <= Cardinality(u)
    <2> HIDE DEF differ
    <2>1. QED
      BY <1>2, Fewest
  <1>4. t # {}
    BY <1>3 DEF Sums
  <1>5. Some(t) \in t /\ t \ {Some(t)} \notin differ
    BY <1>1, <1>3, <1>4, Smaller
  <1>6. g[t \ {Some(t)}] = h[t \ {Some(t)}]
    BY <1>5
  <1>7. g[t] = w[Some(t)] + g[t \ {Some(t)}] /\ h[t] = w[Some(t)] + h[t \ {Some(t)}]
    BY <1>4 DEF Sums
  <1>8. QED
    BY <1>3, <1>6, <1>7

\* There are sums over every finite set.
LEMMA SumsExist ==
  ASSUME NEW w, NEW S, IsFiniteSet(S)
  PROVE  \E g : Sums(w, S, g)
  <1> SUFFICES ASSUME ~\E g : Sums(w, S, g) PROVE FALSE
    OBVIOUS
  <1> DEFINE without == { t \in SUBSET S : ~\E g : Sums(w, t, g) }
  <1>1. \A t \in SUBSET S : IsFiniteSet(t) /\ Cardinality(t) \in Nat
    BY FS_Subset, FS_CardinalityType
  <1>2. without # {} /\ \A t \in without : IsFiniteSet(t)
    BY <1>1
  <1>3. PICK T \in without : \A u \in without : Cardinality(T) <= Cardinality(u)
    <2> HIDE DEF without
    <2>1. QED
      BY <1>2, Fewest
  <1> DEFINE G(u) == CHOOSE g : Sums(w, u, g)
             f == [s \in SUBSET T |-> IF s = {} THEN 0
                                      ELSE w[Some(s)] + G(s \ {Some(s)})[s \ {Some(s)}]]
  <1>4. ASSUME NEW s \in SUBSET T, s # {}
        PROVE  /\ Some(s) \in s
               /\ Sums(w, s \ {Some(s)}, G(s \ {Some(s)}))
    <2>1. Some(s) \in s /\ Cardinality(s \ {Some(s)}) < Cardinality(s)
      BY <1>1, <1>4, Smaller
    <2>2. Cardinality(s) <= Cardinality(T)
      BY <1>1, FS_Subset
    <2>3. s \ {Some(s)} \in SUBSET S
      BY <1>4
    <2>4. \E g : Sums(w, s \ {Some(s)}, g)
      <3> DEFINE u == s \ {Some(s)}
      <3>1. Cardinality(u) < Cardinality(T) /\ Cardinality(u) \in Nat /\ Cardinality(T) \in Nat
        BY <1>1, <2>1, <2>2, <2>3
      <3>2. u \notin without
        BY <1>3, <3>1
      <3>3. QED
        BY <2>3, <3>2
    <2>5. QED
      BY <2>1, <2>4
  <1>5. ASSUME NEW s \in SUBSET T, s # {}
        PROVE  f[s \ {Some(s)}] = G(s \ {Some(s)})[s \ {Some(s)}]
    <2> DEFINE u == s \ {Some(s)}
    <2>1. Sums(w, u, G(u)) /\ u \in SUBSET T /\ IsFiniteSet(u)
      BY <1>1, <1>4, <1>5
    <2>2. CASE u = {}
      <3>1. G(u)[u] = 0
        BY <2>1, <2>2 DEF Sums
      <3>2. f[u] = 0
        BY <2>1, <2>2
      <3>3. QED
        BY <3>1, <3>2
    <2>3. CASE u # {}
      <3> DEFINE v == u \ {Some(u)}
      <3>1. G(u)[u] = w[Some(u)] + G(u)[v]
        BY <2>1, <2>3 DEF Sums
      <3>2. f[u] = w[Some(u)] + G(v)[v]
        BY <2>1, <2>3
      <3>3. Sums(w, v, G(v))
        BY <1>4, <2>1, <2>3
      <3>4. v \subseteq u /\ v \subseteq v /\ IsFiniteSet(v)
        BY <1>1, <2>1
      <3> HIDE DEF v, u, f, G
      <3>5. G(u)[v] = G(v)[v]
        BY <2>1, <3>3, <3>4, SumsUnique
      <3>6. QED
        BY <3>1, <3>2, <3>5 DEF u
    <2>4. QED
      BY <2>2, <2>3
  <1>6. f = [s \in SUBSET T |-> IF s = {} THEN 0 ELSE w[Some(s)] + f[s \ {Some(s)}]]
    <2>1. \A s \in SUBSET T : s # {} => f[s] = w[Some(s)] + f[s \ {Some(s)}]
      BY <1>5
    <2>2. \A s \in SUBSET T : s = {} => f[s] = 0
      OBVIOUS
    <2>3. f = [s \in SUBSET T |-> f[s]]
      OBVIOUS
    <2> HIDE DEF f
    <2>4. QED
      BY <2>1, <2>2, <2>3
  <1>7. Sums(w, T, f)
    BY <1>6 DEF Sums
  <1>8. QED
    BY <1>3, <1>7

\* One step of the sum.
LEMMA SumSome ==
  ASSUME NEW w, NEW s, IsFiniteSet(s)
  PROVE  SumFunctionOnSet(w, s) = IF s = {} THEN 0
                                  ELSE w[Some(s)] + SumFunctionOnSet(w, s \ {Some(s)})
  <1> DEFINE G(u) == CHOOSE g : Sums(w, u, g)
             r == s \ {Some(s)}
  <1>1. IsFiniteSet(r) /\ r \subseteq s
    BY FS_Subset
  <1>2. Sums(w, s, G(s)) /\ Sums(w, r, G(r))
    BY <1>1, SumsExist
  <1>3. SumFunctionOnSet(w, s) = G(s)[s] /\ SumFunctionOnSet(w, r) = G(r)[r]
    BY SumIs
  <1>4. G(s)[r] = G(r)[r]
    <2> HIDE DEF G, r
    <2>1. QED
      BY <1>1, <1>2, SumsUnique
  <1>5. G(s)[s] = IF s = {} THEN 0 ELSE w[Some(s)] + G(s)[r]
    <2> HIDE DEF G
    <2>1. QED
      BY <1>2 DEF Sums
  <1>6. QED
    BY <1>3, <1>4, <1>5

\* A sum of natural numbers is one.
LEMMA SumType ==
  ASSUME NEW w, NEW s, IsFiniteSet(s), \A x \in s : w[x] \in Nat
  PROVE  SumFunctionOnSet(w, s) \in Nat
  <1> SUFFICES ASSUME SumFunctionOnSet(w, s) \notin Nat PROVE FALSE
    OBVIOUS
  <1> DEFINE Bad == { t \in SUBSET s : SumFunctionOnSet(w, t) \notin Nat }
  <1>1. Bad # {} /\ \A t \in Bad : IsFiniteSet(t)
    BY FS_Subset
  <1>2. PICK t \in Bad : \A u \in Bad : Cardinality(t) <= Cardinality(u)
    <2> HIDE DEF Bad
    <2>1. QED
      BY <1>1, Fewest
  <1>3. t # {} /\ IsFiniteSet(t)
    <2>1. IsFiniteSet(t) /\ SumFunctionOnSet(w, t) \notin Nat
      BY <1>1, <1>2
    <2>2. SumFunctionOnSet(w, t) = IF t = {} THEN 0
                                   ELSE w[Some(t)] + SumFunctionOnSet(w, t \ {Some(t)})
      BY <2>1, SumSome
    <2>3. QED
      BY <2>1, <2>2
  <1>4. /\ Some(t) \in t
        /\ Cardinality(t \ {Some(t)}) < Cardinality(t)
        /\ Cardinality(t \ {Some(t)}) \in Nat /\ Cardinality(t) \in Nat
    BY <1>3, Smaller, FS_CardinalityType
  <1>5. SumFunctionOnSet(w, t \ {Some(t)}) \in Nat
    BY <1>2, <1>4
  <1>6. SumFunctionOnSet(w, t) = w[Some(t)] + SumFunctionOnSet(w, t \ {Some(t)})
    BY <1>3, SumSome
  <1>7. QED
    BY <1>2, <1>4, <1>5, <1>6

\* A sum can be taken apart at any member.
LEMMA SumStep ==
  ASSUME NEW w, NEW s, IsFiniteSet(s), \A x \in s : w[x] \in Nat, NEW y \in s
  PROVE  SumFunctionOnSet(w, s) = w[y] + SumFunctionOnSet(w, s \ {y})
  <1> DEFINE F(t) == SumFunctionOnSet(w, t)
             Bad == { t \in SUBSET s : \E z \in t : F(t) # w[z] + F(t \ {z}) }
  <1> SUFFICES ASSUME s \in Bad PROVE FALSE
    OBVIOUS
  <1>1. Bad # {} /\ \A t \in Bad : IsFiniteSet(t)
    BY FS_Subset
  <1>2. PICK t \in Bad : \A u \in Bad : Cardinality(t) <= Cardinality(u)
    <2> HIDE DEF Bad
    <2>1. QED
      BY <1>1, Fewest
  <1>3. PICK z \in t : F(t) # w[z] + F(t \ {z})
    BY <1>2
  <1> DEFINE x == Some(t)
  <1>4. /\ IsFiniteSet(t) /\ x \in t
        /\ \A a \in t : IsFiniteSet(t \ {a}) /\ Cardinality(t \ {a}) < Cardinality(t)
                        /\ Cardinality(t \ {a}) \in Nat
        /\ Cardinality(t) \in Nat
    BY <1>1, <1>2, <1>3, Smaller, FS_CardinalityType
  <1>5. F(t) = w[x] + F(t \ {x})
    BY <1>3, <1>4, SumSome
  <1>6. x # z
    BY <1>3, <1>5
  <1>7. \A a \in t : t \ {a} \notin Bad
    <2> HIDE DEF Bad
    <2>1. QED
      BY <1>2, <1>4
  <1>8. F(t \ {x}) = w[z] + F((t \ {x}) \ {z}) /\ F(t \ {z}) = w[x] + F((t \ {z}) \ {x})
    BY <1>4, <1>6, <1>7, <1>3
  <1>9. (t \ {x}) \ {z} = (t \ {z}) \ {x}
    OBVIOUS
  <1> DEFINE r == (t \ {x}) \ {z}
  <1>10. w[x] \in Nat /\ w[z] \in Nat /\ F(r) \in Nat
    <2>1. IsFiniteSet(r) /\ \A a \in r : w[a] \in Nat
      BY <1>2, <1>4, FS_Subset
    <2> HIDE DEF r
    <2>2. QED
      BY <1>2, <1>3, <1>4, <2>1, SumType
  <1> HIDE DEF F, x, r
  <1>11. F(t) = w[x] + (w[z] + F(r)) /\ F(t \ {z}) = w[x] + F(r)
    BY <1>5, <1>8, <1>9 DEF r
  <1>12. QED
    BY <1>3, <1>10, <1>11

-----------------------------------------------------------------------------
\* The place of a field is the end of the one before it.
LEMMA PlaceIs ==
  ASSUME NEW n \in Nat, NEW fields, DOMAIN fields = 1 .. n, Len(fields) = n,
         \A i \in 1 .. n : fields[i].width \in Nat
  PROVE  /\ DOMAIN Place(fields) = 1 .. n + 1
         /\ Place(fields)[1] = 0
         /\ \A i \in 1 .. n + 1 : Place(fields)[i] \in Nat
         /\ \A i \in 1 .. n : Place(fields)[i + 1] = Place(fields)[i] + fields[i].width
         /\ Width(fields) = Place(fields)[n + 1]
  <1> DEFINE w == Widths(fields)
             F(s) == SumFunctionOnSet(w, s)
  <1>1. DOMAIN w = 1 .. n /\ \A i \in 1 .. n : w[i] = fields[i].width
    BY DEF Widths
  <1>2. Place(fields) = [i \in 1 .. n + 1 |-> F(1 .. i - 1)]
    BY DEF Place
  <1>3. Width(fields) = F(1 .. n)
    BY <1>1 DEF Width, SumFunction
  <1> HIDE DEF w
  <1>4. \A i \in 1 .. n + 1 : IsFiniteSet(1 .. i - 1) /\ \A x \in 1 .. i - 1 : w[x] \in Nat
    <2>1. ASSUME NEW i \in 1 .. n + 1 PROVE IsFiniteSet(1 .. i - 1)
      <3>1. 1 \in Int /\ i - 1 \in Int
        OBVIOUS
      <3>2. QED
        BY <3>1, FS_Interval
    <2>2. \A i \in 1 .. n + 1 : \A x \in 1 .. i - 1 : x \in 1 .. n
      OBVIOUS
    <2>3. QED
      BY <1>1, <2>1, <2>2
  <1>5. F(1 .. 0) = 0
    <2>1. 1 .. 0 = {} /\ IsFiniteSet({})
      BY FS_EmptySet
    <2>2. QED
      BY <2>1, SumSome
  <1>6. ASSUME NEW i \in 1 .. n + 1 PROVE F(1 .. i - 1) \in Nat
    <2> DEFINE s == 1 .. i - 1
    <2>1. IsFiniteSet(s) /\ \A x \in s : w[x] \in Nat
      BY <1>4
    <2> HIDE DEF s
    <2>2. QED
      BY <2>1, SumType DEF s
  <1>7. ASSUME NEW i \in 1 .. n PROVE F(1 .. i) = F(1 .. i - 1) + w[i]
    <2> DEFINE s == 1 .. i
    <2>1. i + 1 \in 1 .. n + 1 /\ (i + 1) - 1 = i
      OBVIOUS
    <2>2. IsFiniteSet(s) /\ (\A x \in s : w[x] \in Nat) /\ i \in s
      BY <1>4, <2>1
    <2>3. s \ {i} = 1 .. i - 1
      OBVIOUS
    <2>4. F(1 .. i - 1) \in Nat /\ w[i] \in Nat
      BY <1>6, <2>2
    <2>5. F(s) = w[i] + F(s \ {i})
      <3> HIDE DEF s
      <3>1. \A y \in s : SumFunctionOnSet(w, s) = w[y] + SumFunctionOnSet(w, s \ {y})
        BY <2>2, SumStep, ZenonT(40)
      <3>2. QED
        BY <2>2, <3>1
    <2>6. F(1 .. i) = w[i] + F(1 .. i - 1)
      BY <2>3, <2>5
    <2> HIDE DEF F, s
    <2>7. QED
      BY <2>4, <2>6
  <1> HIDE DEF F
  <1>8. DOMAIN Place(fields) = 1 .. n + 1
    BY <1>2
  <1>9. \A i \in 1 .. n + 1 : Place(fields)[i] = F(1 .. i - 1)
    BY <1>2
  <1>10. Place(fields)[1] = 0
    BY <1>5, <1>9
  <1>11. ASSUME NEW i \in 1 .. n
         PROVE  Place(fields)[i + 1] = Place(fields)[i] + fields[i].width
    <2>1. i + 1 \in 1 .. n + 1 /\ i \in 1 .. n + 1 /\ (i + 1) - 1 = i
      OBVIOUS
    <2>2. Place(fields)[i + 1] = F(1 .. i)
      BY <1>9, <2>1
    <2>3. QED
      BY <1>1, <1>7, <1>9, <2>1, <2>2
  <1>12. Width(fields) = Place(fields)[n + 1]
    <2>1. n + 1 \in 1 .. n + 1 /\ (n + 1) - 1 = n
      OBVIOUS
    <2>2. QED
      BY <1>3, <1>9, <2>1
  <1>13. QED
    BY <1>6, <1>8, <1>9, <1>10, <1>11, <1>12

\* f is a sequence of n fields.
Fields(f, n) ==
    /\ n \in Nat
    /\ f = [i \in 1 .. n |-> f[i]] /\ DOMAIN f = 1 .. n /\ Len(f) = n
    /\ \A i \in 1 .. n : f[i].width \in Nat

\* The places of n fields.
LEMMA PlaceOf ==
  ASSUME NEW f, NEW n, Fields(f, n)
  PROVE  /\ n \in Nat /\ DOMAIN Place(f) = 1 .. n + 1
         /\ Place(f)[1] = 0
         /\ \A i \in 1 .. n + 1 : Place(f)[i] \in Nat
         /\ \A i \in 1 .. n : Place(f)[i + 1] = Place(f)[i] + f[i].width
         /\ Width(f) = Place(f)[n + 1]
  <1>1. /\ n \in Nat /\ DOMAIN f = 1 .. n /\ Len(f) = n
        /\ \A i \in 1 .. n : f[i].width \in Nat
    BY DEF Fields
  <1>2. QED
    BY <1>1, PlaceIs, ZenonT(40)

\* h is the n fields of f and the m fields of g.
Joined(h, f, n, g, m) ==
    /\ n \in Nat /\ m \in Nat
    /\ Fields(h, n + m)
    /\ \A i \in 1 .. n + m : h[i] = IF i <= n THEN f[i] ELSE g[i - n]

\* Two sequences of fields, one behind the other, are one.
LEMMA ConcatFields ==
  ASSUME NEW f, NEW n, Fields(f, n), NEW g, NEW m, Fields(g, m)
  PROVE  Joined(f \o g, f, n, g, m)
  <1> DEFINE S == { f[i] : i \in 1 .. n } \cup { g[i] : i \in 1 .. m }
  <1>1. f \in Seq(S) /\ g \in Seq(S)
    <2>1. ASSUME NEW h, NEW k \in Nat, h = [i \in 1 .. k |-> h[i]],
                 NEW T, \A i \in 1 .. k : h[i] \in T
          PROVE  h \in Seq(T)
      <3>1. [i \in 1 .. k |-> h[i]] \in [1 .. k -> T]
        BY <2>1
      <3>2. QED
        BY <2>1, <3>1
    <2>2. f = [i \in 1 .. n |-> f[i]] /\ g = [i \in 1 .. m |-> g[i]] /\ n \in Nat /\ m \in Nat
      BY DEF Fields
    <2>3. (\A i \in 1 .. n : f[i] \in S) /\ (\A i \in 1 .. m : g[i] \in S)
      OBVIOUS
    <2> HIDE DEF S
    <2>4. QED
      BY <2>1, <2>2, <2>3
  <1> DEFINE h == f \o g
  <1>2. n \in Nat /\ m \in Nat /\ Len(f) = n /\ Len(g) = m
    BY DEF Fields
  <1>3. /\ h \in Seq(S) /\ Len(h) = n + m
        /\ \A i \in 1 .. n + m : h[i] = IF i <= n THEN f[i] ELSE g[i - n]
    <2> HIDE DEF S
    <2>1. QED
      BY <1>1, <1>2, ConcatProperties
  <1>4. h = [i \in 1 .. n + m |-> h[i]] /\ DOMAIN h = 1 .. n + m
    <2> HIDE DEF S, h
    <2>1. h \in [1 .. n + m -> S]
      BY <1>2, <1>3, LenProperties
    <2>2. QED
      BY <2>1
  <1> HIDE DEF h, S
  <1>5. \A i \in 1 .. n + m : h[i].width \in Nat
    BY <1>2, <1>3 DEF Fields
  <1>6. Fields(h, n + m)
    BY <1>2, <1>3, <1>4, <1>5 DEF Fields
  <1>7. Joined(h, f, n, g, m)
    BY <1>2, <1>3, <1>6 DEF Joined
  <1>8. QED
    BY <1>7 DEF h

\* Each part of a joined sequence keeps its fields.
LEMMA JoinedParts ==
  ASSUME NEW f, NEW n, NEW g, NEW m, NEW h, Joined(h, f, n, g, m)
  PROVE  /\ Fields(h, n + m) /\ n \in Nat /\ m \in Nat
         /\ \A i \in 1 .. n : i \in 1 .. n + m /\ h[i] = f[i]
         /\ \A i \in 1 .. m : n + i \in 1 .. n + m /\ h[n + i] = g[i]
         /\ \A i \in 1 .. n + m : i \in 1 .. n \/ \E j \in 1 .. m : i = n + j
  <1>1. /\ Fields(h, n + m) /\ n \in Nat /\ m \in Nat
        /\ \A i \in 1 .. n + m : h[i] = IF i <= n THEN f[i] ELSE g[i - n]
    BY DEF Joined
  <1>2. ASSUME NEW i \in 1 .. n PROVE i \in 1 .. n + m /\ h[i] = f[i]
    BY <1>1
  <1>3. ASSUME NEW i \in 1 .. m PROVE n + i \in 1 .. n + m /\ h[n + i] = g[i]
    <2>1. n + i \in 1 .. n + m /\ ~(n + i <= n) /\ (n + i) - n = i
      BY <1>1
    <2>2. h[n + i] = g[(n + i) - n]
      BY <1>1, <2>1
    <2>3. QED
      BY <2>1, <2>2
  <1>4. ASSUME NEW i \in 1 .. n + m PROVE i \in 1 .. n \/ \E j \in 1 .. m : i = n + j
    <2>1. CASE i <= n
      BY <1>1, <2>1
    <2>2. CASE ~(i <= n)
      <3>1. i - n \in 1 .. m /\ i = n + (i - n)
        BY <1>1, <2>2
      <3>2. QED
        BY <3>1
    <2>3. QED
      BY <2>1, <2>2
  <1>5. QED
    BY <1>1, <1>2, <1>3, <1>4

\* By how much the builder and the parser move on is the same.
Sized(t) == t.length \in Nat /\ t.size = TL + t.length /\ t.fields # << >>

\* A TLV of at least one field has its type, its fields and the size of a packed struct.
LEMMA TlvIs ==
  ASSUME NEW type, NEW f, NEW n, Fields(f, n), n > 0
  PROVE  LET t == Tlv(type, f) IN
         /\ t.type = type
         /\ Sized(t)
         /\ t.fields = Packed(f)
  <1>1. Width(f) = Place(f)[n + 1] /\ Place(f)[n + 1] \in Nat
    BY PlaceIs DEF Fields
  <1>2. Packed(f) # << >>
    <2>1. DOMAIN Packed(f) = 1 .. n /\ 1 \in 1 .. n
      BY DEF Packed, Fields
    <2>2. DOMAIN << >> = {}
      OBVIOUS
    <2>3. QED
      BY <2>1, <2>2
  <1>3. QED
    BY <1>1, <1>2 DEF Tlv, Sized

\* A read at the place and of the width of one field gives what it tells.
LEMMA ReadIs ==
  ASSUME NEW f, NEW n, Fields(f, n), NEW t, t.fields = Packed(f), NEW i \in 1 .. n,
         \A j \in 1 .. n : Place(f)[j] = Place(f)[i] /\ f[j].width = f[i].width => j = i
  PROVE  Read(t, Place(f)[i], f[i].width) = f[i].is
  <1>1. /\ DOMAIN t.fields = 1 .. n
        /\ \A j \in 1 .. n : /\ t.fields[j].at = Place(f)[j]
                             /\ t.fields[j].width = f[j].width /\ t.fields[j].is = f[j].is
    BY DEF Packed, Fields
  <1>2. { j \in DOMAIN t.fields : t.fields[j].at = Place(f)[i]
                                 /\ t.fields[j].width = f[i].width } = {i}
    BY <1>1
  <1>3. QED
    BY <1>1, <1>2 DEF Read

\* Fields of at least a byte come one after the other.
LEMMA PlaceRises ==
  ASSUME NEW f, NEW n, Fields(f, n), \A i \in 1 .. n : f[i].width > 0
  PROVE  \A i, j \in 1 .. n : i < j => Place(f)[i] < Place(f)[j]
  <1> DEFINE P == Place(f)
  <1>1. /\ n \in Nat /\ \A i \in 1 .. n : f[i].width \in Nat
        /\ \A i \in 1 .. n + 1 : P[i] \in Nat
        /\ \A i \in 1 .. n : P[i + 1] = P[i] + f[i].width
    <2>1. n \in Nat /\ \A i \in 1 .. n : f[i].width \in Nat
      BY DEF Fields
    <2>2. QED
      BY <2>1, PlaceOf
  <1> HIDE DEF P
  <1> SUFFICES ASSUME NEW i \in 1 .. n, ~\A j \in 1 .. n : i < j => P[i] < P[j]
               PROVE  FALSE
    BY DEF P
  <1> DEFINE Bad == { j \in 1 .. n : i < j /\ ~(P[i] < P[j]) }
  <1>2. Bad \subseteq Nat /\ Bad # {}
    BY <1>1
  <1>3. PICK j \in Bad : \A k \in Bad : j <= k
    <2> HIDE DEF Bad
    <2>1. QED
      BY <1>2, Least
  <1>4. j - 1 \in 1 .. n /\ P[j] = P[j - 1] + f[j - 1].width
    <2>1. j - 1 \in 1 .. n /\ (j - 1) + 1 = j
      BY <1>1, <1>3
    <2>2. QED
      BY <1>1, <2>1
  <1>5. P[j - 1] < P[j] /\ P[j - 1] \in Nat /\ P[j] \in Nat /\ P[i] \in Nat
    BY <1>1, <1>3, <1>4
  <1>6. i = j - 1 \/ i < j - 1
    BY <1>1, <1>3
  <1>7. i < j - 1 => P[i] < P[j - 1]
    <2>1. j - 1 \notin Bad
      BY <1>3
    <2>2. QED
      BY <1>4, <2>1
  <1>8. QED
    BY <1>3, <1>5, <1>6, <1>7

\* A handler that reads where a field is reads the field.
LEMMA ReadField ==
  ASSUME NEW f, NEW n, Fields(f, n), \A i \in 1 .. n : f[i].width > 0,
         NEW t, t.fields = Packed(f), NEW i \in 1 .. n
  PROVE  Read(t, Place(f)[i], f[i].width) = f[i].is
  <1>1. \A j \in 1 .. n : Place(f)[j] \in Int
    <2>1. n \in Nat /\ \A j \in 1 .. n + 1 : Place(f)[j] \in Nat
      BY PlaceIs DEF Fields
    <2>2. QED
      BY <2>1
  <1>2. \A j \in 1 .. n : Place(f)[j] = Place(f)[i] => j = i
    <2>1. \A j \in 1 .. n : j < i \/ i < j \/ j = i
      OBVIOUS
    <2>2. QED
      BY <1>1, <2>1, PlaceRises
  <1>3. QED
    BY <1>2, ReadIs

\* The constants as numbers.
LEMMA RxConstants ==
  /\ SeqLength \in Nat /\ EtherMax \in Nat /\ MaxOut \in Nat \ {0}
  /\ HostNameMax \in Nat /\ HostNameMax < 256 /\ ByteWord = 256
  BY RxAssumption DEF RxAssumption, ByteWord

\* struct awdl_election_params_v2_tlv
LEMMA ElectionV2Is ==
  ASSUME NEW s
  PROVE  LET t == ElectionParamsV2Tlv(s) IN
         /\ t.type = "election_v2" /\ Sized(t)
         /\ Read(t, 0, 6) = s.election.master_addr
         /\ Read(t, 6, 6) = s.election.sync_addr
         /\ Read(t, 12, 4) = s.election.master_counter
         /\ Read(t, 16, 4) = s.election.height
         /\ Read(t, 20, 4) = s.election.master_metric
         /\ Read(t, 24, 4) = s.election.self_metric
         /\ Read(t, 36, 4) = s.election.self_counter
  <1> DEFINE f == << Field(6, s.election.master_addr), Field(6, s.election.sync_addr),
                     Field(4, s.election.master_counter), Field(4, s.election.height),
                     Field(4, s.election.master_metric), Field(4, s.election.self_metric),
                     Field(4, 0), Field(4, 0), Field(4, s.election.self_counter) >>
             t == ElectionParamsV2Tlv(s)
             P == Place(f)
  <1>1. Fields(f, 9) /\ \A i \in 1 .. 9 : f[i].width > 0
    BY DEF Fields, Field
  <1>2. t = Tlv("election_v2", f)
    BY DEF ElectionParamsV2Tlv
  <1>3. /\ f[1].width = 6 /\ f[2].width = 6 /\ f[3].width = 4 /\ f[4].width = 4
        /\ f[5].width = 4 /\ f[6].width = 4 /\ f[7].width = 4 /\ f[8].width = 4
        /\ f[9].width = 4 /\ f[1].is = s.election.master_addr
        /\ f[2].is = s.election.sync_addr /\ f[3].is = s.election.master_counter
        /\ f[4].is = s.election.height /\ f[5].is = s.election.master_metric
        /\ f[6].is = s.election.self_metric /\ f[9].is = s.election.self_counter
    BY DEF Field
  <1> HIDE DEF f, t
  <1>4. P[1] = 0 /\ \A i \in 1 .. 9 : P[i + 1] = P[i] + f[i].width
    BY <1>1, PlaceIs DEF Fields
  <1>5. /\ P[2] = 6 /\ P[3] = 12 /\ P[4] = 16 /\ P[5] = 20 /\ P[6] = 24 /\ P[7] = 28
        /\ P[8] = 32 /\ P[9] = 36
    <2>1. /\ P[1 + 1] = P[1] + 6 /\ P[2 + 1] = P[2] + 6 /\ P[3 + 1] = P[3] + 4
          /\ P[4 + 1] = P[4] + 4 /\ P[5 + 1] = P[5] + 4 /\ P[6 + 1] = P[6] + 4
          /\ P[7 + 1] = P[7] + 4 /\ P[8 + 1] = P[8] + 4
      BY <1>3, <1>4
    <2>2. QED
      BY <1>4, <2>1
  <1>6. /\ t.type = "election_v2" /\ Sized(t)
        /\ t.fields = Packed(f)
    BY <1>1, <1>2, TlvIs
  <1>7. \A i \in 1 .. 9 : Read(t, P[i], f[i].width) = f[i].is
    BY <1>1, <1>6, ReadField
  <1>8. /\ Read(t, P[1], 6) = f[1].is /\ Read(t, P[2], 6) = f[2].is
        /\ Read(t, P[3], 4) = f[3].is /\ Read(t, P[4], 4) = f[4].is
        /\ Read(t, P[5], 4) = f[5].is /\ Read(t, P[6], 4) = f[6].is
        /\ Read(t, P[9], 4) = f[9].is
    BY <1>3, <1>7
  <1>9. QED
    BY <1>3, <1>4, <1>5, <1>6, <1>8 DEF t

\* struct awdl_election_params_tlv
LEMMA ElectionIs ==
  ASSUME NEW s
  PROVE  LET t == ElectionParamsTlv(s) IN
         /\ t.type = "election" /\ Sized(t)
         /\ Read(t, 3, 1) = s.election.height % ByteWord
         /\ Read(t, 5, 6) = s.election.master_addr
         /\ Read(t, 11, 4) = s.election.master_metric
         /\ Read(t, 15, 4) = s.election.self_metric
  <1> DEFINE f == << Field(1, 0), Field(2, 0), Field(1, s.election.height % ByteWord),
                     Field(1, 0), Field(6, s.election.master_addr),
                     Field(4, s.election.master_metric), Field(4, s.election.self_metric),
                     Field(2, 0) >>
             t == ElectionParamsTlv(s)
             P == Place(f)
  <1>1. Fields(f, 8) /\ \A i \in 1 .. 8 : f[i].width > 0
    BY DEF Fields, Field
  <1>2. t = Tlv("election", f)
    BY DEF ElectionParamsTlv
  <1>3. /\ f[1].width = 1 /\ f[2].width = 2 /\ f[3].width = 1 /\ f[4].width = 1
        /\ f[5].width = 6 /\ f[6].width = 4 /\ f[7].width = 4
        /\ f[3].is = s.election.height % ByteWord /\ f[5].is = s.election.master_addr
        /\ f[6].is = s.election.master_metric /\ f[7].is = s.election.self_metric
    BY DEF Field
  <1> HIDE DEF f, t
  <1>4. P[1] = 0 /\ \A i \in 1 .. 8 : P[i + 1] = P[i] + f[i].width
    BY <1>1, PlaceIs DEF Fields
  <1>5. /\ P[2] = 1 /\ P[3] = 3 /\ P[4] = 4 /\ P[5] = 5 /\ P[6] = 11 /\ P[7] = 15
    <2>1. /\ P[1 + 1] = P[1] + 1 /\ P[2 + 1] = P[2] + 2 /\ P[3 + 1] = P[3] + 1
          /\ P[4 + 1] = P[4] + 1 /\ P[5 + 1] = P[5] + 6 /\ P[6 + 1] = P[6] + 4
      BY <1>3, <1>4
    <2>2. QED
      BY <1>4, <2>1
  <1>6. /\ t.type = "election" /\ Sized(t)
        /\ t.fields = Packed(f)
    BY <1>1, <1>2, TlvIs
  <1>7. \A i \in 1 .. 8 : Read(t, P[i], f[i].width) = f[i].is
    BY <1>1, <1>6, ReadField
  <1>8. /\ Read(t, P[3], 1) = f[3].is /\ Read(t, P[5], 6) = f[5].is
        /\ Read(t, P[6], 4) = f[6].is /\ Read(t, P[7], 4) = f[7].is
    BY <1>3, <1>7
  <1>9. QED
    BY <1>3, <1>4, <1>5, <1>6, <1>8 DEF t

\* struct awdl_data_path_state_tlv, as this firmware fills it
LEMMA DataPathIs ==
  ASSUME NEW s
  PROVE  LET t == DataPathStateTlv(s) IN
         /\ t.type = "data_path" /\ Sized(t)
         /\ Read(t, 0, 2) = {"country_code", "social", "awdl_addr"}
         /\ Read(t, 2, 3) = s.country_code
  <1> DEFINE f == << Field(2, {"country_code", "social", "awdl_addr"}),
                     Field(3, s.country_code), Field(2, 0),
                     Field(6, s.election.self_addr), Field(2, 0) >>
             t == DataPathStateTlv(s)
             P == Place(f)
  <1>1. Fields(f, 5) /\ \A i \in 1 .. 5 : f[i].width > 0
    BY DEF Fields, Field
  <1>2. t = Tlv("data_path", f)
    BY DEF DataPathStateTlv
  <1>3. /\ f[1].width = 2 /\ f[2].width = 3
        /\ f[1].is = {"country_code", "social", "awdl_addr"} /\ f[2].is = s.country_code
    BY DEF Field
  <1> HIDE DEF f, t
  <1>4. P[1] = 0 /\ \A i \in 1 .. 5 : P[i + 1] = P[i] + f[i].width
    BY <1>1, PlaceIs DEF Fields
  <1>5. /\ P[2] = 2
    <2>1. /\ P[1 + 1] = P[1] + 2
      BY <1>3, <1>4
    <2>2. QED
      BY <1>4, <2>1
  <1>6. /\ t.type = "data_path" /\ Sized(t)
        /\ t.fields = Packed(f)
    BY <1>1, <1>2, TlvIs
  <1>7. \A i \in 1 .. 5 : Read(t, P[i], f[i].width) = f[i].is
    BY <1>1, <1>6, ReadField
  <1>8. /\ Read(t, P[1], 2) = f[1].is /\ Read(t, P[2], 3) = f[2].is
    BY <1>3, <1>7
  <1>9. QED
    BY <1>3, <1>4, <1>5, <1>6, <1>8 DEF t

\* The same with the address of a network.
LEMMA InfraIs ==
  ASSUME NEW s
  PROVE  LET t == InfraTlv(s) IN
         /\ t.type = "data_path" /\ Sized(t)
         /\ Read(t, 0, 2) = {"country_code", "social", "infra_info", "infra_addr", "awdl_addr"}
         /\ Read(t, 2, 3) = s.country_code
         /\ Read(t, 15, 6) = s.infra_addr
  <1> DEFINE f == << 
                     Field(2, {"country_code", "social", "infra_info", "infra_addr", "awdl_addr"}),
                     Field(3, s.country_code), Field(2, 0), Field(6, 0), Field(2, 0),
                     Field(6, s.infra_addr), Field(6, s.election.self_addr), Field(2, 0) >>
             t == InfraTlv(s)
             P == Place(f)
  <1>1. Fields(f, 8) /\ \A i \in 1 .. 8 : f[i].width > 0
    BY DEF Fields, Field
  <1>2. t = Tlv("data_path", f)
    BY DEF InfraTlv
  <1>3. /\ f[1].width = 2 /\ f[2].width = 3 /\ f[3].width = 2 /\ f[4].width = 6
        /\ f[5].width = 2 /\ f[6].width = 6
        /\ f[1].is = {"country_code", "social", "infra_info", "infra_addr", "awdl_addr"}
        /\ f[2].is = s.country_code /\ f[6].is = s.infra_addr
    BY DEF Field
  <1> HIDE DEF f, t
  <1>4. P[1] = 0 /\ \A i \in 1 .. 8 : P[i + 1] = P[i] + f[i].width
    BY <1>1, PlaceIs DEF Fields
  <1>5. /\ P[2] = 2 /\ P[3] = 5 /\ P[4] = 7 /\ P[5] = 13 /\ P[6] = 15
    <2>1. /\ P[1 + 1] = P[1] + 2 /\ P[2 + 1] = P[2] + 3 /\ P[3 + 1] = P[3] + 2
          /\ P[4 + 1] = P[4] + 6 /\ P[5 + 1] = P[5] + 2
      BY <1>3, <1>4
    <2>2. QED
      BY <1>4, <2>1
  <1>6. /\ t.type = "data_path" /\ Sized(t)
        /\ t.fields = Packed(f)
    BY <1>1, <1>2, TlvIs
  <1>7. \A i \in 1 .. 8 : Read(t, P[i], f[i].width) = f[i].is
    BY <1>1, <1>6, ReadField
  <1>8. /\ Read(t, P[1], 2) = f[1].is /\ Read(t, P[2], 3) = f[2].is
        /\ Read(t, P[6], 6) = f[6].is
    BY <1>3, <1>7
  <1>9. QED
    BY <1>3, <1>4, <1>5, <1>6, <1>8 DEF t

\* struct awdl_version_tlv
LEMMA VersionIs ==
  ASSUME NEW s
  PROVE  LET t == VersionTlv(s) IN
         /\ t.type = "version" /\ Sized(t)
         /\ Read(t, 0, 1) = s.version
         /\ Read(t, 1, 1) = s.devclass
  <1> DEFINE f == << Field(1, s.version), Field(1, s.devclass) >>
             t == VersionTlv(s)
             P == Place(f)
  <1>1. Fields(f, 2) /\ \A i \in 1 .. 2 : f[i].width > 0
    BY DEF Fields, Field
  <1>2. t = Tlv("version", f)
    BY DEF VersionTlv
  <1>3. /\ f[1].width = 1 /\ f[2].width = 1 /\ f[1].is = s.version
        /\ f[2].is = s.devclass
    BY DEF Field
  <1> HIDE DEF f, t
  <1>4. P[1] = 0 /\ \A i \in 1 .. 2 : P[i + 1] = P[i] + f[i].width
    BY <1>1, PlaceIs DEF Fields
  <1>5. /\ P[2] = 1
    <2>1. /\ P[1 + 1] = P[1] + 1
      BY <1>3, <1>4
    <2>2. QED
      BY <1>4, <2>1
  <1>6. /\ t.type = "version" /\ Sized(t)
        /\ t.fields = Packed(f)
    BY <1>1, <1>2, TlvIs
  <1>7. \A i \in 1 .. 2 : Read(t, P[i], f[i].width) = f[i].is
    BY <1>1, <1>6, ReadField
  <1>8. /\ Read(t, P[1], 1) = f[1].is /\ Read(t, P[2], 1) = f[2].is
    BY <1>3, <1>7
  <1>9. QED
    BY <1>3, <1>4, <1>5, <1>6, <1>8 DEF t

\* struct awdl_service_params_tlv
LEMMA ServiceIs ==
  LET t == ServiceParamsTlv IN
    /\ t.type = "service" /\ Sized(t)
  <1> DEFINE f == << Field(3, 0), Field(2, 0), Field(4, 0) >>
             t == ServiceParamsTlv
             P == Place(f)
  <1>1. Fields(f, 3) /\ \A i \in 1 .. 3 : f[i].width > 0
    BY DEF Fields, Field
  <1>2. t = Tlv("service", f)
    BY DEF ServiceParamsTlv
  <1>3. QED
    BY <1>1, <1>2, TlvIs

\* struct awdl_ht_capabilities_tlv
LEMMA HtIs ==
  LET t == HtCapabilitiesTlv IN
    /\ t.type = "ht" /\ Sized(t)
  <1> DEFINE f == << Field(2, 0), Field(2, 0), Field(1, 0), Field(1, 0), Field(2, 0) >>
             t == HtCapabilitiesTlv
             P == Place(f)
  <1>1. Fields(f, 5) /\ \A i \in 1 .. 5 : f[i].width > 0
    BY DEF Fields, Field
  <1>2. t = Tlv("ht", f)
    BY DEF HtCapabilitiesTlv
  <1>3. QED
    BY <1>1, <1>2, TlvIs

\* struct awdl_arpa_tlv: the string that is read is the one the builder wrote.
LEMMA ArpaIs ==
  ASSUME NEW s, s.name.length \in 0 .. HostNameMax
  PROVE  LET t == ArpaTlv(s) IN
         /\ t.type = "arpa" /\ Sized(t)
         /\ ReadIntString(t, 1, HostNameMax) = s.name
  <1> DEFINE n == s.name.length
             f == << Field(1, 3), Field(1, n % ByteWord), Field(n, s.name), Field(2, 0) >>
             t == ArpaTlv(s)
             P == Place(f)
  <1>1. HostNameMax \in Nat /\ n \in Nat /\ n <= HostNameMax /\ n % ByteWord = n
    BY RxConstants
  <1>2. Fields(f, 4)
    BY <1>1 DEF Fields, Field
  <1>3. /\ f[1].width = 1 /\ f[2].width = 1 /\ f[3].width = n /\ f[4].width = 2
        /\ f[2].is = n /\ f[3].is = s.name
    BY <1>1 DEF Field
  <1>4. t.type = "arpa" /\ Sized(t) /\ t.fields = Packed(f)
    <2>1. t.fields = Packed(f) /\ t.length = 3 + n + 1 /\ t.size = TL + (3 + n + 1) /\ t.type = "arpa"
      BY DEF ArpaTlv
    <2>2. t.fields # << >>
      BY <1>2, <2>1, TlvIs DEF Tlv, Sized
    <2>3. QED
      BY <1>1, <2>1, <2>2 DEF Sized
  <1> HIDE DEF f, t, n
  <1>5. P[1] = 0 /\ \A i \in 1 .. 4 : P[i + 1] = P[i] + f[i].width
    BY <1>2, PlaceIs DEF Fields
  <1>6. P[2] = 1 /\ P[3] = 2 /\ P[4] = 2 + n
    <2>1. P[1 + 1] = P[1] + 1 /\ P[2 + 1] = P[2] + 1 /\ P[3 + 1] = P[3] + n
      BY <1>3, <1>5
    <2>2. QED
      BY <1>1, <1>5, <2>1
  <1>7. Read(t, P[2], f[2].width) = f[2].is
    <2>1. \A j \in 1 .. 4 : P[j] = P[2] /\ f[j].width = f[2].width => j = 2
      BY <1>1, <1>3, <1>5, <1>6
    <2>2. QED
      BY <1>2, <1>4, <2>1, ReadIs
  <1>8. Read(t, P[3], f[3].width) = f[3].is
    <2>1. \A j \in 1 .. 4 : P[j] = P[3] /\ f[j].width = f[3].width => j = 3
      BY <1>1, <1>3, <1>5, <1>6
    <2>2. QED
      BY <1>2, <1>4, <2>1, ReadIs
  <1>9. Read(t, 1, 1) = n /\ Read(t, 1 + 1, n) = s.name
    BY <1>3, <1>6, <1>7, <1>8
  <1>10. QED
    BY <1>1, <1>4, <1>9 DEF ReadIntString, t

\* struct awdl_chanseq: five fields and the channels, each of the width of its encoding.
LEMMA ChanseqIs ==
  ASSUME NEW s, s.enc \in { "simple", "legacy", "opclass" }
  PROVE  LET f == Chanseq(s)
             size == EncodingLength(s.enc)
         IN  /\ Fields(f, 5 + SeqLength) /\ \A i \in 1 .. 5 + SeqLength : f[i].width > 0
             /\ f[1].width = 1 /\ f[2].width = 1 /\ f[3].width = 1 /\ f[4].width = 1
             /\ f[5].width = 2 /\ f[2].is = s.enc
             /\ f[1].is = SeqLength - 1 /\ f[3].is = 0 /\ f[4].is = 3 /\ f[5].is = FillChannel
             /\ \A i \in 1 .. SeqLength :
                   /\ f[5 + i].width = size
                   /\ f[5 + i].is = SubSeq(s.sequence[i], 1, size)
  <1> DEFINE size == EncodingLength(s.enc)
             g == << Field(1, SeqLength - 1), Field(1, s.enc), Field(1, 0), Field(1, 3),
                     Field(2, FillChannel) >>
             h == [i \in 1 .. SeqLength |-> Field(size, SubSeq(s.sequence[i], 1, size))]
             f == Chanseq(s)
  <1>1. SeqLength \in Nat /\ size \in {1, 2}
    BY RxConstants DEF EncodingLength
  <1>2. f = g \o h
    BY DEF Chanseq
  <1>3. /\ Fields(g, 5) /\ g[1].width = 1 /\ g[2].width = 1 /\ g[3].width = 1
        /\ g[4].width = 1 /\ g[5].width = 2 /\ g[2].is = s.enc
        /\ g[1].is = SeqLength - 1 /\ g[3].is = 0 /\ g[4].is = 3 /\ g[5].is = FillChannel
    BY DEF Fields, Field
  <1> HIDE DEF size
  <1>4. /\ Fields(h, SeqLength)
        /\ \A i \in 1 .. SeqLength : /\ h[i].width = size
                                    /\ h[i].is = SubSeq(s.sequence[i], 1, size)
    BY <1>1 DEF Fields, Field
  <1> HIDE DEF f, g, h
  <1>5. /\ Fields(f, 5 + SeqLength)
        /\ \A i \in 1 .. 5 : f[i] = g[i]
        /\ \A i \in 1 .. SeqLength : f[5 + i] = h[i]
        /\ \A i \in 1 .. 5 + SeqLength : i \in 1 .. 5 \/ \E j \in 1 .. SeqLength : i = 5 + j
    <2>1. Fields(g, 5) /\ Fields(h, SeqLength)
      BY <1>3, <1>4
    <2>2. Joined(f, g, 5, h, SeqLength)
      BY <1>2, <2>1, ConcatFields
    <2>3. QED
      BY <2>2, JoinedParts
  <1>6. \A i \in 1 .. 5 + SeqLength : f[i].width > 0
    <2>2. \A i \in 1 .. 5 : f[i].width > 0
      BY <1>3, <1>5
    <2>3. \A i \in 1 .. SeqLength : f[5 + i].width > 0
      <3>1. size > 0
        BY <1>1
      <3>2. \A i \in 1 .. SeqLength : f[5 + i].width = size
        BY <1>4, <1>5
      <3>3. QED
        BY <3>1, <3>2
    <2>4. QED
      BY <1>5, <2>2, <2>3
  <1>7. QED
    BY <1>3, <1>4, <1>5, <1>6 DEF f, size

\* struct awdl_chanseq_tlv
LEMMA ChanseqTlvIs ==
  ASSUME NEW s, s.enc \in { "simple", "legacy", "opclass" }
  PROVE  LET t == ChanseqTlv(s)
             size == EncodingLength(s.enc)
         IN  /\ t.type = "chanseq" /\ Sized(t)
             /\ Read(t, 1, 1) = s.enc /\ SaneChanseq(t)
             /\ \A i \in 1 .. SeqLength :
                   Read(t, 6 + size * (i - 1), size) = SubSeq(s.sequence[i], 1, size)
  <1> DEFINE size == EncodingLength(s.enc)
             c == Chanseq(s)
             pad == << Field(1, 0), Field(1, 0), Field(1, 0) >>
             f == c \o pad
             n == 5 + SeqLength + 3
             t == ChanseqTlv(s)
             P == Place(f)
  <1>1. SeqLength \in Nat /\ size \in {1, 2}
    BY RxConstants DEF EncodingLength
  <1>2. Fields(pad, 3) /\ \A i \in 1 .. 3 : pad[i].width > 0
    BY DEF Fields, Field
  <1>3. t = Tlv("chanseq", f)
    BY DEF ChanseqTlv
  <1>4. /\ Fields(c, 5 + SeqLength) /\ \A i \in 1 .. 5 + SeqLength : c[i].width > 0
        /\ c[1].width = 1 /\ c[2].width = 1 /\ c[3].width = 1 /\ c[4].width = 1
        /\ c[5].width = 2 /\ c[2].is = s.enc
        /\ c[1].is = SeqLength - 1 /\ c[3].is = 0 /\ c[4].is = 3 /\ c[5].is = FillChannel
        /\ \A i \in 1 .. SeqLength : /\ c[5 + i].width = size
                                    /\ c[5 + i].is = SubSeq(s.sequence[i], 1, size)
    BY ChanseqIs
  <1> HIDE DEF c, pad, size, f, t, n
  <1>5. /\ Fields(f, n) /\ n \in Nat
        /\ \A i \in 1 .. 5 + SeqLength : i \in 1 .. n /\ f[i] = c[i]
        /\ \A i \in 1 .. 3 : f[5 + SeqLength + i] = pad[i]
        /\ \A i \in 1 .. n : i \in 1 .. 5 + SeqLength \/ \E j \in 1 .. 3 : i = 5 + SeqLength + j
    <2>1. Fields(c, 5 + SeqLength) /\ Fields(pad, 3) /\ f = c \o pad /\ n = (5 + SeqLength) + 3
      BY <1>2, <1>4 DEF f, n
    <2>2. n \in Nat
      BY <1>1 DEF n
    <2>3. Joined(f, c, 5 + SeqLength, pad, 3)
      BY <2>1, ConcatFields
    <2>4. /\ Fields(f, (5 + SeqLength) + 3)
          /\ \A i \in 1 .. 5 + SeqLength : i \in 1 .. (5 + SeqLength) + 3 /\ f[i] = c[i]
          /\ \A i \in 1 .. 3 : f[(5 + SeqLength) + i] = pad[i]
          /\ \A i \in 1 .. (5 + SeqLength) + 3 :
                i \in 1 .. 5 + SeqLength \/ \E j \in 1 .. 3 : i = (5 + SeqLength) + j
      BY <2>3, JoinedParts
    <2>5. QED
      BY <2>1, <2>2, <2>4
  <1>6. \A i \in 1 .. n : f[i].width > 0
    BY <1>2, <1>4, <1>5
  <1>7. P[1] = 0 /\ \A i \in 1 .. n : P[i + 1] = P[i] + f[i].width
    BY <1>5, PlaceOf
  <1>8. P[2] = 1 /\ P[3] = 2 /\ P[4] = 3 /\ P[5] = 4 /\ P[6] = 6
    <2>1. /\ \A i \in 1 .. 5 : i \in 1 .. n /\ i \in 1 .. 5 + SeqLength
          /\ f[1].width = 1 /\ f[2].width = 1 /\ f[3].width = 1 /\ f[4].width = 1
          /\ f[5].width = 2
      BY <1>1, <1>4, <1>5 DEF n
    <2>2. P[1 + 1] = P[1] + 1 /\ P[2 + 1] = P[2] + 1 /\ P[3 + 1] = P[3] + 1
          /\ P[4 + 1] = P[4] + 1 /\ P[5 + 1] = P[5] + 2
      BY <1>7, <2>1
    <2>3. QED
      BY <1>7, <2>2
  <1>9. \A i \in 1 .. SeqLength : P[5 + i] = 6 + size * (i - 1)
    <2> SUFFICES ASSUME ~\A i \in 1 .. SeqLength : P[5 + i] = 6 + size * (i - 1)
                 PROVE  FALSE
      OBVIOUS
    <2> DEFINE Bad == { i \in 1 .. SeqLength : P[5 + i] # 6 + size * (i - 1) }
    <2>1. Bad \subseteq Nat /\ Bad # {}
      <3>1. 1 .. SeqLength \subseteq Nat
        BY <1>1
      <3>2. QED
        BY <3>1, Zenon
    <2>2. PICK i \in Bad : \A k \in Bad : i <= k
      <3> HIDE DEF Bad
      <3>1. QED
        BY <2>1, Least
    <2>3. i \in 1 .. SeqLength /\ i # 1
      BY <1>1, <1>8, <2>2
    <2>4. i - 1 \in 1 .. SeqLength /\ i - 1 \notin Bad
      BY <1>1, <2>2, <2>3
    <2>5. P[5 + (i - 1)] = 6 + size * (i - 2)
      BY <2>4
    <2>6. /\ 5 + (i - 1) \in 1 .. n /\ (5 + (i - 1)) + 1 = 5 + i
          /\ f[5 + (i - 1)].width = size
      <3>1. 5 + (i - 1) \in 1 .. 5 + SeqLength /\ 5 + (i - 1) \in 1 .. n
        BY <1>1, <2>4 DEF n
      <3>2. QED
        BY <1>4, <1>5, <2>3, <2>4, <3>1
    <2>7. P[5 + i] = P[5 + (i - 1)] + size
      BY <1>7, <2>6
    <2>8. CASE size = 1
      BY <2>2, <2>3, <2>5, <2>7, <2>8
    <2>9. CASE size = 2
      BY <2>2, <2>3, <2>5, <2>7, <2>9
    <2>10. QED
      BY <1>1, <2>8, <2>9
  <1>10. /\ t.type = "chanseq" /\ Sized(t)
         /\ t.fields = Packed(f)
    <2>1. n > 0
      BY <1>1 DEF n
    <2>2. QED
      BY <1>3, <1>5, <2>1, TlvIs
  <1>11. \A i \in 1 .. n : Read(t, P[i], f[i].width) = f[i].is
    BY <1>5, <1>6, <1>10, ReadField
  <1>12. Read(t, 1, 1) = s.enc
    <2>1. 2 \in 1 .. n /\ 2 \in 1 .. 5 + SeqLength
      BY <1>1 DEF n
    <2>2. QED
      BY <1>4, <1>5, <1>8, <1>11, <2>1
  <1>13. ASSUME NEW i \in 1 .. SeqLength
         PROVE  Read(t, 6 + size * (i - 1), size) = SubSeq(s.sequence[i], 1, size)
    <2>1. 5 + i \in 1 .. n /\ 5 + i \in 1 .. 5 + SeqLength
      BY <1>1 DEF n
    <2>2. QED
      BY <1>4, <1>5, <1>9, <1>11, <2>1
  <1>14. SaneChanseq(t)
    <2>1. \A i \in 1 .. 5 : i \in 1 .. n /\ i \in 1 .. 5 + SeqLength
      BY <1>1 DEF n
    <2>2. \A i \in 1 .. 5 : Read(t, P[i], c[i].width) = c[i].is
      BY <1>5, <1>11, <2>1
    <2>3. /\ Read(t, 0, 1) = SeqLength - 1 /\ Read(t, 2, 1) = 0 /\ Read(t, 3, 1) = 3
          /\ Read(t, 4, 2) = FillChannel
      BY <1>4, <1>7, <1>8, <2>2
    <2>4. EncodingSize(s.enc) >= 1
      BY DEF EncodingSize
    <2>5. QED
      BY <1>1, <1>12, <2>3, <2>4 DEF SaneChanseq, Sane, PresenceMode
  <1>15. QED
    BY <1>10, <1>12, <1>13, <1>14 DEF t, size

\* The configuration of another make is read as it is told.
LEMMA OddChanseqIs ==
  ASSUME NEW c, c.size \in Nat \ {0}
  PROVE  LET t == OddChanseqTlv(c) IN
         /\ t.type = "chanseq" /\ Sized(t)
         /\ SaneChanseq(t) = Sane(c.count, c.enc, c.duplicate_count, c.step_count,
                                  c.fill_channel)
  <1> DEFINE f == << Field(1, c.count), Field(1, c.enc), Field(1, c.duplicate_count),
                     Field(1, c.step_count), Field(2, c.fill_channel), Field(c.size, 0) >>
             t == OddChanseqTlv(c)
             P == Place(f)
  <1>1. Fields(f, 6) /\ \A i \in 1 .. 6 : f[i].width > 0
    BY DEF Fields, Field
  <1>2. t = Tlv("chanseq", f)
    BY DEF OddChanseqTlv
  <1>3. /\ f[1].width = 1 /\ f[2].width = 1 /\ f[3].width = 1 /\ f[4].width = 1
        /\ f[5].width = 2
        /\ f[1].is = c.count /\ f[2].is = c.enc /\ f[3].is = c.duplicate_count
        /\ f[4].is = c.step_count /\ f[5].is = c.fill_channel
    BY DEF Field
  <1> HIDE DEF f, t
  <1>4. P[1] = 0 /\ \A i \in 1 .. 6 : P[i + 1] = P[i] + f[i].width
    BY <1>1, PlaceIs DEF Fields
  <1>5. P[2] = 1 /\ P[3] = 2 /\ P[4] = 3 /\ P[5] = 4
    <2>1. P[1 + 1] = P[1] + 1 /\ P[2 + 1] = P[2] + 1 /\ P[3 + 1] = P[3] + 1
          /\ P[4 + 1] = P[4] + 1
      BY <1>3, <1>4
    <2>2. QED
      BY <1>4, <2>1
  <1>6. t.type = "chanseq" /\ Sized(t) /\ t.fields = Packed(f)
    BY <1>1, <1>2, TlvIs
  <1>7. \A i \in 1 .. 6 : Read(t, P[i], f[i].width) = f[i].is
    BY <1>1, <1>6, ReadField
  <1>8. /\ Read(t, 0, 1) = c.count /\ Read(t, 1, 1) = c.enc
        /\ Read(t, 2, 1) = c.duplicate_count /\ Read(t, 3, 1) = c.step_count
        /\ Read(t, 4, 2) = c.fill_channel
    BY <1>3, <1>4, <1>5, <1>7
  <1>9. QED
    BY <1>6, <1>8 DEF t, SaneChanseq

\* struct awdl_sync_params_tlv
LEMMA SyncIs ==
  ASSUME NEW s, s.enc \in { "simple", "legacy", "opclass" }
  PROVE  LET t == SyncParamsTlv(s) IN
         /\ t.type = "sync" /\ Sized(t)
         /\ Read(t, 1, 2) = s.tx_down_counter
         /\ Read(t, 29, 2) = s.next_aw_seq
  <1> DEFINE c == Chanseq(s)
             a == << Field(1, 0), Field(2, s.tx_down_counter),
                     Field(1, 0), Field(1, 0), Field(2, 0), Field(2, 0), Field(2, 0),
                     Field(2, 0), Field(2, 0), Field(2, 0), Field(1, 0), Field(1, 0),
                     Field(1, 0), Field(1, 0), Field(6, s.election.master_addr),
                     Field(1, 0), Field(1, 0), Field(2, s.next_aw_seq), Field(2, s.next_aw_seq) >>
             pad == << Field(1, 0), Field(1, 0) >>
             d == a \o c
             f == d \o pad
             m == 19 + (5 + SeqLength)
             n == m + 2
             t == SyncParamsTlv(s)
             P == Place(f)
  <1>1. SeqLength \in Nat
    BY RxConstants
  <1>2. Fields(pad, 2) /\ \A i \in 1 .. 2 : pad[i].width > 0
    BY DEF Fields, Field
  <1>3. t = Tlv("sync", f)
    BY DEF SyncParamsTlv
  <1>4. Fields(c, 5 + SeqLength) /\ \A i \in 1 .. 5 + SeqLength : c[i].width > 0
    BY ChanseqIs
  <1>5. Fields(a, 19) /\ \A i \in 1 .. 19 : a[i].width > 0
    BY DEF Fields, Field
  <1>6. /\ a[1].width = 1 /\ a[2].width = 2 /\ a[3].width = 1 /\ a[4].width = 1
        /\ a[5].width = 2 /\ a[6].width = 2 /\ a[7].width = 2 /\ a[8].width = 2
        /\ a[9].width = 2 /\ a[10].width = 2 /\ a[11].width = 1 /\ a[12].width = 1
        /\ a[13].width = 1 /\ a[14].width = 1 /\ a[15].width = 6 /\ a[16].width = 1
        /\ a[17].width = 1 /\ a[18].width = 2
        /\ a[2].is = s.tx_down_counter /\ a[18].is = s.next_aw_seq
    BY DEF Field
  <1> HIDE DEF c, pad, a, d, f, t, n, m
  <1>7. /\ Fields(d, m) /\ m \in Nat
        /\ \A i \in 1 .. 19 : i \in 1 .. m /\ d[i] = a[i]
        /\ \A i \in 1 .. 5 + SeqLength : d[19 + i] = c[i]
        /\ \A i \in 1 .. m : i \in 1 .. 19 \/ \E j \in 1 .. 5 + SeqLength : i = 19 + j
    <2>1. m \in Nat /\ d = a \o c /\ m = 19 + (5 + SeqLength)
      BY <1>1 DEF d, m
    <2>2. Joined(d, a, 19, c, 5 + SeqLength)
      BY <1>4, <1>5, <2>1, ConcatFields
    <2>3. /\ Fields(d, 19 + (5 + SeqLength))
          /\ \A i \in 1 .. 19 : i \in 1 .. 19 + (5 + SeqLength) /\ d[i] = a[i]
          /\ \A i \in 1 .. 5 + SeqLength : d[19 + i] = c[i]
          /\ \A i \in 1 .. 19 + (5 + SeqLength) :
                i \in 1 .. 19 \/ \E j \in 1 .. 5 + SeqLength : i = 19 + j
      BY <2>2, JoinedParts
    <2>4. QED
      BY <2>1, <2>3
  <1>8. /\ Fields(f, n) /\ n \in Nat
        /\ \A i \in 1 .. m : i \in 1 .. n /\ f[i] = d[i]
        /\ \A i \in 1 .. 2 : f[m + i] = pad[i]
        /\ \A i \in 1 .. n : i \in 1 .. m \/ \E j \in 1 .. 2 : i = m + j
    <2>1. n \in Nat /\ f = d \o pad /\ n = m + 2
      BY <1>7 DEF f, n
    <2>2. Joined(f, d, m, pad, 2)
      BY <1>2, <1>7, <2>1, ConcatFields
    <2>3. /\ Fields(f, m + 2)
          /\ \A i \in 1 .. m : i \in 1 .. m + 2 /\ f[i] = d[i]
          /\ \A i \in 1 .. 2 : f[m + i] = pad[i]
          /\ \A i \in 1 .. m + 2 : i \in 1 .. m \/ \E j \in 1 .. 2 : i = m + j
      BY <2>2, JoinedParts
    <2>4. QED
      BY <2>1, <2>3
  <1>9. \A i \in 1 .. n : f[i].width > 0
    <2>1. \A i \in 1 .. m : d[i].width > 0
      BY <1>4, <1>5, <1>7
    <2>2. QED
      BY <1>2, <1>8, <2>1
  <1>10. \A i \in 1 .. 19 : i \in 1 .. n /\ f[i] = a[i]
    BY <1>7, <1>8
  <1>11. P[1] = 0 /\ \A i \in 1 .. 19 : P[i + 1] = P[i] + a[i].width
    <2>1. P[1] = 0 /\ \A i \in 1 .. n : P[i + 1] = P[i] + f[i].width
      BY <1>8, PlaceOf
    <2>2. QED
      BY <1>10, <2>1
  <1>12. P[2] = 1 /\ P[18] = 29
    <2>1. /\ P[1 + 1] = P[1] + 1 /\ P[2 + 1] = P[2] + 2 /\ P[3 + 1] = P[3] + 1
          /\ P[4 + 1] = P[4] + 1 /\ P[5 + 1] = P[5] + 2 /\ P[6 + 1] = P[6] + 2
          /\ P[7 + 1] = P[7] + 2 /\ P[8 + 1] = P[8] + 2 /\ P[9 + 1] = P[9] + 2
          /\ P[10 + 1] = P[10] + 2 /\ P[11 + 1] = P[11] + 1 /\ P[12 + 1] = P[12] + 1
          /\ P[13 + 1] = P[13] + 1 /\ P[14 + 1] = P[14] + 1 /\ P[15 + 1] = P[15] + 6
          /\ P[16 + 1] = P[16] + 1 /\ P[17 + 1] = P[17] + 1
      BY <1>6, <1>11
    <2>2. QED
      BY <1>11, <2>1
  <1>13. /\ t.type = "sync" /\ Sized(t)
         /\ t.fields = Packed(f)
    <2>1. n > 0
      BY <1>1 DEF n, m
    <2>2. QED
      BY <1>3, <1>8, <2>1, TlvIs
  <1>14. \A i \in 1 .. n : Read(t, P[i], f[i].width) = f[i].is
    BY <1>8, <1>9, <1>13, ReadField
  <1>15. Read(t, P[2], 2) = s.tx_down_counter /\ Read(t, P[18], 2) = s.next_aw_seq
    BY <1>6, <1>10, <1>14
  <1>16. QED
    BY <1>12, <1>13, <1>15 DEF t

-----------------------------------------------------------------------------
\* The headers in front of a payload.
LEMMA HeaderSizes ==
  LlcSize = 8 /\ DataSize = 8
  <1>1. LlcSize = 8
    <2> DEFINE f == << Field(1, 170), Field(1, 170), Field(1, 3), Field(3, 0), Field(2, 0) >>
               P == Place(f)
    <2>1. /\ Fields(f, 5) /\ f[1].width = 1 /\ f[2].width = 1 /\ f[3].width = 1
          /\ f[4].width = 3 /\ f[5].width = 2
      BY DEF Fields, Field
    <2>2. LlcSize = Width(f)
      BY DEF LlcSize
    <2> HIDE DEF f
    <2>3. /\ P[1] = 0 /\ LlcSize = P[5 + 1]
          /\ \A i \in 1 .. 5 : P[i + 1] = P[i] + f[i].width
      BY <2>1, <2>2, PlaceOf
    <2>4. /\ P[1 + 1] = P[1] + 1 /\ P[2 + 1] = P[2] + 1 /\ P[3 + 1] = P[3] + 1
          /\ P[4 + 1] = P[4] + 3 /\ P[5 + 1] = P[5] + 2
      BY <2>1, <2>3
    <2>5. QED
      BY <2>3, <2>4
  <1>2. DataSize = 8
    <2> DEFINE f == << Field(2, 0), Field(2, 0), Field(2, 0), Field(2, 0) >>
               P == Place(f)
    <2>1. /\ Fields(f, 4) /\ f[1].width = 2 /\ f[2].width = 2 /\ f[3].width = 2
          /\ f[4].width = 2
      BY DEF Fields, Field
    <2>2. DataSize = Width(f)
      BY DEF DataSize
    <2> HIDE DEF f
    <2>3. /\ P[1] = 0 /\ DataSize = P[4 + 1]
          /\ \A i \in 1 .. 4 : P[i + 1] = P[i] + f[i].width
      BY <2>1, <2>2, PlaceOf
    <2>4. /\ P[1 + 1] = P[1] + 2 /\ P[2 + 1] = P[2] + 2 /\ P[3 + 1] = P[3] + 2
          /\ P[4 + 1] = P[4] + 2
      BY <2>1, <2>3
    <2>5. QED
      BY <2>3, <2>4
  <1>3. QED
    BY <1>1, <1>2

\* Every TLV of a device ends where its length says.
LEMMA TlvSized ==
  ASSUME NEW s, Announceable(s), NEW type \in TlvTypes
  PROVE  TlvOf(s, type).type = type /\ Sized(TlvOf(s, type))
  <1>1. s.enc \in { "simple", "legacy", "opclass" } /\ s.name.length \in 0 .. HostNameMax
    BY DEF Announceable
  <1>2. CASE type = "sync"
    BY <1>1, <1>2, SyncIs DEF TlvOf
  <1>3. CASE type = "election"
    BY <1>3, ElectionIs DEF TlvOf
  <1>4. CASE type = "chanseq"
    <2>1. CASE s.chanseq = None
      BY <1>1, <1>4, <2>1, ChanseqTlvIs DEF TlvOf
    <2>2. CASE s.chanseq # None
      <3>1. s.chanseq.size \in Nat \ {0}
        BY <2>2 DEF Announceable
      <3>2. QED
        BY <1>4, <2>2, <3>1, OddChanseqIs DEF TlvOf
    <2>3. QED
      BY <2>1, <2>2
  <1>5. CASE type = "election_v2"
    BY <1>5, ElectionV2Is DEF TlvOf
  <1>6. CASE type = "service"
    BY <1>6, ServiceIs DEF TlvOf
  <1>7. CASE type = "ht"
    BY <1>7, HtIs DEF TlvOf
  <1>8. CASE type = "arpa"
    BY <1>1, <1>8, ArpaIs DEF TlvOf
  <1>9. CASE type = "data_path"
    BY <1>9, DataPathIs, InfraIs DEF TlvOf
  <1>10. CASE type = "version"
    BY <1>10, VersionIs DEF TlvOf
  <1>11. QED
    BY <1>2, <1>3, <1>4, <1>5, <1>6, <1>7, <1>8, <1>9, <1>10 DEF TlvTypes

\* The parser refuses a channel sequence exactly if it is of another configuration.
LEMMA TlvFails ==
  ASSUME NEW s, Announceable(s), NEW type \in TlvTypes, NEW p
  PROVE  Fails(p, TlvOf(s, type)) <=> type = "chanseq" /\ s.chanseq # None
  <1> DEFINE t == TlvOf(s, type)
  <1>1. t.type = type /\ t.fields # << >>
    BY TlvSized DEF Sized
  <1>2. ASSUME type = "chanseq" PROVE SaneChanseq(t) <=> s.chanseq = None
    <2>1. CASE s.chanseq = None
      <3>1. t = ChanseqTlv(s) /\ s.enc \in { "simple", "legacy", "opclass" }
        BY <1>2, <2>1 DEF TlvOf, Announceable
      <3>2. QED
        BY <2>1, <3>1, ChanseqTlvIs
    <2>2. CASE s.chanseq # None
      <3> DEFINE c == s.chanseq
      <3>1. t = OddChanseqTlv(c) /\ c.size \in Nat \ {0}
            /\ ~Sane(c.count, c.enc, c.duplicate_count, c.step_count, c.fill_channel)
        BY <1>2, <2>2 DEF TlvOf, Announceable
      <3> HIDE DEF c, t
      <3>2. QED
        BY <2>2, <3>1, OddChanseqIs
    <2>3. QED
      BY <2>1, <2>2
  <1> HIDE DEF t
  <1>3. QED
    BY <1>1, <1>2 DEF Fails, t

\* A frame on the air: its parts lie one behind the other.
Shape(f, P) ==
    /\ f # None
    /\ f.kind \in {"action", "data", "qos", "amsdu", "other"}
    /\ f.from \in Station \cup {Self}
    /\ f.retry \in BOOLEAN /\ f.mif \in BOOLEAN
    /\ Len(f.parts) \in Nat /\ 1 <= Len(f.parts)
    /\ DOMAIN f.parts = 1 .. Len(f.parts)
    /\ Len(P) = Len(f.parts) + 1
    /\ P[1] = 0
    /\ \A i \in 1 .. Len(f.parts) + 1 : P[i] \in Nat
    /\ \A i \in 1 .. Len(f.parts) : /\ f.parts[i].size \in Nat /\ f.parts[i].size > 0
                                    /\ P[i + 1] = P[i] + f.parts[i].size
    /\ \A i, j \in 1 .. Len(f.parts) + 1 : i < j => P[i] < P[j]
    /\ TrailerOf(f.trailer)
    /\ IF f.kind = "action" THEN ActionFrameOf(f) ELSE DataFrameOf(f)

\* Every frame on the air has the shape that the invariant speaks of.
LEMMA OnAirShape ==
  ASSUME NEW n \in DOMAIN Frames
  PROVE  Shape(OnAir[n].frame, OnAir[n].start)
  <1> DEFINE f == Frames[n]
             N == Len(f.parts)
             g == [i \in DOMAIN f.parts |-> Field(f.parts[i].size, 0)]
             P == Place(g)
  <1>1. OnAir[n].frame = f /\ OnAir[n].start = P
    BY DEF OnAir
  <1>2. /\ f # None
        /\ f.kind \in {"action", "data", "qos", "amsdu", "other"}
        /\ f.from \in Station \cup {Self}
        /\ f.retry \in BOOLEAN /\ f.mif \in BOOLEAN
        /\ f.parts \in Seq({ f.parts[i] : i \in DOMAIN f.parts })
        /\ f.parts # << >>
        /\ TrailerOf(f.trailer)
        /\ IF f.kind = "action" THEN ActionFrameOf(f) ELSE DataFrameOf(f)
    BY RxAssumption
  <1>3. N \in Nat /\ 1 <= N /\ DOMAIN f.parts = 1 .. N
    <2>1. N \in Nat /\ DOMAIN f.parts = 1 .. N /\ N # 0
      BY <1>2, LenProperties, EmptySeq
    <2>2. QED
      BY <2>1
  <1>4. \A i \in 1 .. N : f.parts[i].size \in Nat /\ f.parts[i].size > 0
    <2>1. CASE f.kind = "action"
      <3>1. ASSUME NEW i \in 1 .. N PROVE f.parts[i].size \in Nat /\ f.parts[i].size > 0
        <4>1. /\ Announceable(f.meant) /\ f.parts[i].type \in TlvTypes
              /\ f.parts[i] = TlvOf(f.meant, f.parts[i].type)
          BY <1>2, <1>3, <2>1 DEF ActionFrameOf
        <4>2. Sized(f.parts[i])
          BY <4>1, TlvSized
        <4>3. QED
          BY <4>2 DEF Sized, TL
      <3>2. QED
        BY <3>1
    <2>2. CASE f.kind # "action"
      <3>1. ASSUME NEW i \in 1 .. N PROVE f.parts[i].size \in Nat /\ f.parts[i].size > 0
        <4> DEFINE p == f.parts[i]
        <4>1. /\ p.payload \in Nat
              /\ p.length = LlcSize + DataSize + p.payload
              /\ p.size = IF f.kind # "amsdu" THEN p.length
                          ELSE SubHeaderSize + p.length
                               + IF i = Len(f.parts) THEN 0 ELSE Padding(p.length)
          BY <1>2, <1>3, <2>2 DEF DataFrameOf
        <4>2. p.length \in Nat /\ p.length > 0
          BY <4>1, HeaderSizes, RxConstants DEF PacketHeader
        <4>3. Padding(p.length) \in Nat
          BY <4>2 DEF Padding, SubHeaderSize
        <4>4. QED
          BY <4>1, <4>2, <4>3 DEF SubHeaderSize
      <3>2. QED
        BY <3>1
    <2>3. QED
      BY <2>1, <2>2
  <1>5. Fields(g, N) /\ \A i \in 1 .. N : g[i].width = f.parts[i].size
    <2>1. /\ g = [i \in 1 .. N |-> g[i]] /\ DOMAIN g = 1 .. N
          /\ \A i \in 1 .. N : g[i].width = f.parts[i].size
      BY <1>3 DEF Field
    <2>2. Len(g) = N
      BY <1>3, <2>1
    <2>3. QED
      BY <1>3, <1>4, <2>1, <2>2 DEF Fields
  <1> HIDE DEF f, g
  <1>6. /\ DOMAIN P = 1 .. N + 1 /\ P[1] = 0
        /\ \A i \in 1 .. N + 1 : P[i] \in Nat
        /\ \A i \in 1 .. N : P[i + 1] = P[i] + g[i].width
    BY <1>5, PlaceOf
  <1>7. Len(P) = N + 1
    <2>1. P = [i \in 1 .. Len(g) + 1 |-> SumFunctionOnSet(Widths(g), 1 .. i - 1)]
      BY DEF Place
    <2>2. P = [i \in 1 .. N + 1 |-> P[i]]
      BY <2>1, <1>6
    <2>3. QED
      BY <1>3, <2>2
  <1>8. ASSUME NEW i \in 1 .. N + 1, NEW j \in 1 .. N + 1, i < j
        PROVE  P[i] < P[j]
    <2>1. \A k, l \in 1 .. N : k < l => P[k] < P[l]
      BY <1>4, <1>5, PlaceRises
    <2>2. CASE j \in 1 .. N
      BY <1>3, <1>8, <2>1, <2>2
    <2>3. CASE j = N + 1
      <3>1. i \in 1 .. N /\ N \in 1 .. N
        BY <1>3, <1>8, <2>3
      <3>2. P[N + 1] = P[N] + f.parts[N].size /\ f.parts[N].size > 0
        BY <1>4, <1>5, <1>6, <3>1
      <3>3. P[i] \in Nat /\ P[N] \in Nat /\ P[N + 1] \in Nat
        BY <1>3, <1>6
      <3>4. i = N \/ P[i] < P[N]
        BY <2>1, <3>1
      <3>5. P[N] < P[N + 1]
        <4> DEFINE size == f.parts[N].size
        <4>1. size \in Nat /\ size > 0 /\ P[N + 1] = P[N] + size
          BY <1>4, <3>1, <3>2
        <4> HIDE DEF size
        <4>2. QED
          BY <3>3, <4>1
      <3>6. QED
        BY <2>3, <3>3, <3>4, <3>5
    <2>4. QED
      BY <1>3, <2>2, <2>3
  <1>9. Shape(f, P)
    BY <1>2, <1>3, <1>4, <1>5, <1>6, <1>7, <1>8 DEF Shape
  <1>10. QED
    BY <1>1, <1>9 DEF f

-----------------------------------------------------------------------------
(* The inductive invariant.                                                *)

PeerFields == { "election", "sequence", "name", "country_code", "infra_addr", "version",
                "devclass", "supports_v2", "sent_mif", "is_valid" }

ElectionFields == { "self_addr", "master_addr", "sync_addr", "height", "master_metric",
                    "self_metric", "master_counter", "self_counter" }

\* p is a record of the device s.
PeerOf(p, s) ==
    /\ DOMAIN p = PeerFields
    /\ DOMAIN p.election = ElectionFields
    /\ p.election.self_addr = s

\* What a TLV of each type tells of its sender, with p the record of the sender and
\* c what the node has synchronised to.
Told(f, p, c, type) ==
    LET s == f.meant IN
    /\ type = "election_v2" => p.supports_v2 /\ p.election = s.election
    /\ type = "election" /\ ~p.supports_v2 =>
          /\ p.election.height = s.election.height % ByteWord
          /\ p.election.master_addr = s.election.master_addr
          /\ p.election.master_metric = s.election.master_metric
    /\ type = "chanseq" =>
          /\ s.chanseq = None
          /\ \A i \in 1 .. SeqLength : p.sequence[i][1] = s.sequence[i][1]
    /\ type = "data_path" => /\ p.country_code = s.country_code
                             /\ s.infra_addr # None => p.infra_addr = s.infra_addr
    /\ type = "version" => p.version = s.version /\ p.devclass = s.devclass
    /\ type = "arpa" => p.name = s.name
    /\ type = "sync" /\ f.from = Master => c = << s.tx_down_counter, s.next_aw_seq >>

\* The loop has been past a TLV of the type.
Passed(type) ==
    \E i \in DOMAIN frame.parts : frame.parts[i].type = type /\ start[i] < stripped

\* A packet is the beginning of the payload of a part from a peer the node knows, or
\* the payload had no room.
FromPart(q) ==
    /\ q.part \in Welcome
    /\ q.len <= frame.parts[q.part].payload
    /\ q.copied \/ PacketHeader + frame.parts[q.part].payload > EtherMax

\* All the packets are of parts before part i.
Before(i) == \A j \in 1 .. Len(out) : out[j].part < i

PacketType == [ part : Nat, len : 0 .. ByteWord - 1, copied : BOOLEAN ]

InvFrame ==
    /\ pc \in {"idle", "action", "tlvs", "data", "amsdu", "overrun", "deliver", "done"}
    /\ pc = "idle" => frame = None /\ out = << >> /\ live = {}
    /\ pc # "idle" => Shape(frame, start)
    /\ pc \in {"action", "tlvs"} => frame.kind = "action" /\ frame.from \in Station
    /\ pc = "data" => frame.kind \in {"data", "qos"}
    /\ pc \in {"amsdu", "overrun"} => frame.kind = "amsdu"
    /\ netif \in BOOLEAN

InvView ==
    /\ stripped \in Nat /\ left \in Nat
    /\ pc \in {"action", "tlvs", "data", "amsdu"} => stripped + left = End + frame.trailer.size
    /\ pc \in {"action", "data"} => stripped = 0
    /\ pc = "tlvs" => \/ \E i \in 1 .. Len(frame.parts) + 1 : stripped = start[i]
                      \/ stripped > End /\ frame.trailer.tlv # None
    /\ pc = "amsdu" => \/ left < SubHeaderSize
                       \/ \E i \in 1 .. Len(frame.parts) : stripped = start[i] /\ Before(i)

InvPeer ==
    /\ peer = [s \in Station |-> peer[s]]
    /\ \A s \in Station : peer[s] # None => PeerOf(peer[s], s)
    /\ pc = "tlvs" => PeerOf(peer[frame.from], frame.from)

InvOut ==
    /\ out \in Seq(PacketType) /\ Len(out) <= MaxOut
    /\ pc \in {"action", "tlvs", "data"} => out = << >>
    /\ \A j \in 1 .. Len(out) : FromPart(out[j])
    /\ \A j, k \in 1 .. Len(out) : j < k => out[j].part < out[k].part
    /\ pc = "overrun" => Len(out) = MaxOut /\ \E i \in Welcome : Before(i)
    /\ /\ pc \in {"deliver", "done"}
       /\ Refusal(frame) = "none" /\ Kind(frame) = "data"
       /\ peer[frame.from] # None /\ frame.parts[1].llc
       => LET payload == frame.parts[1].payload IN
          /\ out # << >> /\ out[1].len = payload % ByteWord
          /\ out[1].copied <=> PacketHeader + payload <= EtherMax
    /\ pc = "done" => packet = IF out # << >> /\ netif THEN Head(out) ELSE None

InvLive ==
    /\ pc \notin {"idle", "done"} => live = {TheFrame} \cup { TheData(j) : j \in DOMAIN out }
    /\ pc = "done" =>
          live = { TheData(i) : i \in { j \in DOMAIN out : j > 1 \/ packet = None } }

InvKnown ==
    /\ pc = "tlvs" =>
          \A type \in TlvTypes : Passed(type) => Told(frame, peer[frame.from], sync, type)
    /\ /\ pc \in {"deliver", "done"}
       /\ frame.kind = "action"
       /\ (result = "ok" \/ (result = "unexpected_format" /\ frame.meant.chanseq = None))
       => /\ \A type \in TlvTypes :
                Has(frame.parts, type) => Told(frame, peer[frame.from], sync, type)
          /\ frame.mif /\ result = "ok" => peer[frame.from].is_valid

RxInv == InvFrame /\ InvView /\ InvPeer /\ InvOut /\ InvLive /\ InvKnown

\* The invariant holds before the first frame.
LEMMA InitInv ==
  Init => RxInv
  <1> SUFFICES ASSUME Init PROVE RxInv
    OBVIOUS
  <1>1. /\ pc = "idle" /\ frame = None /\ start = << >> /\ stripped = 0 /\ left = 0
        /\ peer = [s \in Station |-> None] /\ out = << >> /\ netif = FALSE /\ live = {}
    BY DEF Init
  <1>2. InvFrame
    BY <1>1 DEF InvFrame
  <1>3. InvView
    BY <1>1 DEF InvView
  <1>4. InvPeer
    BY <1>1 DEF InvPeer
  <1>5. InvOut
    <2>1. out \in Seq(PacketType) /\ Len(out) = 0 /\ Len(out) <= MaxOut
      BY <1>1, RxConstants
    <2>2. 1 .. Len(out) = {}
      BY <2>1
    <2>3. QED
      BY <1>1, <2>1, <2>2 DEF InvOut
  <1>6. InvLive
    BY <1>1 DEF InvLive
  <1>7. InvKnown
    BY <1>1 DEF InvKnown
  <1>8. QED
    BY <1>2, <1>3, <1>4, <1>5, <1>6, <1>7 DEF RxInv

\* Where the view can be in a frame.
LEMMA ViewFacts ==
  ASSUME Shape(frame, start)
  PROVE  LET N == Len(frame.parts) IN
         /\ N \in Nat /\ 1 <= N /\ DOMAIN frame.parts = 1 .. N
         /\ End = start[N + 1] /\ End \in Nat
         /\ frame.trailer.size \in {1, 4}
         /\ \A i \in 1 .. N : /\ start[i] \in Nat /\ start[i + 1] \in Nat
                              /\ frame.parts[i].size \in Nat /\ frame.parts[i].size > 0
                              /\ start[i + 1] = start[i] + frame.parts[i].size
                              /\ start[i + 1] <= End
                              /\ stripped = start[i] => PartHere = {i}
         /\ stripped \in Nat /\ stripped >= End => PartHere = {}
         /\ \A i, j \in 1 .. N : start[j] = start[i] => i = j
  <1> DEFINE N == Len(frame.parts)
  <1>1. /\ N \in Nat /\ 1 <= N /\ DOMAIN frame.parts = 1 .. N
        /\ Len(start) = N + 1
        /\ \A i \in 1 .. N + 1 : start[i] \in Nat
        /\ \A i \in 1 .. N : /\ frame.parts[i].size \in Nat /\ frame.parts[i].size > 0
                             /\ start[i + 1] = start[i] + frame.parts[i].size
        /\ \A i, j \in 1 .. N + 1 : i < j => start[i] < start[j]
        /\ frame.trailer.size \in {1, 4}
    BY DEF Shape, TrailerOf, FcsSize
  <1>2. End = start[N + 1] /\ End \in Nat
    BY <1>1 DEF End
  <1>3. \A i, j \in 1 .. N : start[j] = start[i] => i = j
    <2>1. \A i, j \in 1 .. N : i < j \/ j < i \/ i = j
      BY <1>1
    <2>2. \A i \in 1 .. N : i \in 1 .. N + 1 /\ start[i] \in Nat
      BY <1>1
    <2>3. QED
      BY <1>1, <2>1, <2>2
  <1>4. ASSUME NEW i \in 1 .. N
        PROVE  start[i] \in Nat /\ start[i + 1] \in Nat /\ start[i + 1] <= End
    <2>1. i \in 1 .. N + 1 /\ i + 1 \in 1 .. N + 1 /\ N + 1 \in 1 .. N + 1
          /\ (i + 1 = N + 1 \/ i + 1 < N + 1)
      BY <1>1
    <2>2. start[i] \in Nat /\ start[i + 1] \in Nat
      BY <1>1, <2>1
    <2>3. CASE i + 1 = N + 1
      BY <1>2, <2>2, <2>3
    <2>4. CASE i + 1 < N + 1
      <3>1. start[i + 1] < start[N + 1]
        BY <1>1, <2>1, <2>4
      <3>2. QED
        BY <1>2, <2>2, <3>1
    <2>5. QED
      BY <2>1, <2>3, <2>4
  <1>5. ASSUME NEW i \in 1 .. N, stripped = start[i] PROVE PartHere = {i}
    BY <1>1, <1>3, <1>5 DEF PartHere
  <1>6. ASSUME stripped \in Nat, stripped >= End PROVE PartHere = {}
    <2>1. ASSUME NEW i \in 1 .. N PROVE start[i] < End
      <3>1. /\ start[i] \in Nat /\ start[i + 1] \in Nat /\ start[i + 1] <= End
            /\ frame.parts[i].size \in Nat /\ frame.parts[i].size > 0
            /\ start[i + 1] = start[i] + frame.parts[i].size
        BY <1>1, <1>4
      <3>2. QED
        BY <1>2, <3>1
    <2>2. \A i \in 1 .. N : start[i] # stripped
      BY <1>2, <1>4, <1>6, <2>1
    <2>3. QED
      BY <1>1, <2>2 DEF PartHere
  <1>7. QED
    BY <1>1, <1>2, <1>3, <1>4, <1>5, <1>6

\* What read_tlv finds is a TLV of the sender where it begins, or the checksum.
LEMMA FrontTlvIs ==
  ASSUME RxInv, pc = "tlvs", NEW t \in FrontTlv
  PROVE  \/ \E i \in 1 .. Len(frame.parts) :
               /\ t = frame.parts[i] /\ stripped = start[i]
               /\ t.type \in TlvTypes /\ t = TlvOf(frame.meant, t.type) /\ Sized(t)
         \/ /\ stripped = End /\ t # None
            /\ t = frame.trailer.tlv /\ t.fields = << >> /\ t.length \in Nat
  <1>1. Shape(frame, start) /\ frame.kind = "action"
    BY DEF RxInv, InvFrame
  <1>2. ActionFrameOf(frame) /\ TrailerOf(frame.trailer)
    BY <1>1 DEF Shape
  <1>3. CASE \E i \in PartHere : t = frame.parts[i]
    <2>1. PICK i \in PartHere : t = frame.parts[i]
      BY <1>3
    <2>2. i \in 1 .. Len(frame.parts) /\ stripped = start[i]
      BY <1>1, ViewFacts DEF PartHere
    <2>3. Announceable(frame.meant) /\ t.type \in TlvTypes /\ t = TlvOf(frame.meant, t.type)
      BY <1>2, <2>1 DEF ActionFrameOf, PartHere
    <2>4. Sized(t)
      BY <2>3, TlvSized
    <2>5. QED
      BY <2>1, <2>2, <2>3, <2>4
  <1>4. CASE t = frame.trailer.tlv /\ stripped = End /\ t # None
    BY <1>2, <1>4 DEF TrailerOf
  <1>5. QED
    BY <1>3, <1>4 DEF FrontTlv

\* No step replaces the frame at hand by one that is not on the air.
LEMMA FrameStep ==
  ASSUME RxInv, [Next]_vars
  PROVE  InvFrame'
  <1>1. InvFrame
    BY DEF RxInv
  <1> USE DEF InvFrame
  <1>2. CASE UNCHANGED vars \/ Overrun
    BY <1>1, <1>2 DEF vars, Overrun
  <1>3. ASSUME NEW n \in DOMAIN OnAir, Receive(n) PROVE InvFrame'
    <2>1. /\ pc = "idle" /\ frame' = OnAir[n].frame /\ start' = OnAir[n].start
          /\ LET refusal == Refusal(frame') IN
             pc' = IF refusal = "none" THEN Kind(frame') ELSE "deliver"
          /\ netif' = netif
      BY <1>3 DEF Receive
    <2>2. Shape(frame', start')
      BY <2>1, OnAirShape DEF OnAir
    <2>3. frame'.from \in Station \cup {Self}
          /\ frame'.kind \in {"action", "data", "qos", "amsdu", "other"}
      BY <2>2 DEF Shape
    <2>4. CASE Refusal(frame') = "none"
      <3>1. pc' = Kind(frame') /\ frame'.from # Self /\ Kind(frame') # "unexpected"
        BY <2>1, <2>4 DEF Refusal
      <3>2. QED
        BY <1>1, <2>1, <2>2, <2>3, <3>1 DEF Kind
    <2>5. CASE Refusal(frame') # "none"
      BY <1>1, <2>1, <2>2, <2>5
    <2>6. QED
      BY <2>4, <2>5
  <1>4. CASE FirstAdd
    BY <1>1, <1>4 DEF FirstAdd
  <1>5. CASE HandleTlv
    <2>1. pc = "tlvs" /\ (pc' = pc \/ pc' = "deliver") /\ UNCHANGED << frame, start, netif >>
      BY <1>5 DEF HandleTlv, Return
    <2>2. QED
      BY <1>1, <2>1
  <1>6. CASE EndOfTlvs
    BY <1>1, <1>6 DEF EndOfTlvs, Return
  <1>7. CASE RxData
    BY <1>1, <1>7 DEF RxData, Return
  <1>8. CASE Subframe
    <2>1. /\ pc = "amsdu" /\ pc' \in {"amsdu", "overrun", "deliver"}
          /\ UNCHANGED << frame, start, netif >>
      BY <1>8 DEF Subframe, Return
    <2>2. QED
      BY <1>1, <2>1
  <1>9. CASE EndOfSubframes
    BY <1>1, <1>9 DEF EndOfSubframes, Return
  <1>10. CASE Deliver
    BY <1>1, <1>10 DEF Deliver
  <1>11. CASE Done
    BY <1>1, <1>11 DEF Done
  <1>12. CASE CreateNetif
    BY <1>1, <1>12 DEF CreateNetif
  <1>13. ASSUME NEW s \in Station, Forget(s) PROVE InvFrame'
    BY <1>1, <1>13 DEF Forget
  <1>14. QED
    BY <1>2, <1>3, <1>4, <1>5, <1>6, <1>7, <1>8, <1>9, <1>10, <1>11, <1>12, <1>13
       DEF Next, Process

\* The subframes of an A-MSDU and the one part of another data frame.
LEMMA PartFacts ==
  ASSUME Shape(frame, start), frame.kind # "action", NEW i \in 1 .. Len(frame.parts)
  PROVE  LET p == frame.parts[i] IN
         /\ p.payload \in Nat
         /\ p.length \in Nat /\ p.length = 16 + p.payload
         /\ p.llc \in BOOLEAN /\ p.src \in Station
         /\ p.size = IF frame.kind # "amsdu" THEN p.length
                     ELSE SubHeaderSize + p.length
                          + IF i = Len(frame.parts) THEN 0 ELSE Padding(p.length)
         /\ Padding(p.length) \in 0 .. 3
         /\ frame.trailer.size = 4
         /\ frame.kind # "amsdu" => Len(frame.parts) = 1 /\ frame.parts[1].src = frame.from
  <1> DEFINE p == frame.parts[i]
  <1>1. DataFrameOf(frame) /\ DOMAIN frame.parts = 1 .. Len(frame.parts)
    BY DEF Shape
  <1>2. /\ p.payload \in Nat
        /\ p.length = LlcSize + DataSize + p.payload
        /\ p.llc \in BOOLEAN /\ p.src \in Station
        /\ p.size = IF frame.kind # "amsdu" THEN p.length
                    ELSE SubHeaderSize + p.length
                         + IF i = Len(frame.parts) THEN 0 ELSE Padding(p.length)
        /\ frame.trailer.size = FcsSize
        /\ frame.kind # "amsdu" => Len(frame.parts) = 1 /\ frame.parts[1].src = frame.from
    BY <1>1 DEF DataFrameOf
  <1>4. /\ p.payload \in Nat
        /\ p.length \in Nat /\ p.length = 16 + p.payload
    BY <1>2, HeaderSizes
  <1>5. Padding(p.length) \in 0 .. 3
    <2>1. \A x \in Int : x % 4 \in 0 .. 3
      OBVIOUS
    <2>2. SubHeaderSize + p.length \in Int
      BY <1>4 DEF SubHeaderSize
    <2>3. 4 - ((SubHeaderSize + p.length) % 4) \in Int
      BY <2>1, <2>2
    <2>4. QED
      BY <2>1, <2>3 DEF Padding
  <1>6. QED
    BY <1>2, <1>4, <1>5 DEF FcsSize

\* A round of the loop over the subframes takes the view from one to the next, or
\* leaves less than a header.
LEMMA SubframeView ==
  ASSUME RxInv, Subframe
  PROVE  InvView'
  <1> DEFINE N == Len(frame.parts)
  <1>1. /\ pc = "amsdu" /\ left >= SubHeaderSize /\ UNCHANGED << frame, start >>
        /\ End' = End
    BY DEF Subframe, End
  <1>2. /\ Shape(frame, start) /\ frame.kind = "amsdu"
        /\ stripped \in Nat /\ left \in Nat /\ stripped + left = End + frame.trailer.size
        /\ \E i \in 1 .. N : stripped = start[i] /\ Before(i)
        /\ out \in Seq(PacketType)
    BY <1>1 DEF RxInv, InvFrame, InvView, InvOut, SubHeaderSize
  <1>3. PICK i \in 1 .. N : stripped = start[i] /\ Before(i)
    BY <1>2
  <1> DEFINE n == frame.parts[i].length
             r == DataResult(i, n)
             rest == left - SubHeaderSize - n
  <1>4. PartHere = {i} /\ i \in Nat /\ N \in Nat
    BY <1>2, <1>3, ViewFacts
  <1>5. \/ pc' \in {"overrun", "deliver"} /\ UNCHANGED << stripped, left >>
        \/ /\ rest >= 0
           /\ out' = (IF r = "ok" THEN Append(out, Packet(i, n)) ELSE out)
           /\ Strip(SubHeaderSize + n + IF rest > 0 THEN Padding(n) ELSE 0)
           /\ pc' = pc
    <2>1. /\ IF rest < 0
             THEN Return("too_short") /\ UNCHANGED << out, stripped, left, live >>
             ELSE IF r = "ok" /\ Len(out) = MaxOut
             THEN pc' = "overrun" /\ UNCHANGED << out, stripped, left, result, live >>
             ELSE /\ out' = (IF r = "ok" THEN Append(out, Packet(i, n)) ELSE out)
                  /\ IF r \in {"unexpected_format", "too_short"}
                      THEN Return(r) /\ UNCHANGED << stripped, left >>
                      ELSE IF rest > 0 /\ Padding(n) > rest
                      THEN Return("too_short") /\ UNCHANGED << stripped, left >>
                      ELSE /\ Strip(SubHeaderSize + n + IF rest > 0 THEN Padding(n) ELSE 0)
                           /\ UNCHANGED << pc, result >>
      BY <1>4 DEF Subframe, Stored
    <2>2. rest \in Int
      BY <1>2, PartFacts DEF SubHeaderSize
    <2>3. QED
      BY <2>1, <2>2 DEF Return
  <1>6. CASE pc' \in {"overrun", "deliver"} /\ UNCHANGED << stripped, left >>
    BY <1>2, <1>6 DEF InvView
  <1>7. CASE /\ rest >= 0
             /\ out' = (IF r = "ok" THEN Append(out, Packet(i, n)) ELSE out)
             /\ Strip(SubHeaderSize + n + IF rest > 0 THEN Padding(n) ELSE 0)
             /\ pc' = pc
    <2>1. /\ frame.trailer.size = 4 /\ n \in Nat /\ Padding(n) \in 0 .. 3
          /\ frame.parts[i].size = SubHeaderSize + n + IF i = N THEN 0 ELSE Padding(n)
      BY <1>2, PartFacts
    <2>2. /\ start[i] \in Nat /\ start[i + 1] \in Nat /\ start[i + 1] <= End /\ End \in Nat
          /\ start[i + 1] = start[i] + frame.parts[i].size
          /\ End = start[N + 1]
      BY <1>2, ViewFacts
    <2> DEFINE pad == Padding(n)
               size == frame.parts[i].size
    <2>3. rest >= 4 /\ rest > 0 /\ rest = left - 14 - n
      <3>1. size >= 14 + n /\ size \in Nat
        <4>1. /\ n \in Nat /\ Padding(n) \in 0 .. 3
              /\ size = 14 + n \/ size = 14 + n + Padding(n)
          BY <2>1 DEF SubHeaderSize
        <4> HIDE DEF n, size
        <4>2. QED
          BY <4>1
      <3>2. left = End + 4 - start[i]
        <4> DEFINE at == start[i]
        <4>1. /\ stripped \in Nat /\ left \in Nat /\ stripped + left = End + 4
              /\ stripped = at
          BY <1>2, <1>3, <2>1
        <4>2. End \in Nat
          BY <2>2
        <4> HIDE DEF at
        <4>3. left = End + 4 - at
          BY <4>1, <4>2
        <4>4. QED
          BY <4>3 DEF at
      <3>3. start[i] + size <= End
        BY <2>2
      <3>4. left >= 4 + (14 + n)
        <4> DEFINE at == start[i]
        <4>1. n \in Nat /\ at \in Nat /\ End \in Nat
          BY <2>1, <2>2
        <4>2. size >= 14 + n /\ size \in Nat /\ left = End + 4 - at /\ at + size <= End
          BY <3>1, <3>2, <3>3
        <4> HIDE DEF n, size, at
        <4>3. QED
          BY <4>1, <4>2
      <3> HIDE DEF n, size
      <3>5. QED
        BY <1>2, <2>1, <3>4 DEF SubHeaderSize
    <2>4. /\ stripped' = stripped + (14 + n + pad)
          /\ left' = left - (14 + n + pad)
      <3>1. (IF rest > 0 THEN Padding(n) ELSE 0) = pad
        BY <2>3
      <3>2. Strip(14 + n + pad)
        BY <1>7, <3>1 DEF SubHeaderSize
      <3>3. QED
        BY <3>2 DEF Strip
    <2> HIDE DEF n, pad, size
    <2>5. /\ stripped' \in Nat /\ left' \in Nat
          /\ stripped' + left' = End + frame.trailer.size
      <3>1. left >= 18 + n /\ pad \in 0 .. 3 /\ n \in Nat
        BY <1>2, <2>1, <2>3 DEF n, pad
      <3>2. stripped' + left' = stripped + left /\ stripped' \in Nat /\ left' \in Nat
        <4> DEFINE cut == 14 + n + pad
        <4>1. cut \in Nat /\ cut <= left
          <5>1. left \in Nat
            BY <1>2
          <5>2. QED
            BY <3>1, <5>1
        <4>2. stripped \in Nat /\ left \in Nat
          BY <1>2
        <4>3. stripped' = stripped + cut /\ left' = left - cut
          BY <2>4
        <4> HIDE DEF cut
        <4>4. QED
          BY <4>1, <4>2, <4>3
      <3>3. stripped + left = End + frame.trailer.size
        BY <1>2
      <3>4. QED
        BY <3>2, <3>3
    <2>6. CASE i = N
      <3>1. size = 14 + n /\ start[i] + size = End /\ n \in Nat /\ pad \in Nat
        BY <2>1, <2>2, <2>6 DEF SubHeaderSize, n, pad, size
      <3>2. left = 4 + (14 + n)
        <4>1. /\ stripped \in Nat /\ left \in Nat /\ stripped + left = End + 4
              /\ stripped = start[i]
          BY <1>2, <1>3, <2>1
        <4>2. QED
          BY <3>1, <4>1
      <3>3. left' < 14
        BY <2>4, <3>1, <3>2
      <3>4. QED
        BY <1>1, <1>7, <2>5, <3>3 DEF InvView, SubHeaderSize
    <2>7. CASE i # N
      <3>1. i + 1 \in 1 .. N /\ stripped' = start[i + 1]
        <4>1. size = 14 + n + pad /\ start[i + 1] = start[i] + size
          BY <2>1, <2>2, <2>7 DEF SubHeaderSize, n, pad, size
        <4>2. i + 1 \in 1 .. N
          BY <1>4, <2>7
        <4>3. stripped = start[i] /\ stripped' = stripped + (14 + n + pad)
          BY <1>3, <2>4
        <4>4. QED
          BY <4>1, <4>2, <4>3
      <3>2. \A j \in 1 .. Len(out') : out'[j].part < i + 1
        <4>1. \A j \in 1 .. Len(out) : out[j].part \in Nat /\ out[j].part < i
          <5>1. \A j \in 1 .. Len(out) : out[j] \in PacketType
            BY <1>2, ElementOfSeq
          <5>2. \A j \in 1 .. Len(out) : out[j].part < i
            BY <1>3 DEF Before
          <5>3. QED
            BY <5>1, <5>2 DEF PacketType
        <4>2. CASE out' = out
          BY <1>4, <4>1, <4>2
        <4>3. CASE out' = Append(out, Packet(i, n))
          <5>1. /\ Len(out) \in Nat /\ Len(out') = Len(out) + 1
                /\ \A j \in 1 .. Len(out) : out'[j] = out[j]
                /\ out'[Len(out) + 1] = Packet(i, n)
            BY <1>2, <4>3, AppendProperties
          <5>2. Packet(i, n).part = i
            BY DEF Packet
          <5>3. ASSUME NEW j \in 1 .. Len(out') PROVE out'[j].part < i + 1
            <6>1. j \in 1 .. Len(out) \/ j = Len(out) + 1
              BY <5>1
            <6>2. QED
              BY <1>4, <4>1, <5>1, <5>2, <6>1
          <5>4. QED
            BY <5>3
        <4>4. QED
          BY <1>7, <4>2, <4>3
      <3>3. QED
        BY <1>1, <1>7, <2>5, <3>1, <3>2 DEF InvView, Before
    <2>8. QED
      BY <2>6, <2>7
  <1>8. QED
    BY <1>5, <1>6, <1>7

\* A round of the loop over the TLVs takes the view from one to the next, the last
\* to the trailer, and behind it if that looks like a TLV.
LEMMA TlvView ==
  ASSUME RxInv, HandleTlv
  PROVE  InvView'
  <1> DEFINE N == Len(frame.parts)
  <1>1. pc = "tlvs" /\ UNCHANGED << frame, start >> /\ End' = End
    BY DEF HandleTlv, End
  <1>2. /\ Shape(frame, start)
        /\ stripped \in Nat /\ left \in Nat /\ stripped + left = End + frame.trailer.size
    BY <1>1 DEF RxInv, InvFrame, InvView
  <1>3. PICK t \in FrontTlv :
          /\ Complete(t)
          /\ \/ pc' = "deliver" /\ UNCHANGED << stripped, left >>
             \/ StripTlv(t) /\ pc' = pc
    BY DEF HandleTlv, Return
  <1>4. CASE pc' = "deliver" /\ UNCHANGED << stripped, left >>
    BY <1>2, <1>4 DEF InvView
  <1>5. CASE StripTlv(t) /\ pc' = pc
    <2>1. stripped' = stripped + (3 + t.length) /\ left' = left - (3 + t.length)
          /\ 3 + t.length <= left
      BY <1>3, <1>5 DEF StripTlv, Strip, Complete, TL
    <2>2. t.length \in Nat
      BY <1>1, FrontTlvIs DEF Sized
    <2>3. /\ stripped' \in Nat /\ left' \in Nat
          /\ stripped' + left' = End + frame.trailer.size
      BY <1>2, <2>1, <2>2
    <2>4. \/ \E i \in 1 .. N : t = frame.parts[i] /\ stripped = start[i] /\ Sized(t)
          \/ stripped = End /\ t # None /\ t = frame.trailer.tlv
      BY <1>1, FrontTlvIs
    <2>5. ASSUME NEW i \in 1 .. N, t = frame.parts[i], stripped = start[i], Sized(t)
          PROVE  InvView'
      <3>1. i + 1 \in 1 .. N + 1 /\ stripped' = start[i + 1]
        BY <1>2, <2>1, <2>5, ViewFacts DEF Sized, TL
      <3>2. QED
        BY <1>1, <1>5, <2>3, <3>1 DEF InvView
    <2>6. CASE stripped = End /\ t # None /\ t = frame.trailer.tlv
      <3>1. stripped' > End
        BY <1>2, <2>1, <2>2, <2>6
      <3>2. QED
        BY <1>1, <1>5, <2>3, <2>6, <3>1 DEF InvView
    <2>7. QED
      BY <2>4, <2>5, <2>6
  <1>6. QED
    BY <1>3, <1>4, <1>5

\* Every step leaves the view where a part begins.
LEMMA ViewStep ==
  ASSUME RxInv, [Next]_vars
  PROVE  InvView'
  <1>1. InvView /\ InvFrame
    BY DEF RxInv
  <1>2. CASE UNCHANGED vars \/ Overrun
    BY <1>1, <1>2 DEF vars, Overrun, InvView, End, Before
  <1>3. ASSUME NEW n \in DOMAIN OnAir, Receive(n) PROVE InvView'
    <2>1. /\ pc = "idle" /\ frame' = OnAir[n].frame /\ start' = OnAir[n].start
          /\ stripped' = 0 /\ left' = End' + frame'.trailer.size /\ out' = << >>
          /\ LET refusal == Refusal(frame') IN
             pc' = IF refusal = "none" THEN Kind(frame') ELSE "deliver"
      BY <1>3 DEF Receive
    <2>2. Shape(frame', start')
      BY <2>1, OnAirShape DEF OnAir
    <2>3. /\ Len(start') = Len(frame'.parts) + 1 /\ Len(frame'.parts) \in Nat
          /\ 1 <= Len(frame'.parts) /\ start'[1] = 0
          /\ \A i \in 1 .. Len(frame'.parts) + 1 : start'[i] \in Nat
          /\ frame'.trailer.size \in {1, 4}
      BY <2>2 DEF Shape, TrailerOf, FcsSize
    <2>4. End' \in Nat
      BY <2>3 DEF End
    <2>5. stripped' \in Nat /\ left' \in Nat /\ stripped' + left' = End' + frame'.trailer.size
      BY <2>1, <2>3, <2>4
    <2>6. pc' # "tlvs"
      BY <2>1 DEF Kind
    <2>7. 1 \in 1 .. Len(frame'.parts) /\ stripped' = start'[1] /\ Len(out') = 0
      BY <2>1, <2>3
    <2>8. QED
      BY <2>1, <2>5, <2>6, <2>7 DEF InvView, Before
  <1>4. CASE FirstAdd
    <2>1. /\ pc = "action" /\ pc' = "tlvs" /\ UNCHANGED << frame, start, stripped, left, out >>
          /\ End' = End
      BY <1>4 DEF FirstAdd, End
    <2>2. Shape(frame, start) /\ stripped = 0
      BY <1>1, <2>1 DEF InvFrame, InvView
    <2>3. 1 \in 1 .. Len(frame.parts) + 1 /\ stripped = start[1]
      BY <2>2 DEF Shape
    <2>4. QED
      BY <1>1, <2>1, <2>3 DEF InvView
  <1>5. CASE HandleTlv
    BY <1>5, TlvView
  <1>6. CASE EndOfTlvs
    BY <1>1, <1>6 DEF EndOfTlvs, Return, InvView
  <1>7. CASE RxData
    BY <1>1, <1>7 DEF RxData, Return, InvView
  <1>8. CASE Subframe
    BY <1>8, SubframeView
  <1>9. CASE EndOfSubframes
    BY <1>1, <1>9 DEF EndOfSubframes, Return, InvView
  <1>10. CASE Deliver
    BY <1>1, <1>10 DEF Deliver, InvView
  <1>11. CASE Done
    BY <1>1, <1>11 DEF Done, InvView
  <1>12. CASE CreateNetif
    BY <1>1, <1>12 DEF CreateNetif, InvView
  <1>13. ASSUME NEW s \in Station, Forget(s) PROVE InvView'
    BY <1>1, <1>13 DEF Forget, InvView
  <1>14. QED
    BY <1>2, <1>3, <1>4, <1>5, <1>6, <1>7, <1>8, <1>9, <1>10, <1>11, <1>12, <1>13
       DEF Next, Process

\* Whatever a TLV writes, a record stays the record of its device.
LEMMA WrittenPeer ==
  ASSUME NEW p, NEW s, PeerOf(p, s), NEW t
  PROVE  PeerOf(Written(p, t), s)
  <1>1. /\ DOMAIN p = PeerFields /\ DOMAIN p.election = ElectionFields
        /\ p.election.self_addr = s
    BY DEF PeerOf
  <1>2. ASSUME NEW q, DOMAIN q = PeerFields, q.election = p.election PROVE PeerOf(q, s)
    BY <1>1, <1>2 DEF PeerOf
  <1>3. PeerOf(HandleChanseq(p, t), s)
    <2>1. DOMAIN HandleChanseq(p, t) = PeerFields /\ HandleChanseq(p, t).election = p.election
      BY <1>1 DEF HandleChanseq, PeerFields
    <2>2. QED
      BY <1>2, <2>1
  <1>4. PeerOf(HandleElectionParams(p, t), s)
    BY <1>1 DEF PeerOf, HandleElectionParams, PeerFields, ElectionFields
  <1>5. PeerOf(HandleElectionParamsV2(p, t), s)
    BY <1>1 DEF PeerOf, HandleElectionParamsV2, PeerFields, ElectionFields
  <1>6. PeerOf(HandleDataPathState(p, t), s)
    <2>1. /\ DOMAIN HandleDataPathState(p, t) = PeerFields
          /\ HandleDataPathState(p, t).election = p.election
      BY <1>1 DEF HandleDataPathState, PeerFields
    <2>2. QED
      BY <1>2, <2>1
  <1>7. PeerOf([p EXCEPT !.name = ReadIntString(t, 1, HostNameMax)], s)
    BY <1>1, <1>2 DEF PeerFields
  <1>8. PeerOf([p EXCEPT !.version = Read(t, 0, 1), !.devclass = Read(t, 1, 1)], s)
    BY <1>1, <1>2 DEF PeerFields
  <1>9. QED
    BY <1>3, <1>4, <1>5, <1>6, <1>7, <1>8 DEF Written

\* A record stays the record of its device when it is updated.
LEMMA UpdatedPeer ==
  ASSUME NEW p, NEW s, PeerOf(p, s), NEW b
  PROVE  PeerOf(Updated(p), s) /\ PeerOf(Updated([p EXCEPT !.sent_mif = p.sent_mif \/ b]), s)
  BY DEF PeerOf, Updated, PeerFields

\* Every step leaves each record that of its device.
LEMMA PeerStep ==
  ASSUME RxInv, [Next]_vars
  PROVE  InvPeer'
  <1>1. /\ InvFrame
        /\ peer = [s \in Station |-> peer[s]] /\ DOMAIN peer = Station
        /\ \A s \in Station : peer[s] # None => PeerOf(peer[s], s)
        /\ pc = "tlvs" => PeerOf(peer[frame.from], frame.from)
    BY DEF RxInv, InvPeer
  <1>2. ASSUME NEW x, NEW from \in Station, peer' = [peer EXCEPT ![from] = x],
               frame' = frame, frame.from = from, PeerOf(x, from)
        PROVE  InvPeer'
    BY <1>1, <1>2 DEF InvPeer
  <1>3. ASSUME peer' = peer, pc' # "tlvs" \/ (pc' = pc /\ frame' = frame)
        PROVE  InvPeer'
    BY <1>1, <1>3 DEF InvPeer
  <1>4. CASE UNCHANGED vars \/ Overrun
    BY <1>3, <1>4 DEF vars, Overrun
  <1>5. ASSUME NEW n \in DOMAIN OnAir, Receive(n) PROVE InvPeer'
    <2>1. /\ peer' = peer
          /\ LET refusal == Refusal(frame') IN
             pc' = IF refusal = "none" THEN Kind(frame') ELSE "deliver"
      BY <1>5 DEF Receive
    <2>2. pc' # "tlvs"
      BY <2>1 DEF Kind
    <2>3. QED
      BY <1>3, <2>1, <2>2
  <1>6. CASE FirstAdd
    <2> DEFINE p == peer[frame.from]
               q == IF p = None THEN NewPeer(frame.from) ELSE p
    <2>1. /\ frame.from \in Station /\ frame' = frame
          /\ peer' = [peer EXCEPT ![frame.from] = Updated(q)]
      BY <1>1, <1>6 DEF FirstAdd, InvFrame
    <2>2. PeerOf(NewPeer(frame.from), frame.from)
      BY DEF PeerOf, NewPeer, PeerFields, ElectionFields
    <2>3. PeerOf(q, frame.from)
      BY <1>1, <2>1, <2>2
    <2> HIDE DEF q
    <2>4. PeerOf(Updated(q), frame.from)
      BY <2>3, UpdatedPeer
    <2>5. QED
      BY <1>2, <2>1, <2>4
  <1>7. CASE HandleTlv
    <2>1. /\ pc = "tlvs" /\ frame' = frame
          /\ \/ peer' = peer /\ pc' = "deliver"
             \/ \E t \in FrontTlv : peer' = [peer EXCEPT ![frame.from] = Written(@, t)]
      BY <1>7 DEF HandleTlv, Return
    <2>2. CASE peer' = peer /\ pc' = "deliver"
      <3>1. pc' # "tlvs"
        BY <2>2
      <3>2. QED
        BY <1>3, <2>2, <3>1
    <2>3. ASSUME NEW t \in FrontTlv, peer' = [peer EXCEPT ![frame.from] = Written(@, t)]
          PROVE  InvPeer'
      <3>1. frame.from \in Station
        BY <1>1, <2>1 DEF InvFrame
      <3>2. peer' = [peer EXCEPT ![frame.from] = Written(peer[frame.from], t)]
        BY <1>1, <2>3, <3>1
      <3>3. PeerOf(Written(peer[frame.from], t), frame.from)
        BY <1>1, <2>1, WrittenPeer
      <3>4. QED
        BY <1>2, <2>1, <3>1, <3>2, <3>3
    <2>4. QED
      BY <2>1, <2>2, <2>3
  <1>8. CASE EndOfTlvs
    <2> DEFINE p == peer[frame.from]
               q == Updated([p EXCEPT !.sent_mif = p.sent_mif \/ frame.mif])
    <2>1. /\ pc = "tlvs" /\ pc' = "deliver" /\ frame' = frame
          /\ peer' = peer \/ peer' = [peer EXCEPT ![frame.from] = q]
      BY <1>8 DEF EndOfTlvs, Return
    <2>2. frame.from \in Station /\ PeerOf(q, frame.from)
      BY <1>1, <2>1, UpdatedPeer DEF InvFrame
    <2> HIDE DEF q
    <2>3. QED
      BY <1>2, <1>3, <2>1, <2>2
  <1>9. CASE RxData
    BY <1>3, <1>9 DEF RxData, Return
  <1>10. CASE Subframe
    BY <1>3, <1>10 DEF Subframe, Return
  <1>11. CASE EndOfSubframes
    BY <1>3, <1>11 DEF EndOfSubframes, Return
  <1>12. CASE Deliver
    BY <1>3, <1>12 DEF Deliver
  <1>13. CASE Done
    <2>1. peer' = peer /\ pc' # "tlvs"
      BY <1>13 DEF Done
    <2>2. QED
      BY <1>3, <2>1
  <1>14. CASE CreateNetif
    BY <1>3, <1>14 DEF CreateNetif
  <1>15. ASSUME NEW s \in Station, Forget(s) PROVE InvPeer'
    <2>1. pc = "idle" /\ pc' = pc /\ peer' = [peer EXCEPT ![s] = None]
      BY <1>15 DEF Forget
    <2>2. QED
      BY <1>1, <2>1 DEF InvPeer
  <1>16. QED
    BY <1>4, <1>5, <1>6, <1>7, <1>8, <1>9, <1>10, <1>11, <1>12, <1>13, <1>14, <1>15
       DEF Next, Process

\* The result of a subframe or of a frame that is no A-MSDU, when n bytes of it are left.
LEMMA DataResultIs ==
  ASSUME RxInv, pc \in {"data", "amsdu"}, NEW i \in 1 .. Len(frame.parts), NEW n \in Nat,
         DataResult(i, n) = "ok", Kept(n) <= frame.parts[i].payload
  PROVE  Packet(i, n) \in PacketType /\ FromPart(Packet(i, n))
  <1> DEFINE p == frame.parts[i]
  <1>1. Shape(frame, start) /\ frame.kind # "action"
    BY DEF RxInv, InvFrame
  <1>2. p.payload \in Nat /\ p.llc \in BOOLEAN
    BY <1>1, PartFacts
  <1>3. n >= LlcSize + DataSize /\ peer[p.src] # None /\ p.llc
    <2>1. LlcSize = 8 /\ DataSize = 8
      BY HeaderSizes
    <2>2. QED
      BY <1>2, <2>1 DEF DataResult
  <1>4. Kept(n) \in Nat
    <2>1. n - LlcSize - DataSize \in Nat
      BY <1>3, HeaderSizes
    <2>2. QED
      BY <2>1 DEF Kept, FcsSize
  <1>5. Kept(n) % ByteWord \in 0 .. ByteWord - 1 /\ Kept(n) % ByteWord <= Kept(n)
    <2>1. \A x \in Nat : x % 256 \in 0 .. 255 /\ x % 256 <= x
      OBVIOUS
    <2>2. QED
      <3> DEFINE k == Kept(n)
      <3>1. k \in Nat
        BY <1>4
      <3> HIDE DEF k
      <3>2. k % 256 \in 0 .. 255 /\ k % 256 <= k
        BY <2>1, <3>1
      <3>3. QED
        BY <3>2 DEF ByteWord, k
  <1>6. Copied(n) \in BOOLEAN /\ (Copied(n) \/ PacketHeader + p.payload > EtherMax)
    BY <1>2, <1>4, RxConstants DEF Copied, PacketHeader
  <1>7. i \in Nat /\ DOMAIN frame.parts = 1 .. Len(frame.parts)
    BY <1>1, ViewFacts
  <1>8. Packet(i, n) = [ part |-> i, len |-> Kept(n) % ByteWord, copied |-> Copied(n) ]
    BY DEF Packet
  <1>9. Packet(i, n) \in PacketType
    BY <1>5, <1>6, <1>7, <1>8 DEF PacketType
  <1>10. FromPart(Packet(i, n))
    <2>1. i \in Welcome
      BY <1>3, <1>7 DEF Welcome
    <2>2. Kept(n) % ByteWord <= p.payload
      <3> DEFINE k == Kept(n)
                 l == k % ByteWord
      <3>1. l \in 0 .. ByteWord - 1 /\ l <= k /\ k \in Nat /\ k <= p.payload
        BY <1>4, <1>5
      <3> HIDE DEF k, l
      <3>2. l <= p.payload
        BY <1>2, <3>1, RxConstants
      <3>3. QED
        BY <3>2 DEF k, l
    <2>3. QED
      BY <1>6, <1>8, <2>1, <2>2 DEF FromPart
  <1>11. QED
    BY <1>9, <1>10

\* What a data frame leaves: the whole payload, if the result is good.
LEMMA DataOut ==
  ASSUME RxInv, RxData
  PROVE  InvOut' /\ InvLive'
  <1>1. /\ pc = "data" /\ pc' = "deliver" /\ out = << >>
        /\ UNCHANGED << frame, peer, netif >>
        /\ out' = (IF DataResult(1, left) = "ok" THEN << Packet(1, left) >> ELSE out)
        /\ live' = (IF DataResult(1, left) = "ok" THEN live \cup {TheData(1)} ELSE live)
        /\ live = {TheFrame} \cup { TheData(j) : j \in DOMAIN out }
    BY DEF RxData, Return, RxInv, InvOut, InvLive
  <1>2. /\ Shape(frame, start) /\ frame.kind \in {"data", "qos"}
        /\ stripped = 0 /\ left \in Nat /\ stripped + left = End + frame.trailer.size
    BY <1>1 DEF RxInv, InvFrame, InvView
  <1> DEFINE p == frame.parts[1]
             n == left
             q == Packet(1, left)
  <1>3. Len(frame.parts) = 1 /\ 1 \in 1 .. Len(frame.parts)
    <2>1. 1 \in 1 .. Len(frame.parts)
      BY <1>2, ViewFacts
    <2>2. QED
      BY <1>2, <2>1, PartFacts
  <1>4. /\ p.payload \in Nat /\ p.length = 16 + p.payload /\ p.size = p.length
        /\ frame.trailer.size = 4 /\ p.src = frame.from /\ p.llc \in BOOLEAN
    BY <1>2, <1>3, PartFacts
  <1>5. n = 20 + p.payload
    <2>1. End = p.size
      <3>1. End = start[1 + 1] /\ start[1 + 1] = start[1] + p.size /\ start[1] = 0
        BY <1>2, <1>3, ViewFacts DEF Shape
      <3>2. QED
        BY <1>4, <3>1
    <2>2. QED
      BY <1>2, <1>4, <2>1
  <1>6. Kept(n) = p.payload
    <2>1. n - LlcSize - DataSize = 4 + p.payload
      BY <1>4, <1>5, HeaderSizes
    <2>2. QED
      BY <1>4, <2>1 DEF Kept, FcsSize
  <1>7. peer[frame.from] # None /\ p.llc <=> DataResult(1, n) = "ok"
    <2>1. n >= 16 /\ LlcSize = 8 /\ DataSize = 8
      BY <1>4, <1>5, HeaderSizes
    <2>2. QED
      BY <1>2, <1>4, <2>1 DEF DataResult
  <1>8. CASE DataResult(1, n) = "ok"
    <2>1. q \in PacketType /\ FromPart(q)
      BY <1>1, <1>2, <1>3, <1>4, <1>6, <1>8, DataResultIs
    <2>2. out' = << q >>
      BY <1>1, <1>8
    <2> HIDE DEF q
    <2>3. /\ out' \in Seq(PacketType) /\ Len(out') = 1 /\ DOMAIN out' = {1} /\ out'[1] = q
      BY <2>1, <2>2
    <2>5. q.len = p.payload % ByteWord /\ (q.copied <=> PacketHeader + p.payload <= EtherMax)
      BY <1>6 DEF q, Packet, Copied
    <2>6. 1 .. Len(out') = {1}
      BY <2>3
    <2>7. \A j \in 1 .. Len(out') : FromPart(out[j])'
      <3>1. FromPart(out[1])'
        BY <1>1, <2>1, <2>3 DEF FromPart, Welcome
      <3>2. QED
        BY <2>6, <3>1
    <2>8. InvOut'
      <3>1. Len(out') <= MaxOut /\ \A j, k \in 1 .. Len(out') : ~(j < k)
        BY <2>3, <2>6, RxConstants
      <3>2. QED
        BY <1>1, <1>3, <2>2, <2>3, <2>5, <2>7, <3>1 DEF InvOut
    <2>9. live' = {TheFrame} \cup { TheData(j) : j \in DOMAIN out' }
      BY <1>1, <1>8, <2>3
    <2>10. QED
      BY <1>1, <2>8, <2>9 DEF InvLive
  <1>9. CASE DataResult(1, n) # "ok"
    <2>1. out' = out /\ live' = live
      BY <1>1, <1>9
    <2>2. InvOut'
      <3>1. InvOut
        BY DEF RxInv
      <3>2. \A j \in 1 .. Len(out') : FromPart(out[j])'
        <4>1. Len(out') = 0 /\ 1 .. 0 = {}
          BY <1>1, <2>1
        <4>2. QED
          BY <1>1, <1>3, <4>1
      <3>3. ~(peer[frame.from] # None /\ p.llc)
        BY <1>7, <1>9
      <3>4. QED
        BY <1>1, <2>1, <3>1, <3>2, <3>3 DEF InvOut
    <2>3. InvLive'
      BY <1>1, <2>1 DEF InvLive
    <2>4. QED
      BY <2>2, <2>3
  <1>10. QED
    BY <1>8, <1>9

\* A round of the loop over the subframes adds a packet or none, and the block of
\* the subframe is freed on every way out of it.
LEMMA SubframeOut ==
  ASSUME RxInv, Subframe
  PROVE  InvOut' /\ InvLive'
  <1> DEFINE N == Len(frame.parts)
  <1>1. /\ pc = "amsdu" /\ left >= SubHeaderSize /\ UNCHANGED << frame, start, peer, netif >>
    BY DEF Subframe
  <1>2. /\ Shape(frame, start) /\ frame.kind = "amsdu"
        /\ left \in Nat
        /\ \E i \in 1 .. N : stripped = start[i] /\ Before(i)
        /\ out \in Seq(PacketType) /\ Len(out) <= MaxOut
        /\ \A j \in 1 .. Len(out) : FromPart(out[j])
        /\ \A j, k \in 1 .. Len(out) : j < k => out[j].part < out[k].part
        /\ live = {TheFrame} \cup { TheData(j) : j \in DOMAIN out }
    BY <1>1 DEF RxInv, InvFrame, InvView, InvOut, InvLive, SubHeaderSize
  <1>3. PICK i \in 1 .. N : stripped = start[i] /\ Before(i)
    BY <1>2
  <1> DEFINE n == frame.parts[i].length
             r == DataResult(i, n)
             q == Packet(i, n)
             rest == left - SubHeaderSize - n
  <1>4. PartHere = {i} /\ i \in Nat /\ N \in Nat /\ i <= N
    BY <1>2, <1>3, ViewFacts
  <1>5. /\ pc' \in {"amsdu", "overrun", "deliver"}
        /\ pc' = "overrun" => r = "ok" /\ Len(out) = MaxOut /\ out' = out
        /\ \/ out' = out /\ live' = live
           \/ /\ ~(r = "ok" /\ Len(out) = MaxOut)
              /\ out' = (IF r = "ok" THEN Append(out, q) ELSE out)
              /\ live' = SubframeFreed(live \cup {TheSubframe}
                                       \cup { TheData(j) : j \in DOMAIN out' }, r)
    <2>1. /\ IF rest < 0
             THEN Return("too_short") /\ UNCHANGED << out, stripped, left, live >>
             ELSE IF r = "ok" /\ Len(out) = MaxOut
             THEN pc' = "overrun" /\ UNCHANGED << out, stripped, left, result, live >>
             ELSE /\ out' = (IF r = "ok" THEN Append(out, q) ELSE out)
                  /\ live' = SubframeFreed(live \cup {TheSubframe}
                                           \cup { TheData(j) : j \in DOMAIN out' }, r)
                  /\ IF r \in {"unexpected_format", "too_short"}
                      THEN Return(r) /\ UNCHANGED << stripped, left >>
                      ELSE IF rest > 0 /\ Padding(n) > rest
                      THEN Return("too_short") /\ UNCHANGED << stripped, left >>
                      ELSE /\ Strip(SubHeaderSize + n + IF rest > 0 THEN Padding(n) ELSE 0)
                           /\ UNCHANGED << pc, result >>
      BY <1>4 DEF Subframe, Stored
    <2> HIDE DEF n, r, q, rest
    <2>2. QED
      BY <1>1, <2>1 DEF Return
  <1>6. Len(out) \in Nat /\ DOMAIN out = 1 .. Len(out)
    BY <1>2, LenProperties
  <1>7. /\ out' \in Seq(PacketType) /\ Len(out') \in Nat /\ Len(out') <= MaxOut
        /\ DOMAIN out \subseteq DOMAIN out'
        /\ \A j \in 1 .. Len(out') : FromPart(out'[j])
        /\ \A j, k \in 1 .. Len(out') : j < k => out'[j].part < out'[k].part
    <2>1. CASE out' = out
      BY <1>2, <1>6, <2>1
    <2>2. CASE out' = Append(out, q) /\ r = "ok" /\ Len(out) # MaxOut
      <3>1. q \in PacketType /\ FromPart(q) /\ q.part = i
        <4>1. /\ n \in Nat /\ n = 16 + frame.parts[i].payload
              /\ frame.parts[i].payload \in Nat
          BY <1>2, PartFacts
        <4>2. Kept(n) <= frame.parts[i].payload
          <5>1. n - LlcSize - DataSize = frame.parts[i].payload
            BY <4>1, HeaderSizes
          <5> HIDE DEF n
          <5>2. QED
            BY <4>1, <5>1 DEF Kept, FcsSize
        <4>3. q.part = i
          BY DEF Packet
        <4>4. QED
          BY <1>1, <2>2, <4>1, <4>2, <4>3, DataResultIs
      <3> HIDE DEF q
      <3>2. /\ out' \in Seq(PacketType) /\ Len(out') = Len(out) + 1
            /\ \A j \in 1 .. Len(out) : out'[j] = out[j]
            /\ out'[Len(out) + 1] = q
        BY <1>2, <2>2, <3>1, AppendProperties
      <3>3. DOMAIN out' = 1 .. Len(out) + 1
        BY <3>2, LenProperties
      <3>4. ASSUME NEW j \in 1 .. Len(out') PROVE FromPart(out'[j])
        <4>1. j \in 1 .. Len(out) \/ j = Len(out) + 1
          BY <1>6, <3>2
        <4>2. QED
          BY <1>2, <3>1, <3>2, <4>1
      <3>5. ASSUME NEW j \in 1 .. Len(out'), NEW k \in 1 .. Len(out'), j < k
            PROVE  out'[j].part < out'[k].part
        <4>1. j \in 1 .. Len(out) /\ (k \in 1 .. Len(out) \/ k = Len(out) + 1)
          BY <1>6, <3>2, <3>5
        <4>2. out[j].part < i
          BY <1>3, <4>1 DEF Before
        <4>3. QED
          BY <1>2, <3>1, <3>2, <3>5, <4>1, <4>2
      <3>6. Len(out') \in Nat /\ Len(out') <= MaxOut
        BY <1>2, <1>6, <2>2, <3>2, RxConstants
      <3>7. QED
        BY <1>6, <3>2, <3>3, <3>4, <3>5, <3>6
    <2>3. QED
      BY <1>5, <2>1, <2>2
  <1>8. live' = {TheFrame} \cup { TheData(j) : j \in DOMAIN out' }
    <2> DEFINE data == { TheData(j) : j \in DOMAIN out' }
    <2>1. CASE out' = out /\ live' = live
      BY <1>2, <2>1
    <2>2. CASE live' = SubframeFreed(live \cup {TheSubframe} \cup data, r)
      <3>1. { TheData(j) : j \in DOMAIN out } \subseteq data
        BY <1>7
      <3>2. TheSubframe \notin data /\ TheSubframe # TheFrame
        BY DEF TheSubframe, TheFrame, TheData
      <3>3. live' = (live \cup {TheSubframe} \cup data) \ {TheSubframe}
        BY <2>2 DEF SubframeFreed
      <3> HIDE DEF data
      <3>4. live' = {TheFrame} \cup data
        BY <1>2, <3>1, <3>2, <3>3
      <3>5. QED
        BY <3>4 DEF data
    <2>3. QED
      BY <1>5, <2>1, <2>2
  <1>9. InvOut'
    <2>1. Kind(frame) # "data"
      BY <1>2 DEF Kind
    <2>2. \A j \in 1 .. Len(out') : FromPart(out[j])'
      BY <1>1, <1>7 DEF FromPart, Welcome
    <2>3. ASSUME pc' = "overrun"
          PROVE  Len(out') = MaxOut /\ \E k \in Welcome' : Before(k)'
      <3>1. r = "ok" /\ Len(out) = MaxOut /\ out' = out
        BY <1>5, <2>3
      <3>2. i \in Welcome
        <4>1. frame.parts[i].llc \in BOOLEAN /\ DOMAIN frame.parts = 1 .. N
          BY <1>2, PartFacts, ViewFacts
        <4>2. peer[frame.parts[i].src] # None /\ frame.parts[i].llc
          BY <3>1, <4>1 DEF DataResult
        <4>3. QED
          BY <4>1, <4>2 DEF Welcome
      <3>3. Welcome' = Welcome /\ Before(i)'
        BY <1>1, <1>3, <3>1 DEF Welcome, Before
      <3>4. QED
        BY <3>1, <3>2, <3>3
    <2>4. QED
      BY <1>1, <1>5, <1>7, <2>1, <2>2, <2>3 DEF InvOut
  <1>10. InvLive'
    BY <1>5, <1>8 DEF InvLive
  <1>11. QED
    BY <1>9, <1>10

\* The first packet goes to lwIP, if there is an interface, and its block with it.
LEMMA DeliverOut ==
  ASSUME RxInv, Deliver
  PROVE  InvOut' /\ InvLive'
  <1>1. /\ pc = "deliver" /\ pc' = "done" /\ UNCHANGED << frame, peer, netif, out >>
        /\ packet' = (IF out # << >> /\ netif THEN Head(out) ELSE None)
        /\ live' = live \ (IF netif THEN {TheFrame, TheData(1)} ELSE {TheFrame})
    BY DEF Deliver
  <1>2. /\ out \in Seq(PacketType) /\ DOMAIN out = 1 .. Len(out) /\ Len(out) \in Nat
        /\ live = {TheFrame} \cup { TheData(j) : j \in DOMAIN out }
        /\ InvOut
    BY <1>1, LenProperties DEF RxInv, InvOut, InvLive
  <1>3. InvOut'
    <2>1. \A j \in 1 .. Len(out') : FromPart(out[j])'
      BY <1>1, <1>2 DEF InvOut, FromPart, Welcome
    <2>2. QED
      BY <1>1, <1>2, <2>1 DEF InvOut
  <1>4. /\ \A j \in DOMAIN out : TheData(j) # TheFrame
        /\ \A j \in DOMAIN out : TheData(j) = TheData(1) => j = 1
    BY DEF TheData, TheFrame
  <1>5. packet' = None <=> ~(out # << >> /\ netif)
    <2>1. ASSUME out # << >>, netif PROVE packet' # None
      <3>1. Head(out) \in PacketType
        BY <1>2, <2>1, HeadTailProperties
      <3>2. None \notin PacketType
        BY RxAssumption DEF RxAssumption, PacketType
      <3>3. QED
        BY <1>1, <2>1, <3>1, <3>2
    <2>2. QED
      BY <1>1, <2>1
  <1>6. live' = { TheData(i) : i \in { j \in DOMAIN out : j > 1 \/ packet' = None } }
    <2>1. CASE ~netif
      BY <1>1, <1>2, <1>4, <1>5, <2>1
    <2>2. CASE netif /\ out = << >>
      BY <1>1, <1>2, <1>4, <1>5, <2>2
    <2>3. CASE netif /\ out # << >>
      <3>1. packet' # None
        BY <1>5, <2>3
      <3>2. { j \in DOMAIN out : j > 1 \/ packet' = None } = DOMAIN out \ {1}
        BY <1>2, <3>1
      <3>3. live' = { TheData(j) : j \in DOMAIN out } \ {TheData(1)}
        BY <1>1, <1>2, <1>4, <2>3
      <3>4. QED
        BY <1>4, <3>2, <3>3
    <2>4. QED
      BY <2>1, <2>2, <2>3, <1>2
  <1>7. InvLive'
    BY <1>1, <1>6 DEF InvLive
  <1>8. QED
    BY <1>3, <1>7

\* Every step leaves the packets and the blocks as the point in the code says.
LEMMA OutStep ==
  ASSUME RxInv, [Next]_vars
  PROVE  InvOut' /\ InvLive'
  <1>1. InvOut /\ InvLive /\ InvFrame
    BY DEF RxInv
  <1>2. ASSUME UNCHANGED << frame, out, peer, netif, packet, live >>,
               pc' = pc \/ (pc = "amsdu" /\ pc' = "deliver")
                        \/ (pc = "tlvs" /\ pc' = "deliver")
        PROVE  InvOut' /\ InvLive'
    <2>1. \A j \in 1 .. Len(out') : FromPart(out[j])'
      BY <1>1, <1>2 DEF InvOut, FromPart, Welcome
    <2>2. pc' = pc \/ (pc \in {"amsdu", "tlvs"} /\ pc' = "deliver")
      BY <1>2
    <2>3. pc \in {"amsdu", "tlvs"} => Kind(frame) # "data"
      BY <1>1 DEF InvFrame, Kind
    <2>4. InvOut'
      BY <1>1, <1>2, <2>1, <2>2, <2>3 DEF InvOut, Welcome, Before
    <2>5. InvLive'
      BY <1>1, <1>2, <2>2 DEF InvLive
    <2>6. QED
      BY <2>4, <2>5
  <1>3. ASSUME out' = << >>, pc' \in {"idle", "action", "tlvs", "data", "amsdu", "deliver"},
               pc' # "idle" => Shape(frame', start') /\ live' = {TheFrame},
               pc' = "deliver" => Refusal(frame') # "none" \/ Kind(frame') # "data"
        PROVE  InvOut' /\ InvLive'
    <2>1. out' \in Seq(PacketType) /\ Len(out') = 0 /\ 1 .. 0 = {} /\ DOMAIN out' = {}
      BY <1>3
    <2>2. Len(out') <= MaxOut
      BY <2>1, RxConstants
    <2>3. InvOut'
      BY <1>3, <2>1, <2>2 DEF InvOut
    <2>4. InvLive'
      BY <1>3, <2>1 DEF InvLive
    <2>5. QED
      BY <2>3, <2>4
  <1>4. CASE UNCHANGED vars \/ Overrun
    BY <1>2, <1>4 DEF vars, Overrun
  <1>5. ASSUME NEW n \in DOMAIN OnAir, Receive(n) PROVE InvOut' /\ InvLive'
    <2>1. /\ out' = << >> /\ live' = {TheFrame}
          /\ frame' = OnAir[n].frame /\ start' = OnAir[n].start
          /\ LET refusal == Refusal(frame') IN
             pc' = IF refusal = "none" THEN Kind(frame') ELSE "deliver"
      BY <1>5 DEF Receive
    <2>2. Shape(frame', start')
      BY <2>1, OnAirShape DEF OnAir
    <2>3. frame'.from \in Station \cup {Self}
      BY <2>2 DEF Shape
    <2>4. CASE Refusal(frame') = "none"
      <3>1. pc' = Kind(frame') /\ pc' \in {"action", "data", "amsdu"}
        BY <2>1, <2>4 DEF Refusal, Kind
      <3>2. QED
        BY <1>3, <2>1, <2>2, <3>1
    <2>5. CASE Refusal(frame') # "none"
      BY <1>3, <2>1, <2>2, <2>5
    <2>6. QED
      BY <2>4, <2>5
  <1>6. ASSUME pc = "action" \/ pc = "tlvs", pc' \in {"tlvs", "deliver"},
               UNCHANGED << frame, start, out, live >>
        PROVE  InvOut' /\ InvLive'
    <2>1. /\ out = << >> /\ Shape(frame, start) /\ frame.kind = "action"
          /\ live = {TheFrame} \cup { TheData(j) : j \in DOMAIN out }
      BY <1>1, <1>6 DEF InvOut, InvLive, InvFrame
    <2>2. live = {TheFrame}
      BY <2>1
    <2>3. Kind(frame') # "data"
      BY <1>6, <2>1 DEF Kind
    <2>4. QED
      BY <1>3, <1>6, <2>1, <2>2, <2>3
  <1>7. CASE FirstAdd
    BY <1>6, <1>7 DEF FirstAdd
  <1>8. CASE HandleTlv
    BY <1>6, <1>8 DEF HandleTlv, Return
  <1>9. CASE EndOfTlvs
    BY <1>6, <1>9 DEF EndOfTlvs, Return
  <1>10. CASE RxData
    BY <1>10, DataOut
  <1>11. CASE Subframe
    BY <1>11, SubframeOut
  <1>12. CASE EndOfSubframes
    BY <1>2, <1>12 DEF EndOfSubframes, Return
  <1>13. CASE Deliver
    BY <1>13, DeliverOut
  <1>14. CASE Done
    <2>1. out' = << >> /\ pc' = "idle"
      BY <1>14 DEF Done
    <2>2. QED
      BY <1>3, <2>1
  <1>15. CASE CreateNetif
    <2>1. pc = "idle" /\ pc' = "idle" /\ out' = out
      BY <1>15 DEF CreateNetif
    <2>2. QED
      BY <1>1, <1>3, <2>1 DEF InvFrame
  <1>16. ASSUME NEW s \in Station, Forget(s) PROVE InvOut' /\ InvLive'
    <2>1. pc = "idle" /\ pc' = "idle" /\ out' = out
      BY <1>16 DEF Forget
    <2>2. QED
      BY <1>1, <1>3, <2>1 DEF InvFrame
  <1>17. QED
    BY <1>4, <1>5, <1>7, <1>8, <1>9, <1>10, <1>11, <1>12, <1>13, <1>14, <1>15, <1>16
       DEF Next, Process

-----------------------------------------------------------------------------
\* What each parser writes, of what the builder of its TLV has told.
LEMMA ElectionTold ==
  ASSUME NEW s, NEW p, PeerOf(p, s.election.self_addr)
  PROVE  LET q == HandleElectionParams(p, ElectionParamsTlv(s)) IN
         /\ q.supports_v2 <=> p.supports_v2
         /\ p.supports_v2 => q = p
         /\ ~p.supports_v2 => /\ q.election.height = s.election.height % ByteWord
                              /\ q.election.master_addr = s.election.master_addr
                              /\ q.election.master_metric = s.election.master_metric
         /\ \A x \in PeerFields \ {"election"} : q[x] = p[x]
  <1> DEFINE t == ElectionParamsTlv(s)
  <1>1. /\ Read(t, 3, 1) = s.election.height % ByteWord
        /\ Read(t, 5, 6) = s.election.master_addr
        /\ Read(t, 11, 4) = s.election.master_metric
    BY ElectionIs
  <1>2. DOMAIN p = PeerFields /\ DOMAIN p.election = ElectionFields
    BY DEF PeerOf
  <1> HIDE DEF t
  <1>3. CASE p.supports_v2
    BY <1>3 DEF HandleElectionParams, t
  <1>4. CASE ~p.supports_v2
    <2> DEFINE q == HandleElectionParams(p, t)
    <2>1. q = [p EXCEPT !.election.height = Read(t, 3, 1),
                        !.election.master_addr = Read(t, 5, 6),
                        !.election.master_metric = Read(t, 11, 4),
                        !.election.self_metric = Read(t, 15, 4)]
      BY <1>4 DEF HandleElectionParams
    <2> HIDE DEF q
    <2>2. \A x \in PeerFields \ {"election"} : q[x] = p[x]
      BY <1>2, <2>1 DEF PeerFields
    <2>3. q.supports_v2 = p.supports_v2
      BY <1>2, <2>1 DEF PeerFields
    <2>4. /\ q.election.height = Read(t, 3, 1)
          /\ q.election.master_addr = Read(t, 5, 6)
          /\ q.election.master_metric = Read(t, 11, 4)
      BY <1>2, <2>1 DEF PeerFields, ElectionFields
    <2>5. QED
      BY <1>1, <1>4, <2>2, <2>3, <2>4 DEF q, t
  <1>5. QED
    BY <1>3, <1>4

\* awdl_handle_election_params_v2_tlv (rx.c:133-149)
LEMMA ElectionV2Told ==
  ASSUME NEW s, Announceable(s), NEW p, PeerOf(p, s.election.self_addr)
  PROVE  LET q == HandleElectionParamsV2(p, ElectionParamsV2Tlv(s)) IN
         /\ q.supports_v2
         /\ q.election = s.election
         /\ \A x \in PeerFields \ {"election", "supports_v2"} : q[x] = p[x]
  <1> DEFINE t == ElectionParamsV2Tlv(s)
             e == [ p.election EXCEPT !.height = Read(t, 16, 4),
                                      !.master_addr = Read(t, 0, 6),
                                      !.sync_addr = Read(t, 6, 6),
                                      !.master_counter = Read(t, 12, 4),
                                      !.master_metric = Read(t, 20, 4),
                                      !.self_metric = Read(t, 24, 4),
                                      !.self_counter = Read(t, 36, 4) ]
             q == HandleElectionParamsV2(p, t)
  <1>1. /\ Read(t, 0, 6) = s.election.master_addr
        /\ Read(t, 6, 6) = s.election.sync_addr
        /\ Read(t, 12, 4) = s.election.master_counter
        /\ Read(t, 16, 4) = s.election.height
        /\ Read(t, 20, 4) = s.election.master_metric
        /\ Read(t, 24, 4) = s.election.self_metric
        /\ Read(t, 36, 4) = s.election.self_counter
    BY ElectionV2Is
  <1>2. /\ DOMAIN p = PeerFields /\ DOMAIN p.election = ElectionFields
        /\ p.election.self_addr = s.election.self_addr
    BY DEF PeerOf
  <1> HIDE DEF t
  <1>3. q = [p EXCEPT !.election = e, !.supports_v2 = TRUE]
    BY DEF HandleElectionParamsV2
  <1>4. e = [ self_addr |-> s.election.self_addr, master_addr |-> s.election.master_addr,
              sync_addr |-> s.election.sync_addr, height |-> s.election.height,
              master_metric |-> s.election.master_metric,
              self_metric |-> s.election.self_metric,
              master_counter |-> s.election.master_counter,
              self_counter |-> s.election.self_counter ]
    <2>1. e = [x \in ElectionFields |-> e[x]]
      BY <1>2
    <2>2. /\ e.height = Read(t, 16, 4) /\ e.master_addr = Read(t, 0, 6)
          /\ e.sync_addr = Read(t, 6, 6) /\ e.master_counter = Read(t, 12, 4)
      BY <1>2 DEF ElectionFields
    <2>3. /\ e.master_metric = Read(t, 20, 4) /\ e.self_metric = Read(t, 24, 4)
          /\ e.self_counter = Read(t, 36, 4) /\ e.self_addr = p.election.self_addr
      BY <1>2 DEF ElectionFields
    <2> HIDE DEF e
    <2>4. QED
      BY <1>1, <1>2, <2>1, <2>2, <2>3 DEF ElectionFields
  <1> HIDE DEF e, q
  <1>5. e = s.election
    BY <1>4 DEF Announceable
  <1>6. q.election = e /\ q.supports_v2
    BY <1>2, <1>3 DEF PeerFields
  <1>7. \A x \in PeerFields \ {"election", "supports_v2"} : q[x] = p[x]
    BY <1>2, <1>3 DEF PeerFields
  <1>8. QED
    BY <1>5, <1>6, <1>7 DEF q, t

\* awdl_handle_chanseq_tlv (rx.c:60-109)
LEMMA ChanseqTold ==
  ASSUME NEW s, Announceable(s), NEW p, DOMAIN p = PeerFields
  PROVE  LET q == HandleChanseq(p, ChanseqTlv(s)) IN
         /\ \A i \in 1 .. SeqLength : q.sequence[i][1] = s.sequence[i][1]
         /\ \A x \in PeerFields \ {"sequence"} : q[x] = p[x]
  <1> DEFINE t == ChanseqTlv(s)
             size == EncodingLength(s.enc)
             q == HandleChanseq(p, t)
             c(i) == Read(t, 6 + size * (i - 1), size)
  <1>1. s.enc \in { "simple", "legacy", "opclass" }
    BY DEF Announceable
  <1>2. /\ Read(t, 1, 1) = s.enc
        /\ \A i \in 1 .. SeqLength : c(i) = SubSeq(s.sequence[i], 1, size)
    BY <1>1, ChanseqTlvIs
  <1>3. size \in {1, 2} /\ EncodingSize(s.enc) = size
    BY <1>1 DEF EncodingLength, EncodingSize
  <1> HIDE DEF t, size
  <1>4. q = [p EXCEPT !.sequence =
               [i \in 1 .. SeqLength |-> IF size = 1 THEN << c(i)[1], 0 >> ELSE c(i)]]
    BY <1>2, <1>3 DEF HandleChanseq
  <1> HIDE DEF q, c
  <1>5. ASSUME NEW i \in 1 .. SeqLength PROVE c(i)[1] = s.sequence[i][1]
    <2> DEFINE a == s.sequence[i][1]
               b == s.sequence[i][2]
    <2>1. c(i) = SubSeq(<< a, b >>, 1, size)
      BY <1>2, <1>5 DEF Announceable
    <2> HIDE DEF a, b
    <2>2. << a, b >> \in Seq({a, b}) /\ Len(<< a, b >>) = 2
      OBVIOUS
    <2>3. SubSeq(<< a, b >>, 1, size)[1] = a
      BY <1>3, <2>2, SubSeqProperties
    <2>4. QED
      BY <2>1, <2>3 DEF a
  <1>6. \A i \in 1 .. SeqLength : q.sequence[i][1] = c(i)[1]
    BY <1>3, <1>4 DEF PeerFields
  <1>7. \A x \in PeerFields \ {"sequence"} : q[x] = p[x]
    BY <1>4 DEF PeerFields
  <1>8. QED
    BY <1>5, <1>6, <1>7 DEF q, t

\* awdl_handle_data_path_state_tlv (rx.c:160-194)
LEMMA DataPathTold ==
  ASSUME NEW s, NEW p, DOMAIN p = PeerFields
  PROVE  LET q == HandleDataPathState(p, TlvOf(s, "data_path")) IN
         /\ q.country_code = s.country_code
         /\ s.infra_addr # None => q.infra_addr = s.infra_addr
         /\ \A x \in PeerFields \ {"country_code", "infra_addr"} : q[x] = p[x]
  <1> DEFINE t == TlvOf(s, "data_path")
             flags == Read(t, 0, 2)
             q == HandleDataPathState(p, t)
  <1>1. t = IF s.infra_addr = None THEN DataPathStateTlv(s) ELSE InfraTlv(s)
    BY DEF TlvOf
  <1>2. "country_code" \in flags /\ Read(t, 2, 3) = s.country_code
    BY <1>1, DataPathIs, InfraIs
  <1>3. s.infra_addr # None =>
           "infra_addr" \in flags /\ Read(t, InfraAddrPlace(flags), 6) = s.infra_addr
    <2>1. ASSUME s.infra_addr # None
          PROVE  /\ flags = {"country_code", "social", "infra_info", "infra_addr", "awdl_addr"}
                 /\ Read(t, 15, 6) = s.infra_addr
      BY <1>1, <2>1, InfraIs
    <2>2. InfraAddrPlace({"country_code", "social", "infra_info", "infra_addr", "awdl_addr"})
          = 15
      BY DEF InfraAddrPlace
    <2>3. QED
      BY <2>1, <2>2
  <1> HIDE DEF t
  <1>4. q = [p EXCEPT !.country_code =
                        IF "country_code" \in flags THEN Read(t, 2, 3) ELSE @,
                      !.infra_addr =
                        IF "infra_addr" \in flags
                        THEN Read(t, InfraAddrPlace(flags), 6) ELSE @]
    BY DEF HandleDataPathState
  <1> HIDE DEF q, flags
  <1>5. \A x \in PeerFields \ {"country_code", "infra_addr"} : q[x] = p[x]
    BY <1>4 DEF PeerFields
  <1>6. q.country_code = s.country_code /\ (s.infra_addr # None => q.infra_addr = s.infra_addr)
    BY <1>2, <1>3, <1>4 DEF PeerFields
  <1>7. QED
    BY <1>5, <1>6 DEF q, t

\* Once a TLV is handled the record says what it tells, and what the others have told.
LEMMA WrittenTells ==
  ASSUME NEW f, Announceable(f.meant), NEW p, PeerOf(p, f.meant.election.self_addr),
         NEW type \in TlvTypes, type = "chanseq" => f.meant.chanseq = None, NEW t, t = TlvOf(f.meant, type), NEW c, NEW d,
         d = IF type = "sync" /\ f.from = Master
             THEN << Read(t, 1, 2), Read(t, 29, 2) >> ELSE c
  PROVE  /\ Told(f, Written(p, t), d, type)
         /\ \A other \in TlvTypes : Told(f, p, c, other) => Told(f, Written(p, t), d, other)
  <1> DEFINE s == f.meant
             q == Written(p, t)
  <1>1. t.type = type
    BY TlvSized
  <1>2. /\ DOMAIN p = PeerFields
        /\ s.enc \in { "simple", "legacy", "opclass" } /\ s.name.length \in 0 .. HostNameMax
    BY DEF PeerOf, Announceable
  <1>3. CASE type = "election"
    <2>1. q = HandleElectionParams(p, ElectionParamsTlv(s)) /\ d = c
      BY <1>1, <1>3 DEF Written, TlvOf
    <2>2. /\ q.supports_v2 <=> p.supports_v2
          /\ p.supports_v2 => q = p
          /\ ~p.supports_v2 => /\ q.election.height = s.election.height % ByteWord
                               /\ q.election.master_addr = s.election.master_addr
                               /\ q.election.master_metric = s.election.master_metric
          /\ \A x \in PeerFields \ {"election"} : q[x] = p[x]
      BY <2>1, ElectionTold
    <2> HIDE DEF q
    <2>3. /\ q.sequence = p.sequence /\ q.country_code = p.country_code
          /\ q.infra_addr = p.infra_addr /\ q.version = p.version
          /\ q.devclass = p.devclass /\ q.name = p.name
      BY <2>2 DEF PeerFields
    <2>4. QED
      BY <1>3, <2>1, <2>2, <2>3 DEF Told, q
  <1>4. CASE type = "election_v2"
    <2>1. q = HandleElectionParamsV2(p, ElectionParamsV2Tlv(s)) /\ d = c
      BY <1>1, <1>4 DEF Written, TlvOf
    <2>2. /\ q.supports_v2 /\ q.election = s.election
          /\ \A x \in PeerFields \ {"election", "supports_v2"} : q[x] = p[x]
      BY <2>1, ElectionV2Told
    <2> HIDE DEF q
    <2>3. /\ q.sequence = p.sequence /\ q.country_code = p.country_code
          /\ q.infra_addr = p.infra_addr /\ q.version = p.version
          /\ q.devclass = p.devclass /\ q.name = p.name
      BY <2>2 DEF PeerFields
    <2>4. QED
      BY <1>4, <2>1, <2>2, <2>3 DEF Told, q
  <1>5. CASE type = "chanseq"
    <2>1. q = HandleChanseq(p, ChanseqTlv(s)) /\ d = c /\ s.chanseq = None
      BY <1>1, <1>5 DEF Written, TlvOf
    <2>2. /\ \A i \in 1 .. SeqLength : q.sequence[i][1] = s.sequence[i][1]
          /\ \A x \in PeerFields \ {"sequence"} : q[x] = p[x]
      BY <1>2, <2>1, ChanseqTold
    <2> HIDE DEF q
    <2>3. /\ q.election = p.election /\ q.supports_v2 = p.supports_v2
          /\ q.country_code = p.country_code
          /\ q.infra_addr = p.infra_addr /\ q.version = p.version
          /\ q.devclass = p.devclass /\ q.name = p.name
      BY <2>2 DEF PeerFields
    <2>4. QED
      BY <1>5, <2>1, <2>2, <2>3 DEF Told, q
  <1>6. CASE type = "data_path"
    <2>1. q = HandleDataPathState(p, TlvOf(s, "data_path")) /\ d = c
      BY <1>1, <1>6 DEF Written
    <2>2. /\ q.country_code = s.country_code
          /\ s.infra_addr # None => q.infra_addr = s.infra_addr
          /\ \A x \in PeerFields \ {"country_code", "infra_addr"} : q[x] = p[x]
      BY <1>2, <2>1, DataPathTold
    <2> HIDE DEF q
    <2>3. /\ q.election = p.election /\ q.supports_v2 = p.supports_v2
          /\ q.sequence = p.sequence /\ q.version = p.version
          /\ q.devclass = p.devclass /\ q.name = p.name
      BY <2>2 DEF PeerFields
    <2>4. QED
      BY <1>6, <2>1, <2>2, <2>3 DEF Told, q
  <1>7. CASE type = "version"
    <2>1. /\ q = [p EXCEPT !.version = Read(t, 0, 1), !.devclass = Read(t, 1, 1)] /\ d = c
          /\ t = VersionTlv(s)
      BY <1>1, <1>7 DEF Written, TlvOf
    <2>2. Read(t, 0, 1) = s.version /\ Read(t, 1, 1) = s.devclass
      BY <2>1, VersionIs
    <2> HIDE DEF q
    <2>3. /\ q.election = p.election /\ q.supports_v2 = p.supports_v2
          /\ q.sequence = p.sequence /\ q.version = s.version
          /\ q.devclass = s.devclass /\ q.name = p.name
          /\ q.country_code = p.country_code /\ q.infra_addr = p.infra_addr
      BY <1>2, <2>1, <2>2 DEF PeerFields
    <2>4. QED
      BY <1>7, <2>1, <2>3, SMTT(30) DEF Told, q
  <1>8. CASE type = "arpa"
    <2>1. /\ q = [p EXCEPT !.name = ReadIntString(t, 1, HostNameMax)] /\ d = c
          /\ t = ArpaTlv(s)
      BY <1>1, <1>8 DEF Written, TlvOf
    <2>2. ReadIntString(t, 1, HostNameMax) = s.name
      BY <1>2, <2>1, ArpaIs
    <2> HIDE DEF q
    <2>3. /\ q.election = p.election /\ q.supports_v2 = p.supports_v2
          /\ q.sequence = p.sequence /\ q.version = p.version
          /\ q.devclass = p.devclass /\ q.name = s.name
          /\ q.country_code = p.country_code /\ q.infra_addr = p.infra_addr
      BY <1>2, <2>1, <2>2 DEF PeerFields
    <2>4. QED
      BY <1>8, <2>1, <2>3 DEF Told, q
  <1>9. CASE type = "sync"
    <2>1. q = p /\ t = SyncParamsTlv(s)
      BY <1>1, <1>9 DEF Written, TlvOf
    <2>2. Read(t, 1, 2) = s.tx_down_counter /\ Read(t, 29, 2) = s.next_aw_seq
      BY <1>2, <2>1, SyncIs
    <2> HIDE DEF q
    <2>3. QED
      BY <1>9, <2>1, <2>2 DEF Told, q
  <1>10. CASE type \in {"service", "ht"}
    <2>1. q = p /\ d = c
      BY <1>1, <1>10 DEF Written
    <2> HIDE DEF q
    <2>2. QED
      BY <1>10, <2>1 DEF Told, q
  <1>11. QED
    BY <1>3, <1>4, <1>5, <1>6, <1>7, <1>8, <1>9, <1>10 DEF TlvTypes

\* A checksum that no handler fails on writes nothing.
LEMMA TrailerWrites ==
  ASSUME NEW p, NEW t, t.fields = << >>, ~Fails(p, t)
  PROVE  Written(p, t) = p /\ ~(t.type = "sync" /\ frame.from = Master)
  <1>1. t.type \notin {"chanseq", "election_v2", "arpa", "data_path", "version"}
    BY DEF Fails
  <1>2. t.type = "election" => HandleElectionParams(p, t) = p
    BY DEF Fails, HandleElectionParams
  <1>3. QED
    BY <1>1, <1>2 DEF Written, Fails

\* A round of the loop over the TLVs adds to what the record says.
LEMMA TlvKnown ==
  ASSUME RxInv, HandleTlv
  PROVE  InvKnown'
  <1> DEFINE N == Len(frame.parts)
             p == peer[frame.from]
  <1>1. /\ pc = "tlvs" /\ UNCHANGED << frame, start >>
    BY DEF HandleTlv
  <1>2. /\ Shape(frame, start) /\ frame.kind = "action" /\ frame.from \in Station
        /\ PeerOf(p, frame.from) /\ DOMAIN peer = Station /\ stripped \in Nat
        /\ \A type \in TlvTypes : Passed(type) => Told(frame, p, sync, type)
    BY <1>1 DEF RxInv, InvFrame, InvPeer, InvKnown, InvView
  <1>3. Announceable(frame.meant) /\ frame.meant.election.self_addr = frame.from
    BY <1>2 DEF Shape, ActionFrameOf
  <1>4. /\ N \in Nat /\ DOMAIN frame.parts = 1 .. N /\ End \in Nat
        /\ \A i \in 1 .. N : /\ start[i] \in Nat /\ start[i + 1] \in Nat
                             /\ frame.parts[i].size \in Nat /\ frame.parts[i].size > 0
                             /\ start[i + 1] = start[i] + frame.parts[i].size
                             /\ start[i + 1] <= End
    BY <1>2, ViewFacts
  <1>5. \A i \in 1 .. N : start[i] < End
    <2>1. ASSUME NEW i \in 1 .. N PROVE start[i] < End
      <3>1. /\ start[i] \in Nat /\ start[i + 1] \in Nat
            /\ frame.parts[i].size \in Nat /\ frame.parts[i].size > 0
            /\ start[i + 1] = start[i] + frame.parts[i].size
            /\ start[i + 1] <= End
        BY <1>4
      <3>2. QED
        BY <1>4, <3>1
    <2>2. QED
      BY <2>1
  <1>6. PICK t \in FrontTlv :
          IF Fails(p, t)
          THEN pc' = "deliver" /\ result' = "unexpected_format" /\ UNCHANGED << peer, sync >>
          ELSE /\ pc' = pc
               /\ StripTlv(t)
               /\ peer' = [peer EXCEPT ![frame.from] = Written(@, t)]
               /\ sync' = IF t.type = "sync" /\ frame.from = Master
                          THEN << Read(t, 1, 2), Read(t, 29, 2) >> ELSE sync
    BY DEF HandleTlv, Return
  <1>7. \/ \E i \in 1 .. N :
              /\ t = frame.parts[i] /\ stripped = start[i]
              /\ t.type \in TlvTypes /\ t = TlvOf(frame.meant, t.type) /\ Sized(t)
        \/ stripped = End /\ t.fields = << >> /\ t.length \in Nat
    BY <1>1, FrontTlvIs
  <1>8. CASE Fails(p, t)
    <2> SUFFICES ASSUME frame.meant.chanseq = None PROVE InvKnown'
      BY <1>1, <1>6, <1>8 DEF InvKnown
    <2>1. stripped = End
      BY <1>3, <1>7, <1>8, TlvFails
    <2>2. \A type \in TlvTypes : Has(frame.parts, type) => Passed(type)
      BY <1>4, <1>5, <2>1 DEF Has, Passed
    <2>3. \A type \in TlvTypes : Has(frame.parts, type) => Told(frame, p, sync, type)
      BY <1>2, <2>2
    <2>4. /\ pc' = "deliver" /\ result' = "unexpected_format" /\ UNCHANGED << peer, sync >>
      BY <1>6, <1>8
    <2>5. \A type \in TlvTypes :
             Has(frame'.parts, type) => Told(frame', peer'[frame'.from], sync', type)
      BY <1>1, <2>3, <2>4
    <2>6. QED
      BY <2>4, <2>5 DEF InvKnown
  <1>9. CASE ~Fails(p, t)
    <2> DEFINE q == Written(p, t)
    <2>1. /\ pc' = "tlvs" /\ StripTlv(t) /\ peer'[frame.from] = q
          /\ sync' = IF t.type = "sync" /\ frame.from = Master
                     THEN << Read(t, 1, 2), Read(t, 29, 2) >> ELSE sync
      BY <1>1, <1>2, <1>6, <1>9
    <2>2. stripped' = stripped + (TL + t.length)
      BY <2>1 DEF StripTlv, Strip
    <2> HIDE DEF q
    <2>3. ASSUME NEW i \in 1 .. N, t = frame.parts[i], stripped = start[i],
                 t.type \in TlvTypes, t = TlvOf(frame.meant, t.type), Sized(t),
                 NEW type \in TlvTypes, Passed(type)'
          PROVE  Told(frame, q, sync', type)
      <3>1. /\ Told(frame, q, sync', t.type)
            /\ \A other \in TlvTypes :
                  Told(frame, p, sync, other) => Told(frame, q, sync', other)
        <4>1. t.type = "chanseq" => frame.meant.chanseq = None
          BY <1>3, <1>9, <2>3, TlvFails
        <4>2. QED
          BY <1>2, <1>3, <2>1, <2>3, <4>1, WrittenTells DEF q
      <3>2. type = t.type \/ Passed(type)
        <4>1. PICK j \in 1 .. N : frame.parts[j].type = type /\ start[j] < stripped'
          BY <1>1, <1>4, <2>3 DEF Passed
        <4>2. stripped' = start[i + 1]
          BY <1>4, <2>2, <2>3 DEF Sized
        <4>3. j < i + 1
          <5>1. \A k, l \in 1 .. N + 1 : k < l => start[k] < start[l]
            BY <1>2 DEF Shape
          <5>2. /\ j \in 1 .. N + 1 /\ i + 1 \in 1 .. N + 1
                /\ start[j] \in Nat /\ start[i + 1] \in Nat
                /\ (j < i + 1 \/ j = i + 1 \/ i + 1 < j)
            BY <1>4
          <5>3. QED
            BY <4>1, <4>2, <5>1, <5>2
        <4>4. CASE j = i
          BY <2>3, <4>1, <4>4
        <4>5. CASE j # i
          <5>1. \A k, l \in 1 .. N + 1 : k < l => start[k] < start[l]
            BY <1>2 DEF Shape
          <5>2. j \in 1 .. N + 1 /\ i \in 1 .. N + 1 /\ j < i
            BY <1>4, <4>3, <4>5
          <5>3. start[j] < stripped
            BY <2>3, <5>1, <5>2
          <5>4. QED
            BY <1>4, <4>1, <5>3 DEF Passed
        <4>6. QED
          BY <4>4, <4>5
      <3>3. QED
        BY <1>2, <3>1, <3>2
    <2>4. ASSUME stripped = End, t.fields = << >>, NEW type \in TlvTypes, Passed(type)'
          PROVE  Told(frame, q, sync', type)
      <3>1. q = p /\ sync' = sync
        BY <1>9, <2>1, <2>4, TrailerWrites DEF q
      <3>2. Passed(type)
        BY <1>1, <1>4, <1>5, <2>4 DEF Passed
      <3>3. QED
        BY <1>2, <3>1, <3>2
    <2>5. \A type \in TlvTypes : Passed(type)' => Told(frame, q, sync', type)
      BY <1>7, <2>3, <2>4
    <2>6. QED
      BY <1>1, <2>1, <2>5 DEF InvKnown
  <1>10. QED
    BY <1>8, <1>9

\* The loop ends behind the last TLV.
LEMMA EndKnown ==
  ASSUME RxInv, EndOfTlvs
  PROVE  InvKnown'
  <1> DEFINE N == Len(frame.parts)
             p == peer[frame.from]
             q == Updated([p EXCEPT !.sent_mif = p.sent_mif \/ frame.mif])
  <1>1. /\ pc = "tlvs" /\ pc' = "deliver" /\ UNCHANGED << frame, start, sync >>
        /\ ~\E t \in FrontTlv : Complete(t)
        /\ \/ result' = "unexpected_format" /\ peer' = peer
           \/ result' = "ok" /\ peer' = [peer EXCEPT ![frame.from] = q]
    BY DEF EndOfTlvs, Return
  <1>2. /\ Shape(frame, start) /\ frame.kind = "action" /\ frame.from \in Station
        /\ PeerOf(p, frame.from) /\ DOMAIN peer = Station
        /\ stripped \in Nat /\ left \in Nat /\ stripped + left = End + frame.trailer.size
        /\ \/ \E i \in 1 .. N + 1 : stripped = start[i]
           \/ stripped > End
        /\ \A type \in TlvTypes : Passed(type) => Told(frame, p, sync, type)
    BY <1>1 DEF RxInv, InvFrame, InvPeer, InvKnown, InvView
  <1>3. /\ Announceable(frame.meant) /\ Has(frame.parts, "version")
        /\ \A i \in 1 .. N : /\ frame.parts[i].type \in TlvTypes
                             /\ frame.parts[i] = TlvOf(frame.meant, frame.parts[i].type)
    BY <1>2 DEF Shape, ActionFrameOf
  <1>4. /\ N \in Nat /\ DOMAIN frame.parts = 1 .. N /\ End \in Nat /\ End = start[N + 1]
        /\ frame.trailer.size \in {1, 4}
        /\ \A i \in 1 .. N : /\ start[i] \in Nat /\ start[i + 1] \in Nat
                             /\ frame.parts[i].size \in Nat /\ frame.parts[i].size > 0
                             /\ start[i + 1] = start[i] + frame.parts[i].size
                             /\ start[i + 1] <= End
                             /\ stripped = start[i] => PartHere = {i}
    BY <1>2, ViewFacts
  <1>5. ASSUME NEW i \in 1 .. N PROVE stripped # start[i] /\ start[i] < End
    <2>1. /\ start[i] \in Nat /\ start[i + 1] \in Nat
          /\ frame.parts[i].size \in Nat /\ frame.parts[i].size > 0
          /\ start[i + 1] = start[i] + frame.parts[i].size
          /\ start[i + 1] <= End
          /\ stripped = start[i] => PartHere = {i}
      BY <1>4
    <2>2. ASSUME stripped = start[i] PROVE FALSE
      <3>1. frame.parts[i] \in FrontTlv
        BY <2>1, <2>2 DEF FrontTlv
      <3>2. frame.parts[i].size = TL + frame.parts[i].length
        BY <1>3, TlvSized DEF Sized
      <3>3. stripped + left = End + frame.trailer.size /\ left \in Nat
        BY <1>2
      <3>4. frame.parts[i].size <= left
        <4> DEFINE size == frame.parts[i].size
                   rest == frame.trailer.size
        <4>1. /\ start[i] \in Nat /\ size \in Nat /\ start[i] + size <= End
              /\ End \in Nat /\ rest \in Nat /\ start[i] + left = End + rest
          <5>1. size \in Nat /\ start[i] + size <= End
            BY <2>1
          <5>2. rest \in Nat /\ End \in Nat
            BY <1>4
          <5>3. start[i] + left = End + rest
            BY <2>2, <3>3
          <5>4. QED
            BY <2>1, <5>1, <5>2, <5>3
        <4> HIDE DEF size, rest
        <4>2. size <= left
          BY <3>3, <4>1
        <4>3. QED
          BY <4>2 DEF size
      <3>5. QED
        BY <1>1, <3>1, <3>2, <3>4 DEF Complete
    <2>3. start[i] < End
      <3> DEFINE size == frame.parts[i].size
      <3>1. /\ start[i] \in Nat /\ size \in Nat /\ size > 0 /\ start[i] + size <= End
            /\ End \in Nat
        BY <1>4, <2>1
      <3> HIDE DEF size
      <3>2. QED
        BY <3>1
    <2>4. QED
      BY <2>2, <2>3
  <1>6. stripped >= End
    <2>1. \A i \in 1 .. N + 1 : i \in 1 .. N \/ i = N + 1
      BY <1>4
    <2>2. CASE \E i \in 1 .. N + 1 : stripped = start[i]
      BY <1>2, <1>4, <1>5, <2>1, <2>2
    <2>3. CASE stripped > End
      BY <1>2, <1>4, <2>3
    <2>4. QED
      BY <1>2, <2>2, <2>3
  <1>7. \A type \in TlvTypes : Has(frame.parts, type) => Told(frame, p, sync, type)
    <2>1. \A i \in 1 .. N : start[i] < stripped
      <3>1. ASSUME NEW i \in 1 .. N PROVE start[i] < stripped
        <4>1. start[i] \in Nat /\ start[i] < End
          BY <1>4, <1>5
        <4>2. QED
          BY <1>2, <1>4, <1>6, <4>1
      <3>2. QED
        BY <3>1
    <2>2. \A type \in TlvTypes : Has(frame.parts, type) => Passed(type)
      BY <1>4, <2>1 DEF Has, Passed
    <2>3. QED
      BY <1>2, <2>2
  <1>8. CASE result' = "unexpected_format" /\ peer' = peer
    BY <1>1, <1>7, <1>8 DEF InvKnown
  <1>9. CASE result' = "ok" /\ peer' = [peer EXCEPT ![frame.from] = q]
    <2>1. peer'[frame.from] = q
      BY <1>2, <1>9
    <2>2. DOMAIN p = PeerFields
      BY <1>2 DEF PeerOf
    <2>3. /\ q.election = p.election /\ q.supports_v2 = p.supports_v2
          /\ q.sequence = p.sequence /\ q.version = p.version
          /\ q.devclass = p.devclass /\ q.name = p.name
          /\ q.country_code = p.country_code /\ q.infra_addr = p.infra_addr
      BY <2>2 DEF Updated, PeerFields
    <2>4. q.is_valid = (p.is_valid \/ ((p.sent_mif \/ frame.mif) /\ p.version # 0 /\ p.devclass # 0))
      BY <2>2 DEF Updated, PeerFields
    <2>5. p.version # 0 /\ p.devclass # 0
      <3>1. Told(frame, p, sync, "version")
        BY <1>3, <1>7 DEF TlvTypes
      <3>2. QED
        BY <1>3, <3>1 DEF Told, Announceable
    <2> HIDE DEF q
    <2>6. frame.mif => q.is_valid
      BY <2>4, <2>5
    <2>7. \A type \in TlvTypes : Has(frame.parts, type) => Told(frame, q, sync, type)
      BY <1>7, <2>3 DEF Told
    <2>8. QED
      BY <1>1, <1>9, <2>1, <2>6, <2>7 DEF InvKnown
  <1>10. QED
    BY <1>1, <1>8, <1>9

\* Every step leaves what a record says true of its device.
LEMMA KnownStep ==
  ASSUME RxInv, [Next]_vars
  PROVE  InvKnown'
  <1>1. InvKnown /\ InvFrame
    BY DEF RxInv
  <1>2. ASSUME UNCHANGED << frame, start, stripped, peer, sync, result >>,
               pc' = pc \/ (pc = "deliver" /\ pc' = "done")
        PROVE  InvKnown'
    BY <1>1, <1>2 DEF InvKnown, Passed
  <1>3. ASSUME pc' # "tlvs",
               pc' \notin {"deliver", "done"} \/ frame'.kind # "action"
               \/ result' \notin {"ok", "unexpected_format"}
        PROVE  InvKnown'
    BY <1>3 DEF InvKnown
  <1>4. CASE UNCHANGED vars \/ Overrun
    BY <1>2, <1>4 DEF vars, Overrun
  <1>5. ASSUME NEW n \in DOMAIN OnAir, Receive(n) PROVE InvKnown'
    <2>1. LET refusal == Refusal(frame') IN
             /\ pc' = IF refusal = "none" THEN Kind(frame') ELSE "deliver"
             /\ result' = refusal
      BY <1>5 DEF Receive
    <2>2. Refusal(frame') \notin {"ok", "unexpected_format"} /\ Kind(frame') # "tlvs"
      BY DEF Refusal, Kind
    <2>3. QED
      BY <1>3, <2>1, <2>2
  <1>6. CASE FirstAdd
    <2>1. /\ pc = "action" /\ pc' = "tlvs" /\ UNCHANGED << frame, start, stripped >>
      BY <1>6 DEF FirstAdd
    <2>2. Shape(frame, start) /\ stripped = 0
      BY <2>1 DEF RxInv, InvFrame, InvView
    <2>3. ASSUME NEW type, Passed(type)' PROVE FALSE
      <3>1. PICK i \in DOMAIN frame.parts : start[i] < 0
        BY <2>1, <2>2, <2>3 DEF Passed
      <3>2. start[i] \in Nat
        BY <2>2, ViewFacts
      <3>3. QED
        BY <3>1, <3>2
    <2>4. QED
      BY <2>1, <2>3 DEF InvKnown
  <1>7. CASE HandleTlv
    BY <1>7, TlvKnown
  <1>8. CASE EndOfTlvs
    BY <1>8, EndKnown
  <1>9. CASE RxData
    <2>1. pc = "data" /\ pc' = "deliver" /\ frame' = frame
      BY <1>9 DEF RxData, Return
    <2>2. QED
      BY <1>1, <1>3, <2>1 DEF InvFrame
  <1>10. CASE Subframe
    <2>1. pc = "amsdu" /\ pc' \in {"amsdu", "overrun", "deliver"} /\ frame' = frame
      BY <1>10 DEF Subframe, Return
    <2>2. QED
      BY <1>1, <1>3, <2>1 DEF InvFrame
  <1>11. CASE EndOfSubframes
    <2>1. pc = "amsdu" /\ pc' = "deliver" /\ frame' = frame
      BY <1>11 DEF EndOfSubframes, Return
    <2>2. QED
      BY <1>1, <1>3, <2>1 DEF InvFrame
  <1>12. CASE Deliver
    BY <1>2, <1>12 DEF Deliver
  <1>13. CASE Done
    <2>1. pc' = "idle"
      BY <1>13 DEF Done
    <2>2. QED
      BY <1>3, <2>1
  <1>14. CASE CreateNetif
    BY <1>2, <1>14 DEF CreateNetif
  <1>15. ASSUME NEW s \in Station, Forget(s) PROVE InvKnown'
    <2>1. pc' = "idle"
      BY <1>15 DEF Forget
    <2>2. QED
      BY <1>3, <2>1
  <1>16. QED
    BY <1>4, <1>5, <1>6, <1>7, <1>8, <1>9, <1>10, <1>11, <1>12, <1>13, <1>14, <1>15
       DEF Next, Process

\* RxInv is an invariant.
LEMMA Invariant ==
  Spec => []RxInv
  <1>1. Init => RxInv
    BY InitInv
  <1>2. RxInv /\ [Next]_vars => RxInv'
    <2>1. ASSUME RxInv, [Next]_vars PROVE RxInv'
      <3>1. InvFrame' /\ InvView' /\ InvPeer'
        BY <2>1, FrameStep, ViewStep, PeerStep
      <3>2. InvOut' /\ InvLive' /\ InvKnown'
        BY <2>1, OutStep, KnownStep
      <3>3. QED
        BY <3>1, <3>2 DEF RxInv
    <2>2. QED
      BY <2>1
  <1>3. QED
    BY <1>1, <1>2, PTL DEF Spec

-----------------------------------------------------------------------------
\* Type correctness: of any frame the view stays inside it, and a packet that is used
\* later is one of the MAX_NUM_AMPDU that data_arr has room for (rx.c:409, capture.c:424).
THEOREM RxTypeCorrect ==
  Spec => []TypeOK
  <1>1. RxInv => TypeOK
    <2> SUFFICES ASSUME RxInv PROVE TypeOK
      OBVIOUS
    <2>1. InvFrame /\ InvView /\ InvPeer /\ InvOut /\ InvLive
      BY DEF RxInv
    <2>2. pc # "idle" => Shape(frame, start)
      BY <2>1 DEF InvFrame
    <2>3. pc # "idle" <=> frame # None
      BY <2>1, <2>2 DEF InvFrame, Shape
    <2>4. \A s \in Station : peer[s] # None => peer[s].election.self_addr = s
      BY <2>1 DEF InvPeer, PeerOf
    <2>5. /\ Len(out) \in Nat /\ DOMAIN out = 1 .. Len(out)
          /\ \A i \in DOMAIN out : out[i] \in PacketType
      BY <2>1, LenProperties, ElementOfSeq DEF InvOut
    <2>6. \A i \in DOMAIN out : i \in 1 .. MaxOut
      <3>1. Len(out) <= MaxOut
        BY <2>1 DEF InvOut
      <3>2. QED
        BY <2>5, <3>1, RxConstants
    <2>7. \A i \in DOMAIN out : out[i].len \in 0 .. ByteWord - 1
      BY <2>5 DEF PacketType
    <2>8. live \subseteq {TheFrame, TheSubframe} \cup { TheData(i) : i \in 1 .. MaxOut }
      <3>1. pc \notin {"idle", "done"} => live = {TheFrame} \cup { TheData(j) : j \in DOMAIN out }
        BY <2>1 DEF InvLive
      <3>2. pc = "done" => live \subseteq { TheData(j) : j \in DOMAIN out }
        BY <2>1 DEF InvLive
      <3>3. pc = "idle" => live = {}
        BY <2>1 DEF InvFrame
      <3>4. { TheData(j) : j \in DOMAIN out } \subseteq { TheData(i) : i \in 1 .. MaxOut }
        BY <2>6
      <3>5. QED
        BY <3>1, <3>2, <3>3, <3>4
    <2>9. QED
      BY <2>1, <2>3, <2>4, <2>7, <2>8 DEF TypeOK, InvFrame, InvView
  <1>2. QED
    BY <1>1, Invariant, PTL

\* The parsers stand where the builders have begun a part, in every round, for every
\* order of the TLVs and every length of the subframes (rx.c:299, 409; tx.c).
THEOREM RxInStep ==
  Spec => []InStep
  <1>1. RxInv => InStep
    <2> SUFFICES ASSUME RxInv PROVE InStep
      OBVIOUS
    <2>1. InvFrame /\ InvView
      BY DEF RxInv
    <2>2. ASSUME pc = "tlvs"
          PROVE  \/ PartHere # {}
                 \/ stripped = End
                 \/ stripped > End /\ frame.trailer.tlv # None
      <3>1. Shape(frame, start)
        BY <2>1, <2>2 DEF InvFrame
      <3>2. /\ Len(frame.parts) \in Nat /\ End = start[Len(frame.parts) + 1]
            /\ \A i \in 1 .. Len(frame.parts) : stripped = start[i] => PartHere = {i}
        BY <3>1, ViewFacts
      <3>3. \A i \in 1 .. Len(frame.parts) + 1 :
               i \in 1 .. Len(frame.parts) \/ i = Len(frame.parts) + 1
        BY <3>2
      <3>4. QED
        BY <2>1, <2>2, <3>2, <3>3 DEF InvView
    <2>3. ASSUME pc = "amsdu", left >= SubHeaderSize PROVE PartHere # {}
      <3>1. Shape(frame, start)
        BY <2>1, <2>3 DEF InvFrame
      <3>2. \E i \in 1 .. Len(frame.parts) : stripped = start[i]
        BY <2>1, <2>3 DEF InvView, SubHeaderSize
      <3>3. QED
        BY <3>1, <3>2, ViewFacts
    <2>4. QED
      BY <2>2, <2>3 DEF InStep
  <1>2. QED
    BY <1>1, Invariant, PTL

\* A node understands every action frame of its own make, and what it can of others:
\* the offsets of the parsers (rx.c:31-201) are those of the structs the builders
\* pack (tx.c:103-272), whichever TLVs a frame has and in whatever order.
THEOREM RxUnderstood ==
  Spec => []Understood
  <1>1. RxInv => Understood
    <2> SUFFICES ASSUME RxInv, pc = "done", frame.kind = "action",
                        result \in {"ok", "unexpected_format"}
                 PROVE  Understood
      BY DEF Understood
    <2> DEFINE p == peer[frame.from]
               s == frame.meant
    <2>0. result = "ok" => s.chanseq = None
      <3>1. ASSUME result = "ok" PROVE Told(frame, p, sync, "chanseq")
        <4>1. Has(frame.parts, "chanseq") /\ "chanseq" \in TlvTypes
          BY DEF RxInv, InvFrame, Shape, ActionFrameOf, TlvTypes
        <4>2. \A type \in TlvTypes : Has(frame.parts, type) => Told(frame, p, sync, type)
          BY <3>1 DEF RxInv, InvKnown
        <4>3. QED
          BY <4>1, <4>2
      <3>2. QED
        BY <3>1 DEF Told
    <2> SUFFICES ASSUME s.chanseq = None PROVE Understood
      BY <2>0 DEF Understood
    <2>1. /\ \A type \in TlvTypes : Has(frame.parts, type) => Told(frame, p, sync, type)
          /\ frame.mif /\ result = "ok" => p.is_valid
      BY DEF RxInv, InvKnown
    <2>2. ActionFrameOf(frame)
      BY DEF RxInv, InvFrame, Shape
    <2>3. /\ Told(frame, p, sync, "sync") /\ Told(frame, p, sync, "chanseq")
          /\ Told(frame, p, sync, "data_path") /\ Told(frame, p, sync, "version")
          /\ frame.v2 => Told(frame, p, sync, "election_v2")
          /\ ~frame.v2 => Told(frame, p, sync, "election")
          /\ frame.mif => Told(frame, p, sync, "arpa")
      BY <2>1, <2>2 DEF ActionFrameOf, TlvTypes
    <2>4. s.enc \in { "simple", "legacy", "opclass" }
      BY <2>2 DEF ActionFrameOf, Announceable
    <2>5. s.enc # "legacy" =>
             \A i \in 1 .. SeqLength :
                ChanNum(p.sequence[i], "opclass") = ChanNum(s.sequence[i], s.enc)
      BY <2>3 DEF Told, ChanNum
    <2>6. frame.v2 => p.supports_v2 /\ p.election = s.election
      BY <2>3 DEF Told
    <2>7. ~p.supports_v2 => /\ p.election.height = s.election.height % ByteWord
                            /\ p.election.master_addr = s.election.master_addr
                            /\ p.election.master_metric = s.election.master_metric
      BY <2>3, <2>6 DEF Told
    <2>8. /\ p.country_code = s.country_code
          /\ s.infra_addr # None => p.infra_addr = s.infra_addr
          /\ p.version = s.version /\ p.devclass = s.devclass
          /\ frame.mif => p.name = s.name
          /\ frame.from = Master => sync = << s.tx_down_counter, s.next_aw_seq >>
      BY <2>3 DEF Told
    <2> HIDE DEF p, s
    <2>9. QED
      BY <2>1, <2>5, <2>6, <2>7, <2>8 DEF Understood, p, s
  <1>2. QED
    BY <1>1, Invariant, PTL

\* For payloads of any length and any number of subframes: what reaches lwIP, of a
\* frame that is not an A-MSDU exactly its payload % 256 first bytes, or as many bytes
\* of the heap where the payload has no room in a packet (rx.c:388, 397, 399).
THEOREM RxDelivered ==
  Spec => []Delivered
  <1>1. RxInv => Delivered
    <2> SUFFICES ASSUME RxInv, pc = "done" PROVE Delivered
      BY DEF Delivered
    <2>1. InvFrame /\ InvOut
      BY DEF RxInv
    <2>2. /\ out \in Seq(PacketType) /\ \A j \in 1 .. Len(out) : FromPart(out[j])
          /\ packet = IF out # << >> /\ netif THEN Head(out) ELSE None
      BY <2>1 DEF InvOut
    <2>3. out # << >> => /\ Head(out) = out[1] /\ 1 \in 1 .. Len(out)
                         /\ Head(out) \in PacketType
      BY <2>2, HeadTailProperties, LenProperties
    <2>4. packet # None =>
             LET p == frame.parts[packet.part] IN
             /\ peer[p.src] # None
             /\ packet.len <= p.payload
             /\ packet.copied \/ PacketHeader + p.payload > EtherMax
      BY <2>2, <2>3 DEF FromPart, Welcome
    <2>5. ASSUME Refusal(frame) = "none", Kind(frame) = "data", netif,
                 peer[frame.from] # None, frame.parts[1].llc
          PROVE  LET payload == frame.parts[1].payload IN
                 /\ packet # None
                 /\ packet.len = payload % ByteWord
                 /\ packet.copied <=> PacketHeader + payload <= EtherMax
      <3>1. LET payload == frame.parts[1].payload IN
            /\ out # << >> /\ out[1].len = payload % ByteWord
            /\ out[1].copied <=> PacketHeader + payload <= EtherMax
        BY <2>1, <2>5 DEF InvOut
      <3>2. None \notin PacketType
        BY RxAssumption DEF RxAssumption, PacketType
      <3>3. packet # None /\ packet = out[1]
        BY <2>2, <2>3, <2>5, <3>1, <3>2
      <3>4. QED
        BY <3>1, <3>3
    <2>6. QED
      BY <2>4, <2>5 DEF Delivered
  <1>2. QED
    BY <1>1, Invariant, PTL

\* For frames with any number of subframes: data_arr is run over only by more than
\* MAX_NUM_AMPDU of them from peers the node knows (rx.c:401, capture.c:424).
THEOREM RxOverrunOnlyBeyond ==
  Spec => []OverrunOnlyBeyond
  <1>1. RxInv => OverrunOnlyBeyond
    <2> SUFFICES ASSUME RxInv, pc = "overrun" PROVE Cardinality(Welcome) > MaxOut
      BY DEF OverrunOnlyBeyond
    <2>1. /\ Shape(frame, start) /\ out \in Seq(PacketType) /\ Len(out) = MaxOut
          /\ \A j \in 1 .. Len(out) : FromPart(out[j])
          /\ \A j, k \in 1 .. Len(out) : j < k => out[j].part < out[k].part
      BY DEF RxInv, InvFrame, InvOut
    <2>2. PICK i \in Welcome : Before(i)
      BY DEF RxInv, InvOut
    <2>3. /\ DOMAIN frame.parts = 1 .. Len(frame.parts) /\ Len(frame.parts) \in Nat
          /\ MaxOut \in Nat /\ i \in Nat
          /\ \A j \in 1 .. MaxOut : out[j].part \in Nat /\ out[j].part \in Welcome
      BY <2>1, <2>2, ViewFacts, RxConstants, ElementOfSeq DEF FromPart, Welcome, PacketType
    <2> DEFINE part == [j \in 1 .. MaxOut + 1 |-> IF j <= MaxOut THEN out[j].part ELSE i]
    <2>4. part \in [1 .. MaxOut + 1 -> Welcome]
      BY <2>2, <2>3
    <2>5. ASSUME NEW j \in 1 .. MaxOut + 1, NEW k \in 1 .. MaxOut + 1, j < k
          PROVE  part[j] # part[k]
      <3>1. j \in 1 .. MaxOut /\ part[j] = out[j].part
        BY <2>3, <2>5
      <3>2. CASE k <= MaxOut
        <4>1. k \in 1 .. MaxOut /\ part[k] = out[k].part
          BY <2>3, <3>2
        <4>2. out[j].part < out[k].part
          BY <2>1, <2>5, <3>1, <4>1
        <4>3. QED
          BY <2>3, <3>1, <4>1, <4>2
      <3>3. CASE ~(k <= MaxOut)
        <4>1. part[k] = i /\ out[j].part < i
          BY <2>1, <2>2, <3>1, <3>3 DEF Before
        <4>2. QED
          BY <2>3, <3>1, <4>1
      <3>4. QED
        BY <3>2, <3>3
    <2>6. part \in Injection(1 .. MaxOut + 1, Welcome)
      <3> HIDE DEF part
      <3>1. \A j, k \in 1 .. MaxOut + 1 : j < k \/ k < j \/ j = k
        BY <2>3
      <3>2. QED
        BY <2>4, <2>5, <3>1 DEF Injection, IsInjective
    <2>7. IsFiniteSet(Welcome)
      <3>1. IsFiniteSet(1 .. Len(frame.parts)) /\ Welcome \subseteq 1 .. Len(frame.parts)
        BY <2>3, FS_Interval DEF Welcome
      <3>2. QED
        BY <3>1, FS_Subset
    <2>8. Cardinality(1 .. MaxOut + 1) = MaxOut + 1
      BY <2>3, FS_Interval
    <2>9. Cardinality(1 .. MaxOut + 1) <= Cardinality(Welcome) /\ Cardinality(Welcome) \in Nat
      BY <2>6, <2>7, FS_Injection, FS_CardinalityType
    <2>10. QED
      BY <2>3, <2>8, <2>9
  <1>2. QED
    BY <1>1, Invariant, PTL

\* However a frame is left, its blocks have been freed but for the packets after the
\* first (capture.c:446) and, without an interface, the first (capture.c:458).
THEOREM RxBlocksFreed ==
  Spec => []BlocksFreed
  <1>1. RxInv => BlocksFreed
    <2> SUFFICES ASSUME RxInv PROVE BlocksFreed
      OBVIOUS
    <2>1. InvOut /\ InvLive
      BY DEF RxInv
    <2>2. ASSUME pc = "deliver", out # << >> PROVE TheData(1) \in live
      <3>1. 1 \in DOMAIN out
        <4>1. out \in Seq(PacketType)
          BY <2>1 DEF InvOut
        <4>2. QED
          BY <2>2, <4>1, LenProperties, EmptySeq
      <3>2. live = {TheFrame} \cup { TheData(j) : j \in DOMAIN out }
        BY <2>1, <2>2 DEF InvLive
      <3>3. QED
        BY <3>1, <3>2
    <2>3. QED
      BY <2>1, <2>2 DEF BlocksFreed, InvLive
  <1>2. QED
    BY <1>1, Invariant, PTL

\* Five TLVs and two, seven TLVs and two.
LEMMA Join52 ==
  ASSUME NEW x1, NEW x2, NEW x3, NEW x4, NEW x5, NEW x6, NEW x7
  PROVE  << x1, x2, x3, x4, x5 >> \o << x6, x7 >>
         = << x1, x2, x3, x4, x5, x6, x7 >>
  <1> DEFINE S == { x1, x2, x3, x4, x5, x6, x7 }
             a == << x1, x2, x3, x4, x5 >>
             b == << x6, x7 >>
             h == a \o b
             g == << x1, x2, x3, x4, x5, x6, x7 >>
  <1>1. /\ a \in Seq(S) /\ b \in Seq(S) /\ Len(a) = 5 /\ Len(b) = 2
        /\ a[1] = x1 /\ a[2] = x2 /\ a[3] = x3 /\ a[4] = x4 /\ a[5] = x5
        /\ b[1] = x6 /\ b[2] = x7
    OBVIOUS
  <1> HIDE DEF S, a, b
  <1>2. h \in Seq(S) /\ Len(h) = 7 /\ \A i \in 1 .. 7 : h[i] = IF i <= 5 THEN a[i] ELSE b[i - 5]
    <2>1. /\ h \in Seq(S) /\ Len(h) = Len(a) + Len(b)
          /\ \A i \in 1 .. Len(a) + Len(b) : h[i] = IF i <= Len(a) THEN a[i] ELSE b[i - Len(a)]
      BY <1>1, ConcatProperties
    <2>2. QED
      BY <1>1, <2>1
  <1> HIDE DEF h
  <1>3. h = [i \in 1 .. 7 |-> h[i]]
    BY <1>2, LenProperties
  <1>4. /\ h[1] = x1 /\ h[2] = x2 /\ h[3] = x3 /\ h[4] = x4 /\ h[5] = x5
        /\ h[6] = x6 /\ h[7] = x7
    BY <1>1, <1>2
  <1>5. h = g
    BY <1>3, <1>4
  <1>6. QED
    BY <1>5 DEF h, a, b

\* The same of seven and two.
LEMMA Join72 ==
  ASSUME NEW x1, NEW x2, NEW x3, NEW x4, NEW x5, NEW x6, NEW x7, NEW x8, NEW x9
  PROVE  << x1, x2, x3, x4, x5, x6, x7 >> \o << x8, x9 >>
         = << x1, x2, x3, x4, x5, x6, x7, x8, x9 >>
  <1> DEFINE S == { x1, x2, x3, x4, x5, x6, x7, x8, x9 }
             a == << x1, x2, x3, x4, x5, x6, x7 >>
             b == << x8, x9 >>
             h == a \o b
             g == << x1, x2, x3, x4, x5, x6, x7, x8, x9 >>
  <1>1. /\ a \in Seq(S) /\ b \in Seq(S) /\ Len(a) = 7 /\ Len(b) = 2
        /\ a[1] = x1 /\ a[2] = x2 /\ a[3] = x3 /\ a[4] = x4 /\ a[5] = x5 /\ a[6] = x6 /\ a[7] = x7
        /\ b[1] = x8 /\ b[2] = x9
    OBVIOUS
  <1> HIDE DEF S, a, b
  <1>2. h \in Seq(S) /\ Len(h) = 9 /\ \A i \in 1 .. 9 : h[i] = IF i <= 7 THEN a[i] ELSE b[i - 7]
    <2>1. /\ h \in Seq(S) /\ Len(h) = Len(a) + Len(b)
          /\ \A i \in 1 .. Len(a) + Len(b) : h[i] = IF i <= Len(a) THEN a[i] ELSE b[i - Len(a)]
      BY <1>1, ConcatProperties
    <2>2. QED
      BY <1>1, <2>1
  <1> HIDE DEF h
  <1>3. h = [i \in 1 .. 9 |-> h[i]]
    BY <1>2, LenProperties
  <1>4. /\ h[1] = x1 /\ h[2] = x2 /\ h[3] = x3 /\ h[4] = x4 /\ h[5] = x5 /\ h[6] = x6 /\ h[7] = x7
        /\ h[8] = x8 /\ h[9] = x9
    BY <1>1, <1>2
  <1>5. h = g
    BY <1>3, <1>4
  <1>6. QED
    BY <1>5 DEF h, a, b

\* The frames this firmware builds are among those the theorems are about
\* (awdl_init_full_action_frame, tx.c:274-313).
THEOREM OwnFrameUnderstood ==
  ASSUME NEW f, Announceable(f.meant), f.meant.election.self_addr = f.from,
         f.meant.infra_addr = None, f.meant.chanseq = None, f.mif \in BOOLEAN, f.v2 = TRUE,
         f.parts = FullActionFrame(f.meant, f.mif)
  PROVE  ActionFrameOf(f)
  <1> DEFINE s == f.meant
             a == << SyncParamsTlv(s), ElectionParamsTlv(s), ChanseqTlv(s),
                     ElectionParamsV2Tlv(s), ServiceParamsTlv >>
             b == << DataPathStateTlv(s), VersionTlv(s) >>
             m == << HtCapabilitiesTlv, ArpaTlv(s) >>
  <1>1. /\ \A type \in TlvTypes : TlvOf(s, type).type = type
        /\ TlvOf(s, "data_path") = DataPathStateTlv(s)
    <2>1. \A type \in TlvTypes : TlvOf(s, type).type = type
      BY TlvSized
    <2>2. TlvOf(s, "data_path") = DataPathStateTlv(s)
      BY DEF TlvOf
    <2>3. QED
      BY <2>1, <2>2
  <1>2. /\ SyncParamsTlv(s) = TlvOf(s, "sync") /\ ElectionParamsTlv(s) = TlvOf(s, "election")
        /\ ChanseqTlv(s) = TlvOf(s, "chanseq")
        /\ ElectionParamsV2Tlv(s) = TlvOf(s, "election_v2")
        /\ ServiceParamsTlv = TlvOf(s, "service") /\ HtCapabilitiesTlv = TlvOf(s, "ht")
        /\ ArpaTlv(s) = TlvOf(s, "arpa") /\ DataPathStateTlv(s) = TlvOf(s, "data_path")
        /\ VersionTlv(s) = TlvOf(s, "version")
    BY <1>1 DEF TlvOf
  <1> DEFINE types == IF f.mif
                      THEN << "sync", "election", "chanseq", "election_v2", "service",
                              "ht", "arpa", "data_path", "version" >>
                      ELSE << "sync", "election", "chanseq", "election_v2", "service",
                              "data_path", "version" >>
             N == IF f.mif THEN 9 ELSE 7
  <1>3. f.parts = [i \in 1 .. N |-> TlvOf(s, types[i])]
    <2>1. CASE f.mif
      <3>1. f.parts = a \o m \o b
        BY <2>1 DEF FullActionFrame
      <3>2. a \o m =  << SyncParamsTlv(s), ElectionParamsTlv(s), ChanseqTlv(s),
                     ElectionParamsV2Tlv(s), ServiceParamsTlv, HtCapabilitiesTlv, ArpaTlv(s) >>
        BY Join52
      <3>3. a \o m \o b = << SyncParamsTlv(s), ElectionParamsTlv(s), ChanseqTlv(s),
                     ElectionParamsV2Tlv(s), ServiceParamsTlv, HtCapabilitiesTlv, ArpaTlv(s),
                     DataPathStateTlv(s), VersionTlv(s) >>
        <4>1. << SyncParamsTlv(s), ElectionParamsTlv(s), ChanseqTlv(s),
                 ElectionParamsV2Tlv(s), ServiceParamsTlv, HtCapabilitiesTlv, ArpaTlv(s) >> \o b
              = << SyncParamsTlv(s), ElectionParamsTlv(s), ChanseqTlv(s),
                   ElectionParamsV2Tlv(s), ServiceParamsTlv, HtCapabilitiesTlv, ArpaTlv(s),
                   DataPathStateTlv(s), VersionTlv(s) >>
          BY Join72
        <4> HIDE DEF a, b, m
        <4>2. QED
          BY <3>2, <4>1
      <3> DEFINE g == [i \in 1 .. N |-> TlvOf(s, types[i])]
      <3>4. N = 9 /\ types = << "sync", "election", "chanseq", "election_v2", "service",
                                "ht", "arpa", "data_path", "version" >>
        BY <2>1
      <3> HIDE DEF N, types
      <3>5. /\ g = [i \in 1 .. 9 |-> g[i]]
            /\ g[1] = SyncParamsTlv(s) /\ g[2] = ElectionParamsTlv(s) /\ g[3] = ChanseqTlv(s)
            /\ g[4] = ElectionParamsV2Tlv(s) /\ g[5] = ServiceParamsTlv
            /\ g[6] = HtCapabilitiesTlv /\ g[7] = ArpaTlv(s)
            /\ g[8] = DataPathStateTlv(s) /\ g[9] = VersionTlv(s)
        BY <1>2, <3>4
      <3> HIDE DEF g
      <3>6. f.parts = g
        BY <3>1, <3>3, <3>5
      <3>7. QED
        BY <3>6 DEF g
    <2>2. CASE ~f.mif
      <3>1. f.parts = a \o << >> \o b
        BY <2>2 DEF FullActionFrame
      <3>2. a \o << >> = a
        OBVIOUS
      <3>3. a \o << >> \o b = << SyncParamsTlv(s), ElectionParamsTlv(s), ChanseqTlv(s),
                     ElectionParamsV2Tlv(s), ServiceParamsTlv, DataPathStateTlv(s),
                     VersionTlv(s) >>
        BY <3>2, Join52
      <3>4. QED
        BY <1>2, <2>2, <3>1, <3>3
    <2>3. QED
      BY <2>1, <2>2
  <1>4. \A i \in 1 .. N : types[i] \in TlvTypes
    BY DEF TlvTypes
  <1> HIDE DEF types, N
  <1>5. /\ DOMAIN f.parts = 1 .. N
        /\ \A i \in 1 .. N : f.parts[i] = TlvOf(s, types[i]) /\ f.parts[i].type = types[i]
    BY <1>1, <1>3, <1>4
  <1>6. /\ \E i \in 1 .. N : types[i] = "sync"
        /\ \E i \in 1 .. N : types[i] = "chanseq"
        /\ \E i \in 1 .. N : types[i] = "election_v2"
        /\ \E i \in 1 .. N : types[i] = "data_path"
        /\ \E i \in 1 .. N : types[i] = "version"
        /\ f.mif => \E i \in 1 .. N : types[i] = "arpa"
    <2>1. /\ 1 \in 1 .. N /\ 3 \in 1 .. N /\ 4 \in 1 .. N /\ N - 1 \in 1 .. N /\ N \in 1 .. N
          /\ f.mif => 7 \in 1 .. N
      BY DEF N
    <2>2. /\ types[1] = "sync" /\ types[3] = "chanseq" /\ types[4] = "election_v2"
          /\ types[N - 1] = "data_path" /\ types[N] = "version"
          /\ f.mif => types[7] = "arpa"
      BY DEF types, N
    <2>3. QED
      BY <2>1, <2>2
  <1>7. QED
    BY <1>4, <1>5, <1>6 DEF ActionFrameOf, Has
=============================================================================
