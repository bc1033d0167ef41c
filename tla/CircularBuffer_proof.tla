------------------------ MODULE CircularBuffer_proof ------------------------
(***************************************************************************)
(* Proof that the circular buffer implements the bounded queue, for every  *)
(* size and every set of pointers.                                         *)
(***************************************************************************)
EXTENDS CircularBuffer, SequenceTheorems, TLAPS

BufInv == TypeOK /\ Sound

\* The reckoning of circular_buf_size stays within the buffer.
LEMMA LengthType ==
    ASSUME BufInv
    PROVE  /\ Size \in Nat \ {0}
           /\ Length \in 0 .. Size
           /\ \A k \in 0 .. Size - 1 : Slot(k) \in Index
           /\ Empty <=> Length = 0
           /\ full <=> Length = Size
  BY BufferAssumption DEF BufInv, TypeOK, Sound, Length, Slot, Index, Empty

\* The items are a sequence of pointers that were put.
LEMMA ItemsType ==
    ASSUME BufInv
    PROVE  /\ Items \in Seq(Data)
           /\ Len(Items) = Length
           /\ \A k \in 1 .. Length : Items[k] = buffer[Slot(k - 1)]
  <1>1. Length \in Nat
    BY LengthType
  <1>2. \A k \in 1 .. Length : buffer[Slot(k - 1)] \in Data
    BY <1>1 DEF BufInv, Sound
  <1>3. Items \in [1 .. Length -> Data]
    BY <1>2 DEF Items
  <1>4. Items \in Seq(Data)
    BY <1>1, <1>3, SeqDef
  <1>5. Len(Items) = Length
    BY <1>1, <1>3, <1>4, LenProperties
  <1>6. QED
    BY <1>4, <1>5 DEF Items

\* Putting into a buffer that is not full adds a slot behind the others.
LEMMA PutSlots ==
    ASSUME BufInv, NEW d \in Data, NEW n, n = Length, ~full,
           buffer' = [buffer EXCEPT ![head] = d], AdvancePointer
    PROVE  /\ BufInv'
           /\ Length' = n + 1
           /\ \A k \in 0 .. n - 1 : buffer'[Slot(k)'] = buffer[Slot(k)]
           /\ buffer'[Slot(n)'] = d
  <1>1. /\ Size \in Nat \ {0} /\ head \in Index /\ tail \in Index
        /\ buffer \in [Index -> Data \cup {Unset}]
        /\ n \in 0 .. Size - 1
    BY LengthType DEF BufInv, TypeOK
  <1>2. tail' = tail /\ head' = Succ(head) /\ full' = (head' = tail')
    BY DEF AdvancePointer
  <1>3. n = IF head >= tail THEN head - tail ELSE Size + head - tail
    BY DEF Length
  <1>4. TypeOK'
    BY <1>1, <1>2 DEF TypeOK, Index, Succ
  <1>5. Length' = n + 1
    <2>1. CASE head' = tail'
      <3>1. full'
        BY <1>2, <2>1
      <3>2. n + 1 = Size
        BY <1>1, <1>2, <1>3, <2>1 DEF Succ, Index
      <3>3. QED
        BY <3>1, <3>2 DEF Length
    <2>2. CASE head' # tail'
      <3>1. ~full'
        BY <1>2, <2>2
      <3>2. n + 1 = IF head' >= tail' THEN head' - tail' ELSE Size + head' - tail'
        BY <1>1, <1>2, <1>3, <2>2 DEF Succ, Index
      <3>3. QED
        BY <3>1, <3>2 DEF Length
    <2>3. QED
      BY <2>1, <2>2
  <1>6. \A k \in 0 .. n - 1 : Slot(k)' = Slot(k) /\ Slot(k) # head /\ Slot(k) \in Index
    BY <1>1, <1>2, <1>3 DEF Slot, Index
  <1>7. Slot(n)' = head
    BY <1>1, <1>2, <1>3 DEF Slot, Index
  <1>8. \A k \in 0 .. n - 1 : /\ buffer'[Slot(k)'] = buffer[Slot(k)]
                              /\ buffer[Slot(k)] \in Data
    BY <1>1, <1>6 DEF BufInv, Sound
  <1>9. buffer'[Slot(n)'] = d
    BY <1>1, <1>7
  <1>10. \A k \in 0 .. Length' - 1 : k = n \/ k \in 0 .. n - 1
    BY <1>1, <1>5
  <1>11. Sound'
    BY <1>2, <1>8, <1>9, <1>10 DEF Sound
  <1>12. QED
    BY <1>4, <1>5, <1>8, <1>9, <1>11 DEF BufInv

\* Putting into a full buffer gives up the oldest slot for the newest.
LEMMA OverwriteSlots ==
    ASSUME BufInv, NEW d \in Data, full,
           buffer' = [buffer EXCEPT ![head] = d], AdvancePointer
    PROVE  /\ BufInv'
           /\ Length = Size /\ Length' = Size
           /\ \A k \in 0 .. Size - 2 : buffer'[Slot(k)'] = buffer[Slot(k + 1)]
           /\ buffer'[Slot(Size - 1)'] = d
  <1>1. /\ Size \in Nat \ {0} /\ head \in Index /\ tail = head
        /\ buffer \in [Index -> Data \cup {Unset}]
        /\ Length = Size
    BY LengthType DEF BufInv, TypeOK, Sound
  <1>2. tail' = Succ(tail) /\ head' = Succ(head) /\ full'
    BY <1>1 DEF AdvancePointer
  <1>3. TypeOK'
    BY <1>1, <1>2 DEF TypeOK, Index, Succ, AdvancePointer
  <1>4. Length' = Size
    BY <1>2 DEF Length
  <1>5. \A k \in 0 .. Size - 2 :
           Slot(k)' = Slot(k + 1) /\ Slot(k + 1) # head /\ Slot(k + 1) \in Index
    BY <1>1, <1>2 DEF Slot, Index, Succ
  <1>6. Slot(Size - 1)' = head
    BY <1>1, <1>2 DEF Slot, Index, Succ
  <1>7. \A k \in 0 .. Size - 2 : /\ buffer'[Slot(k)'] = buffer[Slot(k + 1)]
                                 /\ buffer[Slot(k + 1)] \in Data
    BY <1>1, <1>5 DEF BufInv, Sound
  <1>8. buffer'[Slot(Size - 1)'] = d
    BY <1>1, <1>6
  <1>9. \A k \in 0 .. Size - 1 : k = Size - 1 \/ k \in 0 .. Size - 2
    BY <1>1
  <1>10. Sound'
    BY <1>1, <1>2, <1>4, <1>7, <1>8, <1>9 DEF Sound
  <1>11. QED
    BY <1>1, <1>3, <1>4, <1>7, <1>8, <1>10 DEF BufInv

\* Taking an item gives up the oldest slot and no other.
LEMMA RetreatSlots ==
    ASSUME BufInv, NEW n, n = Length, ~Empty, buffer' = buffer, RetreatPointer
    PROVE  /\ BufInv'
           /\ n \in 1 .. Size /\ Length' = n - 1
           /\ \A k \in 0 .. n - 2 : buffer'[Slot(k)'] = buffer[Slot(k + 1)]
           /\ buffer[tail] = buffer[Slot(0)]
  <1>1. /\ Size \in Nat \ {0} /\ head \in Index /\ tail \in Index
        /\ n \in 1 .. Size /\ (full => head = tail)
    BY LengthType DEF BufInv, TypeOK, Sound
  <1>2. tail' = Succ(tail) /\ head' = head /\ ~full'
    BY DEF RetreatPointer
  <1>3. n = IF full THEN Size
            ELSE IF head >= tail THEN head - tail ELSE Size + head - tail
    BY DEF Length
  <1>4. TypeOK'
    <2>1. buffer' \in [Index -> Data \cup {Unset}] /\ full' \in BOOLEAN
      BY DEF BufInv, TypeOK, RetreatPointer
    <2>2. head' \in Index /\ tail' \in Index
      BY <1>1, <1>2 DEF Index, Succ
    <2>3. QED
      BY <2>1, <2>2 DEF TypeOK
  <1>5. Length' = n - 1
    BY <1>1, <1>2, <1>3 DEF Length, Succ, Index
  <1>6. \A k \in 0 .. n - 2 : Slot(k)' = Slot(k + 1)
    BY <1>1, <1>2 DEF Slot, Index, Succ
  <1>7. \A k \in 0 .. n - 2 : buffer'[Slot(k)'] = buffer[Slot(k + 1)]
    BY <1>6
  <1>8. \A k \in 0 .. n - 2 : k + 1 \in 0 .. n - 1
    BY <1>1
  <1>9. Sound'
    BY <1>1, <1>2, <1>5, <1>7, <1>8 DEF Sound, BufInv
  <1>10. Slot(0) = tail
    BY <1>1 DEF Slot, Index
  <1>11. QED
    BY <1>1, <1>4, <1>5, <1>7, <1>9, <1>10 DEF BufInv

-----------------------------------------------------------------------------
\* Two sequences are equal when they agree in length and at every position.
LEMMA ItemsEqual ==
    ASSUME BufInv', NEW s \in Seq(Data), Len(s) = Length',
           \A k \in 1 .. Len(s) : s[k] = buffer'[Slot(k - 1)']
    PROVE  Items' = s
  <1>1. s \in [1 .. Len(s) -> Data]
    BY LenProperties
  <1>2. Items' = [k \in 1 .. Len(s) |-> buffer'[Slot(k - 1)']]
    BY DEF Items
  <1>3. QED
    BY <1>1, <1>2

\* A put that finds room appends.
LEMMA PutAppends ==
    ASSUME BufInv, NEW d \in Data, ~full,
           buffer' = [buffer EXCEPT ![head] = d], AdvancePointer
    PROVE  /\ BufInv'
           /\ Len(Items) < Size
           /\ Items' = Append(Items, d)
  <1> DEFINE n == Length
             s == Append(Items, d)
  <1>1. n \in Nat /\ n < Size /\ Size \in Nat
    BY LengthType
  <1>2. /\ Items \in Seq(Data) /\ Len(Items) = n
        /\ \A k \in 1 .. n : Items[k] = buffer[Slot(k - 1)]
    BY ItemsType
  <1>3. PICK m : m = Length
    OBVIOUS
  <1>4. /\ BufInv' /\ Length' = m + 1
        /\ \A k \in 0 .. m - 1 : buffer'[Slot(k)'] = buffer[Slot(k)]
        /\ buffer'[Slot(m)'] = d
    BY <1>3, PutSlots
  <1>5. /\ s \in Seq(Data) /\ Len(s) = m + 1
        /\ \A k \in 1 .. m : s[k] = Items[k]
        /\ s[m + 1] = d
    BY <1>2, <1>3
  <1>6. ASSUME NEW k \in 1 .. m + 1 PROVE s[k] = buffer'[Slot(k - 1)']
    <2>1. CASE k = m + 1
      BY <1>1, <1>3, <1>4, <1>5, <2>1
    <2>2. CASE k # m + 1
      <3>1. k \in 1 .. m /\ k - 1 \in 0 .. m - 1
        BY <1>1, <1>3, <2>2
      <3>2. QED
        BY <1>2, <1>3, <1>4, <1>5, <3>1
    <2>3. QED
      BY <2>1, <2>2
  <1> HIDE DEF s
  <1>7. Items' = s
    BY <1>4, <1>5, <1>6, ItemsEqual
  <1>8. QED
    BY <1>1, <1>2, <1>4, <1>7 DEF s

\* A put that finds the buffer full replaces the oldest item by the newest.
LEMMA PutOverwrites ==
    ASSUME BufInv, NEW d \in Data, full,
           buffer' = [buffer EXCEPT ![head] = d], AdvancePointer
    PROVE  /\ BufInv'
           /\ Len(Items) = Size
           /\ Items' = Append(Tail(Items), d)
  <1> DEFINE s == Append(Tail(Items), d)
  <1>1. Size \in Nat \ {0} /\ Length = Size
    BY LengthType
  <1>2. /\ Items \in Seq(Data) /\ Len(Items) = Size
        /\ \A k \in 1 .. Size : Items[k] = buffer[Slot(k - 1)]
    BY <1>1, ItemsType
  <1>3. Items # << >>
    BY <1>1, <1>2
  <1>4. /\ Tail(Items) \in Seq(Data) /\ Len(Tail(Items)) = Size - 1
        /\ \A k \in 1 .. Size - 1 : Tail(Items)[k] = Items[k + 1]
    BY <1>2, <1>3, HeadTailProperties
  <1>5. /\ s \in Seq(Data) /\ Len(s) = Size
        /\ \A k \in 1 .. Size - 1 : s[k] = Items[k + 1]
        /\ s[Size] = d
    BY <1>1, <1>4
  <1>6. /\ BufInv' /\ Length' = Size
        /\ \A k \in 0 .. Size - 2 : buffer'[Slot(k)'] = buffer[Slot(k + 1)]
        /\ buffer'[Slot(Size - 1)'] = d
    BY OverwriteSlots
  <1>7. ASSUME NEW k \in 1 .. Size PROVE s[k] = buffer'[Slot(k - 1)']
    <2>1. CASE k = Size
      BY <1>5, <1>6, <2>1
    <2>2. CASE k # Size
      <3>1. k \in 1 .. Size - 1 /\ k - 1 \in 0 .. Size - 2 /\ (k - 1) + 1 = k
            /\ k + 1 \in 1 .. Size /\ (k + 1) - 1 = k
        BY <1>1, <2>2
      <3>2. buffer'[Slot(k - 1)'] = buffer[Slot(k)]
        BY <1>6, <3>1
      <3>3. s[k] = buffer[Slot(k)]
        BY <1>2, <1>5, <3>1
      <3>4. QED
        BY <3>2, <3>3
    <2>3. QED
      BY <2>1, <2>2
  <1> HIDE DEF s
  <1>8. Items' = s
    BY <1>5, <1>6, <1>7, ItemsEqual
  <1>9. QED
    BY <1>2, <1>6, <1>8 DEF s

\* A get that does not peek hands out the first item and removes it.
LEMMA GetRemoves ==
    ASSUME BufInv, ~Empty, buffer' = buffer, RetreatPointer
    PROVE  BufInv' /\ Items' = Tail(Items)
  <1> DEFINE s == Tail(Items)
  <1>1. PICK n : n = Length
    OBVIOUS
  <1>2. /\ BufInv' /\ n \in 1 .. Size /\ Length' = n - 1 /\ Size \in Nat
        /\ \A k \in 0 .. n - 2 : buffer'[Slot(k)'] = buffer[Slot(k + 1)]
    BY <1>1, RetreatSlots, LengthType
  <1>3. /\ Items \in Seq(Data) /\ Len(Items) = n
        /\ \A k \in 1 .. n : Items[k] = buffer[Slot(k - 1)]
    BY <1>1, ItemsType
  <1>4. Items # << >>
    BY <1>2, <1>3
  <1>5. /\ s \in Seq(Data) /\ Len(s) = n - 1
        /\ \A k \in 1 .. n - 1 : s[k] = Items[k + 1]
    BY <1>3, <1>4, HeadTailProperties
  <1>6. ASSUME NEW k \in 1 .. n - 1 PROVE s[k] = buffer'[Slot(k - 1)']
    <2>1. k - 1 \in 0 .. n - 2 /\ (k - 1) + 1 = k /\ k + 1 \in 1 .. n /\ (k + 1) - 1 = k
      BY <1>2
    <2>2. buffer'[Slot(k - 1)'] = buffer[Slot(k)]
      BY <1>2, <2>1
    <2>3. s[k] = buffer[Slot(k)]
      BY <1>3, <1>5, <2>1
    <2>4. QED
      BY <2>2, <2>3
  <1> HIDE DEF s
  <1>7. Items' = s
    BY <1>2, <1>5, <1>6, ItemsEqual
  <1>8. QED
    BY <1>2, <1>7 DEF s

\* An empty buffer holds no item; a buffer that is not empty has its first one
\* in the slot at the tail.
LEMMA FirstItem ==
    ASSUME BufInv
    PROVE  /\ Empty <=> Items = << >>
           /\ ~Empty => Items[1] = buffer[tail]
  <1>1. /\ Items \in Seq(Data) /\ Len(Items) = Length
        /\ \A k \in 1 .. Length : Items[k] = buffer[Slot(k - 1)]
    BY ItemsType
  <1>2. Size \in Nat \ {0} /\ Length \in 0 .. Size /\ (Empty <=> Length = 0)
    BY LengthType
  <1>3. Empty <=> Items = << >>
    BY <1>1, <1>2, EmptySeq
  <1>4. Slot(0) = tail
    BY <1>2 DEF BufInv, TypeOK, Slot, Index
  <1>5. ASSUME ~Empty PROVE Items[1] = buffer[tail]
    <2>1. 1 \in 1 .. Length /\ 1 - 1 = 0
      BY <1>2, <1>5
    <2>2. QED
      BY <1>1, <1>4, <2>1
  <1>6. QED
    BY <1>3, <1>5

\* Emptying the indices empties the queue.
LEMMA ResetEmpties ==
    ASSUME head' = 0, tail' = 0, full' = FALSE,
           buffer' \in [Index -> Data \cup {Unset}]
    PROVE  BufInv' /\ Items' = << >>
  <1>1. 0 \in Index
    BY BufferAssumption DEF Index
  <1>2. Length' = 0
    BY DEF Length
  <1>3. 0 .. 0 - 1 = {} /\ 1 .. 0 = {}
    OBVIOUS
  <1>4. TypeOK' /\ Sound'
    BY <1>1, <1>2, <1>3 DEF TypeOK, Sound
  <1>5. << >> \in Seq(Data) /\ Len(<< >>) = 0
    BY EmptySeq
  <1>6. Items' = << >>
    BY <1>2, <1>3, <1>4, <1>5, ItemsEqual DEF BufInv
  <1>7. QED
    BY <1>4, <1>6 DEF BufInv

-----------------------------------------------------------------------------
\* A new buffer is sound and empty.
LEMMA BufferInit == Init => BufInv /\ Abstract!Init
  <1> SUFFICES ASSUME Init PROVE BufInv /\ Abstract!Init
    OBVIOUS
  <1>1. 0 \in Index /\ Length = 0
    BY BufferAssumption DEF Index, Init, Length
  <1>0. 0 .. 0 - 1 = {}
    OBVIOUS
  <1>2. BufInv
    <2>1. TypeOK
      BY <1>1 DEF Init, TypeOK
    <2>2. Sound
      BY <1>0, <1>1 DEF Init, Sound
    <2>3. QED
      BY <2>1, <2>2 DEF BufInv
  <1>3. Items = << >>
    BY <1>1, <1>2, LengthType, FirstItem
  <1>4. QED
    BY <1>2, <1>3 DEF Init, Abstract!Init, Returned, Abstract!Returned

\* A call that changes nothing but its result.
LEMMA SameBuffer ==
    ASSUME BufInv, UNCHANGED << buffer, head, tail, full >>
    PROVE  BufInv' /\ Items' = Items
  BY DEF BufInv, TypeOK, Sound, Items, Length, Slot, Index

\* Every call keeps the buffer sound and is the call of the abstract queue.
LEMMA BufferStep ==
    BufInv /\ [Next]_vars => BufInv' /\ [Abstract!Next]_(Abstract!vars)
  <1> SUFFICES ASSUME BufInv, [Next]_vars
               PROVE  BufInv' /\ [Abstract!Next]_(Abstract!vars)
    OBVIOUS
  <1>0. /\ full \in BOOLEAN /\ Size \in Nat
        /\ ~full => Len(Items) < Size
        /\ full => Len(Items) = Size
    BY LengthType, ItemsType DEF BufInv, TypeOK
  <1>1. ASSUME NEW d \in Data, Put(d) PROVE BufInv' /\ Abstract!Put(d)
    <2>1. CASE full
      <3>1. BufInv' /\ Items' = Append(Tail(Items), d)
        BY <1>1, <2>1, PutOverwrites DEF Put
      <3>2. ~(Len(Items) < Size)
        BY <1>0, <2>1
      <3>3. QED
        BY <1>1, <3>1, <3>2 DEF Put, Abstract!Put, Returned, Abstract!Returned
    <2>2. CASE ~full
      <3>1. BufInv' /\ Len(Items) < Size /\ Items' = Append(Items, d)
        BY <1>1, <2>2, PutAppends DEF Put
      <3>2. QED
        BY <1>1, <3>1 DEF Put, Abstract!Put, Returned, Abstract!Returned
    <2>3. QED
      BY <1>0, <2>1, <2>2
  <1>2. ASSUME NEW d \in Data, Put2(d) PROVE BufInv' /\ Abstract!Put2(d)
    <2>1. CASE full
      <3>1. BufInv' /\ Items' = Items
        BY <1>2, <2>1, SameBuffer DEF Put2
      <3>2. ~(Len(Items) < Size)
        BY <1>0, <2>1
      <3>3. QED
        BY <1>2, <2>1, <3>1, <3>2 DEF Put2, Abstract!Put2, Returned, Abstract!Returned
    <2>2. CASE ~full
      <3>1. BufInv' /\ Len(Items) < Size /\ Items' = Append(Items, d)
        BY <1>2, <2>2, PutAppends DEF Put2
      <3>2. QED
        BY <1>2, <2>2, <3>1 DEF Put2, Abstract!Put2, Returned, Abstract!Returned
    <2>3. QED
      BY <1>0, <2>1, <2>2
  <1>3. ASSUME NEW peek \in BOOLEAN, Get(peek) PROVE BufInv' /\ Abstract!Get(peek)
    <2>1. CASE Empty
      <3>1. BufInv' /\ Items' = Items /\ Items = << >>
        BY <1>3, <2>1, SameBuffer, FirstItem DEF Get
      <3>2. QED
        BY <1>3, <2>1, <3>1 DEF Get, Abstract!Get, Returned, Abstract!Returned
    <2>2. CASE ~Empty
      <3>1. Items # << >> /\ Items[1] = buffer[tail]
        BY <2>2, FirstItem
      <3>2. BufInv' /\ Items' = IF peek THEN Items ELSE Tail(Items)
        <4>1. CASE peek
          BY <1>3, <2>2, <4>1, SameBuffer DEF Get
        <4>2. CASE ~peek
          BY <1>3, <2>2, <4>2, GetRemoves DEF Get
        <4>3. QED
          BY <4>1, <4>2
      <3>3. QED
        BY <1>3, <2>2, <3>1, <3>2 DEF Get, Abstract!Get, Returned, Abstract!Returned
    <2>3. QED
      BY <2>1, <2>2
  <1>4. ASSUME Reset PROVE BufInv' /\ Abstract!Reset
    BY <1>4, ResetEmpties DEF Reset, Abstract!Reset, Returned, Abstract!Returned, BufInv, TypeOK
  <1>5. ASSUME UNCHANGED vars PROVE BufInv' /\ UNCHANGED Abstract!vars
    BY <1>5, SameBuffer DEF vars, Abstract!vars
  <1>6. QED
    BY <1>1, <1>2, <1>3, <1>4, <1>5 DEF Next, Abstract!Next

\* Indices and flag keep their types and agree, and every slot they enclose has
\* been written, for every size and every sequence of calls.
THEOREM BufferSound == Spec => [](TypeOK /\ Sound)
  BY BufferInit, BufferStep, PTL DEF Spec, BufInv

\* circular_buffer.c implements the queue circular_buffer.h describes.
THEOREM BufferImplementsFifo == Spec => ImplementsFifo
  BY BufferInit, BufferStep, PTL DEF Spec, ImplementsFifo, Abstract!Spec
=============================================================================
