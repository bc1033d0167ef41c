--------------------------- MODULE Election_proof ---------------------------
(***************************************************************************)
(* Proofs about the master election.                                       *)
(*                                                                         *)
(* ElectionLoop: the loop of awdl_election_run computes one outcome for    *)
(* every peer table, every address of the node and every order of          *)
(* iteration, and a bounded set of them when frames come in the middle.    *)
(*                                                                         *)
(* SyncTree: what a network keeps that elects with this outcome, for every *)
(* set of nodes and external devices, all radio ranges, metrics and height *)
(* limits, and any number of disturbances.                                 *)
(***************************************************************************)
EXTENDS ElectionLoop, SyncTree, TLAPS

(* The loop at one node.                                                   *)

\* The order of the nested comparisons (election.c:89-102) is transitive.
LEMMA BeatsTransitive ==
    ASSUME NEW p \in ElectionState, NEW q \in ElectionState,
           NEW r \in ElectionState, Beats(p, q), Beats(q, r)
    PROVE  Beats(p, r)
  BY ElectionAssumption DEF Beats, HigherMaster, SameMaster, ElectionState, Address

\* Of two states the order prefers at most one.
LEMMA BeatsAsymmetric ==
    ASSUME NEW p \in ElectionState, NEW q \in ElectionState, Beats(p, q)
    PROVE  ~Beats(q, p)
  BY ElectionAssumption DEF Beats, HigherMaster, SameMaster, ElectionState, Address

\* Of the states of two different nodes the order prefers one.
LEMMA BeatsTotal ==
    ASSUME NEW p \in ElectionState, NEW q \in ElectionState,
           p.self_addr # q.self_addr, ~Beats(p, q)
    PROVE  Beats(q, p)
  BY ElectionAssumption DEF Beats, HigherMaster, SameMaster, ElectionState, Address

\* A node's reset state is an election state.
LEMMA ResetType == \A a \in Address : ResetSelf(a) \in ElectionState
  BY ElectionAssumption DEF ResetSelf, ElectionState, Address

\* Adopting an election state gives an election state.
LEMMA AdoptType ==
    ASSUME NEW a \in Address, NEW p \in ElectionState
    PROVE  Adopt(a, p) \in ElectionState
  BY ElectionAssumption DEF Adopt, OneMore, ElectionState, Address

\* A peer the loop skips does not change what it is looking for: it is no
\* candidate, or the best so far is preferred to it.
LEMMA SkipKeepsBest ==
    ASSUME NEW S \in SUBSET ElectionState, NEW p \in ElectionState,
           NEW b \in ElectionState, Self \in Address,
           \A q \in S : q.self_addr # p.self_addr,
           \/ Candidates(Self, S) = {} /\ b = ResetSelf(Self)
           \/ b \in Winners(Self, S),
           ~Eligible(Self, p) \/ ~Beats(p, b)
    PROVE  \/ Candidates(Self, S \cup {p}) = {} /\ b = ResetSelf(Self)
           \/ b \in Winners(Self, S \cup {p})
  <1>1. CASE p \notin Candidates(Self, {p})
    <2>1. Candidates(Self, S \cup {p}) = Candidates(Self, S)
      BY <1>1 DEF Candidates
    <2>2. QED
      BY <2>1 DEF Winners
  <1>2. CASE p \in Candidates(Self, {p})
    <2>1. Eligible(Self, p) /\ Beats(p, ResetSelf(Self)) /\ ~Beats(p, b)
      BY <1>2 DEF Candidates
    <2>2. b \in Winners(Self, S)
      BY <2>1
    <2>3. b \in S
      BY <2>2 DEF Winners, Candidates
    <2>4. Beats(b, p)
      BY <2>1, <2>3, BeatsTotal
    <2>5. Candidates(Self, S \cup {p}) = Candidates(Self, S) \cup {p}
      BY <1>2 DEF Candidates
    <2>6. QED
      BY <2>2, <2>4, <2>5 DEF Winners
  <1>3. QED
    BY <1>1, <1>2

\* A peer the loop accepts is the best of those visited.
LEMMA AcceptTakesBest ==
    ASSUME NEW S \in SUBSET ElectionState, NEW p \in ElectionState,
           NEW b \in ElectionState, Self \in Address,
           \/ Candidates(Self, S) = {} /\ b = ResetSelf(Self)
           \/ b \in Winners(Self, S),
           Eligible(Self, p), Beats(p, b)
    PROVE  p \in Winners(Self, S \cup {p})
  <1>1. ResetSelf(Self) \in ElectionState
    BY ResetType
  <1>2. Beats(p, ResetSelf(Self))
    <2>1. CASE b = ResetSelf(Self)
      BY <2>1
    <2>2. CASE b \in Winners(Self, S)
      <3>1. Beats(b, ResetSelf(Self))
        BY <2>2 DEF Winners, Candidates
      <3>2. QED
        BY <3>1, <1>1, BeatsTransitive
    <2>3. QED
      BY <2>1, <2>2
  <1>3. ASSUME NEW q \in Candidates(Self, S), q # p
        PROVE  Beats(p, q)
    <2>1. b \in Winners(Self, S)
      BY <1>3
    <2>2. q = b \/ Beats(b, q)
      BY <2>1 DEF Winners
    <2>3. q \in ElectionState
      BY DEF Candidates
    <2>4. QED
      BY <2>2, <2>3, BeatsTransitive
  <1>4. Candidates(Self, S \cup {p}) = Candidates(Self, S) \cup {p}
    BY <1>2 DEF Candidates
  <1>5. QED
    BY <1>3, <1>4 DEF Winners

-----------------------------------------------------------------------------
(* The records, as the loop finds them.                                    *)

Fields == {"self_addr", "master_addr", "sync_addr", "height", "master_metric", "master_counter"}

\* What the record of peer a says before and after the frame.
Both(a) == { table[a].before, table[a].after }

\* A record of election.h has the six fields.
LEMMA StateFields == \A e \in ElectionState : DOMAIN e = Fields
  BY DEF ElectionState, Fields

\* What a peer table of the instance looks like, unfolded once.
LEMMA TableType ==
    ASSUME LoopTypeOK, NEW a \in DOMAIN table
    PROVE  /\ a \in Address /\ Self \in Address /\ a # Self
           /\ Both(a) \subseteq ElectionState
           /\ \A v \in Both(a) : v.self_addr = a
           /\ table[a].is_valid \in BOOLEAN
           /\ written[a] \in Nat
  BY LoopAssumption DEF LoopTypeOK, Peer, Both

\* A record in the middle of being rewritten is an election state under the same
\* address, each field of which is the one before or the one after.
LEMMA RecordType ==
    ASSUME LoopTypeOK, NEW a \in DOMAIN table
    PROVE  /\ Record(a) \in ElectionState
           /\ Record(a).self_addr = a
           /\ \A f \in Fields : \E v \in Both(a) : Record(a)[f] = v[f]
  <1>1. table[a].before \in ElectionState /\ table[a].after \in ElectionState
    BY TableType DEF Both
  <1>2. DOMAIN table[a].before = Fields
    BY <1>1, StateFields
  <1>3. \A f \in Fields : Record(a)[f] \in {table[a].before[f], table[a].after[f]}
    BY <1>2 DEF Record
  <1>4. Record(a) = [ self_addr |-> Record(a).self_addr, master_addr |-> Record(a).master_addr,
                      sync_addr |-> Record(a).sync_addr, height |-> Record(a).height,
                      master_metric |-> Record(a).master_metric,
                      master_counter |-> Record(a).master_counter ]
    BY <1>2 DEF Record, Fields
  <1>5. Record(a) \in ElectionState
    <2>1. /\ Record(a).self_addr \in Address /\ Record(a).master_addr \in Address
          /\ Record(a).sync_addr \in Address /\ Record(a).height \in 0 .. (HeightWord - 1)
          /\ Record(a).master_metric \in Nat /\ Record(a).master_counter \in Nat
      BY <1>1, <1>3 DEF ElectionState, Fields
    <2>2. QED
      BY <1>4, <2>1 DEF ElectionState
  <1>6. Record(a).self_addr = a
    BY <1>3, TableType DEF Fields, Both
  <1>7. \A f \in Fields : \E v \in Both(a) : Record(a)[f] = v[f]
    BY <1>3 DEF Both
  <1>8. QED
    BY <1>5, <1>6, <1>7

\* The frame of a peer is written in one direction: what it has not changed yet it has
\* not changed before.
LEMMA SteadyBack ==
    ASSUME LoopTypeOK, [LoopNext]_loopVars, Steady'
    PROVE  Steady
  <1>1. CASE \E a \in DOMAIN table : WriteField(a)
    <2>1. PICK a \in DOMAIN table : WriteField(a)
      BY <1>1
    <2>2. table' = table
      BY <2>1 DEF WriteField
    <2>3. ASSUME NEW b \in DOMAIN table PROVE Record(b) = table[b].before
      <3>1. written[b] \in Nat /\ written'[b] \in Nat /\ written[b] <= written'[b]
        BY <2>1 DEF WriteField, LoopTypeOK
      <3>2. Record(b)' = table[b].before
        BY <2>2 DEF Steady
      <3> DEFINE e == table[b].before
                 W(k, f) == \E i \in 1 .. k : WriteOrder[i] = f
      <3>3. e \in ElectionState
        BY TableType DEF Both
      <3>4. \A f \in DOMAIN e : W(written'[b], f) => table[b].after[f] = e[f]
        <4>1. Record(b)' = [ f \in DOMAIN e |-> IF W(written'[b], f)
                                                THEN table[b].after[f] ELSE e[f] ]
          BY <2>2 DEF Record, WriteOrder
        <4>2. QED
          BY <3>2, <4>1
      <3>5. \A f \in DOMAIN e : W(written[b], f) => W(written'[b], f)
        BY <3>1
      <3>6. Record(b) = [ f \in DOMAIN e |-> IF W(written[b], f)
                                             THEN table[b].after[f] ELSE e[f] ]
        BY DEF Record
      <3>7. e = [ f \in DOMAIN e |-> e[f] ]
        BY <3>3 DEF ElectionState
      <3> HIDE DEF W, e
      <3>8. Record(b) = e
        BY <3>4, <3>5, <3>6, <3>7
      <3>9. QED
        BY <3>8 DEF e
    <2>4. QED
      BY <2>3 DEF Steady
  <1>2. CASE UNCHANGED << table, written >>
    BY <1>2 DEF Steady, Record
  <1>3. QED
    BY <1>1, <1>2 DEF LoopNext, loopVars, Visit, TestLimit, TestCycle, Compare, EndOfPeers,
       AdoptField

-----------------------------------------------------------------------------
(* The invariant of the loop.                                              *)

Testing == {"limit", "cycle", "compare"}

\* What the tests have found of the peer the loop looks at.
Tested ==
    /\ pc \in Testing => peer \notin todo
    /\ pc \in {"cycle", "compare"} =>
          /\ \E v \in Both(peer) : WithinLimit(v)
          /\ Steady => WithinLimit(table[peer].before)
    /\ pc = "compare" =>
          /\ \E v \in Both(peer) : ~IsSyncMaster(v, Self)
          /\ Steady => ~IsSyncMaster(table[peer].before, Self)

\* The best so far has passed them.
Passed == master_state # Self => MayPass(Self, Both(master_state))

\* The fields that are copied when the loop has come to pc.
CopiedAt(f) ==
    CASE f = "master_addr"    -> {"sync", "metric", "counter", "height", "done"}
      [] f = "sync_addr"      -> {"metric", "counter", "height", "done"}
      [] f = "master_metric"  -> {"counter", "height", "done"}
      [] f = "master_counter" -> {"height", "done"}
      [] f = "height"         -> {"done"}

\* The node's own state is the reset one until the loop is over, and then field by
\* field one that the winner's record had (election.c:108-114).
CopiedOf(f) ==
    pc \in CopiedAt(f) /\ master_state # Self =>
        /\ \E v \in Both(master_state) : elected[f] = Adopt(Self, v)[f]
        /\ Steady => elected[f] = Adopt(Self, table[master_state].before)[f]

Adopting ==
    /\ pc \in Testing \cup {"next", "adopt"} => elected = ResetSelf(Self)
    /\ pc \in DOMAIN CopyOrder => todo = {} /\ master_state # Self
    /\ pc = "done" => todo = {} /\ (master_state = Self => elected = ResetSelf(Self))
    /\ elected.self_addr = Self
    /\ CopiedOf("master_addr") /\ CopiedOf("sync_addr") /\ CopiedOf("master_metric")
    /\ CopiedOf("master_counter") /\ CopiedOf("height")

LoopInv == LoopTypeOK /\ Tested /\ Passed /\ BestSoFar /\ Adopting

\* The loop starts with no peer visited, no record rewritten and the reset state.
LEMMA LoopStart == LoopInit => LoopInv
  <1> SUFFICES ASSUME LoopInit PROVE LoopInv
    OBVIOUS
  <1>1. LoopTypeOK
    BY ResetType, LoopAssumption DEF LoopInit, LoopTypeOK, WriteOrder
  <1>2. BestSoFar
    BY DEF LoopInit, BestSoFar, Candidates, Seen, ValidPeers
  <1>3. Tested /\ Passed /\ Adopting
    BY DEF LoopInit, Tested, Passed, Adopting, Testing, CopyOrder, CopiedOf, CopiedAt, ResetSelf
  <1>4. QED
    BY <1>1, <1>2, <1>3 DEF LoopInv

\* A field that the WiFi task writes makes what is known of unchanged records void or
\* leaves it as it was.
LEMMA WriteStep ==
    ASSUME LoopInv, NEW a \in DOMAIN table, WriteField(a)
    PROVE  LoopInv'
  <1>1. Steady' => Steady
    BY SteadyBack DEF LoopNext, LoopInv
  <1>2. /\ UNCHANGED << table, todo, pc, peer, master_state, elected >>
        /\ \A b : Both(b)' = Both(b)
    BY DEF WriteField, Both
  <1>3. LoopTypeOK'
    BY <1>2 DEF LoopInv, LoopTypeOK, WriteField, WriteOrder, ValidPeers
  <1>4. Tested'
    BY <1>1, <1>2 DEF LoopInv, Tested
  <1>5. Passed'
    BY <1>2 DEF LoopInv, Passed
  <1>6. BestSoFar'
    BY <1>1, <1>2 DEF LoopInv, BestSoFar, Seen, ValidPeers
  <1>7. Adopting'
    BY <1>1, <1>2 DEF LoopInv, Adopting, CopiedOf
  <1>8. QED
    BY <1>3, <1>4, <1>5, <1>6, <1>7 DEF LoopInv

\* What the steps of the loop itself share: they write no record.
LEMMA LoopOwnStep ==
    ASSUME LoopTypeOK, UNCHANGED << table, written >>
    PROVE  /\ Steady' <=> Steady
           /\ \A b : Both(b)' = Both(b) /\ Record(b)' = Record(b)
           /\ ValidPeers' = ValidPeers
  BY DEF Steady, Record, Both, ValidPeers

\* The next peer of the iterator: an invalid one is passed over.
LEMMA VisitStep ==
    ASSUME LoopInv, NEW a \in todo, Visit(a)
    PROVE  LoopInv'
  <1>1. /\ a \in DOMAIN table /\ pc = "next" /\ todo' = todo \ {a} /\ peer' = a
        /\ pc' = IF a \in ValidPeers THEN "limit" ELSE "next"
        /\ UNCHANGED << table, written, master_state, elected >>
    BY DEF Visit, LoopInv, LoopTypeOK, ValidPeers
  <1>2. (Steady' <=> Steady) /\ ValidPeers' = ValidPeers /\ \A b : Both(b)' = Both(b)
    BY <1>1, LoopOwnStep DEF LoopInv
  <1>3. LoopTypeOK'
    BY <1>1, <1>2 DEF LoopInv, LoopTypeOK
  <1>4. Tested' /\ Passed'
    BY <1>1, <1>2 DEF LoopInv, Tested, Passed, Testing
  <1>5. Seen' = Seen
    BY <1>1, <1>2 DEF Seen
  <1>6. BestSoFar'
    BY <1>1, <1>2, <1>5 DEF LoopInv, BestSoFar
  <1>7. Adopting'
    BY <1>1 DEF LoopInv, Adopting, CopiedOf, CopiedAt, Testing, CopyOrder
  <1>8. QED
    BY <1>3, <1>4, <1>6, <1>7 DEF LoopInv

\* The best so far in the terms of SkipKeepsBest and AcceptTakesBest.
LEMMA BestIsState ==
    ASSUME LoopInv, Steady, pc \in Testing
    PROVE  /\ State(master_state) \in ElectionState
           /\ Seen \in SUBSET ElectionState
           /\ \A q \in Seen : q.self_addr # peer
           /\ \/ Candidates(Self, Seen) = {} /\ State(master_state) = ResetSelf(Self)
              \/ State(master_state) \in Winners(Self, Seen)
           /\ Record(peer) = table[peer].before
           /\ Record(peer) \in ElectionState /\ Record(peer).self_addr = peer
  <1>1. peer \in ValidPeers /\ ValidPeers \subseteq DOMAIN table
    BY DEF LoopInv, LoopTypeOK, Testing, ValidPeers
  <1>2. \A a \in ValidPeers :
           table[a].before \in ElectionState /\ table[a].before.self_addr = a
    BY <1>1, TableType DEF LoopInv, Both
  <1>3. Seen \in SUBSET ElectionState /\ \A q \in Seen : q.self_addr # peer
    BY <1>2 DEF Seen, Testing
  <1>4. elected = ResetSelf(Self) /\ elected \in ElectionState
    BY DEF LoopInv, Adopting, LoopTypeOK
  <1>5. CASE master_state = Self
    BY <1>1, <1>2, <1>3, <1>4, <1>5 DEF LoopInv, BestSoFar, State, Steady
  <1>6. CASE master_state # Self
    <2>1. master_state \in ValidPeers
      BY <1>6 DEF LoopInv, LoopTypeOK
    <2>2. State(master_state) = table[master_state].before
      BY <1>1, <1>6, <2>1 DEF State, Steady
    <2>3. QED
      BY <1>1, <1>2, <1>3, <1>6, <2>1, <2>2 DEF LoopInv, BestSoFar, Steady
  <1>7. QED
    BY <1>5, <1>6

\* When the loop is done with a peer it has seen one more.
LEMMA SeenGrows ==
    ASSUME LoopInv, pc \in Testing, pc' = "next", UNCHANGED << table, written, todo >>
    PROVE  Seen' = Seen \cup {table[peer].before}
  <1>1. peer \in ValidPeers /\ peer \notin todo
    BY DEF LoopInv, LoopTypeOK, Tested, Testing
  <1>2. ValidPeers' = ValidPeers
    BY DEF ValidPeers
  <1>3. ValidPeers \ todo = (ValidPeers \ (todo \cup {peer})) \cup {peer}
    BY <1>1
  <1>4. Seen = { table[a].before : a \in ValidPeers \ (todo \cup {peer}) }
    BY DEF Seen, Testing
  <1>5. Seen' = { table[a].before : a \in ValidPeers \ todo }
    BY <1>2 DEF Seen
  <1> HIDE DEF Seen
  <1>6. QED
    BY <1>3, <1>4, <1>5

\* A peer that a test rejects changes nothing of what the loop looks for.
LEMMA RejectStep ==
    ASSUME LoopInv, pc \in Testing, pc' = "next",
           Steady => \/ ~Eligible(Self, Record(peer))
                     \/ ~Beats(Record(peer), State(master_state)),
           UNCHANGED << table, written, todo, peer, master_state, elected >>
    PROVE  LoopInv'
  <1>1. (Steady' <=> Steady) /\ ValidPeers' = ValidPeers /\ \A b : Both(b)' = Both(b)
    BY LoopOwnStep DEF LoopInv
  <1>2. LoopTypeOK'
    BY <1>1 DEF LoopInv, LoopTypeOK
  <1>3. Tested' /\ Passed'
    BY <1>1 DEF LoopInv, Tested, Passed, Testing
  <1>4. BestSoFar'
    <2> SUFFICES ASSUME Steady
                 PROVE  IF master_state = Self
                        THEN Candidates(Self, Seen') = {}
                        ELSE table[master_state].before \in Winners(Self, Seen')
      BY <1>1 DEF BestSoFar
    <2> DEFINE b == State(master_state)
               S == Seen
               p == Record(peer)
    <2>1. /\ b \in ElectionState /\ S \in SUBSET ElectionState
          /\ p \in ElectionState /\ \A q \in S : q.self_addr # p.self_addr
          /\ \/ Candidates(Self, S) = {} /\ b = ResetSelf(Self)
             \/ b \in Winners(Self, S)
          /\ ~Eligible(Self, p) \/ ~Beats(p, b)
      BY BestIsState
    <2>2. Self \in Address /\ peer # Self
      BY TableType DEF LoopInv, LoopTypeOK, ValidPeers, Testing
    <2>3. Seen' = S \cup {p}
      BY SeenGrows, BestIsState
    <2>4. b.self_addr = master_state
      BY BestIsState, RecordType DEF LoopInv, Adopting, State, ResetSelf, Testing, LoopTypeOK,
         ValidPeers
    <2>5. master_state # Self => b = table[master_state].before
      BY DEF Steady, State, LoopInv, LoopTypeOK, ValidPeers
    <2> HIDE DEF b, S, p
    <2>6. \/ Candidates(Self, S \cup {p}) = {} /\ b = ResetSelf(Self)
          \/ b \in Winners(Self, S \cup {p})
      BY <2>1, <2>2, SkipKeepsBest
    <2>7. \A q \in S \cup {p} : q.self_addr # Self
      <3>1. \A q \in S : q.self_addr # Self
        BY TableType DEF S, Seen, ValidPeers, LoopInv, Both
      <3>2. p.self_addr # Self
        BY <2>2, BestIsState DEF p
      <3>3. QED
        BY <3>1, <3>2
    <2>8. CASE master_state = Self
      <3>1. b \notin S \cup {p}
        BY <2>4, <2>7, <2>8
      <3>2. QED
        BY <2>3, <2>6, <2>8, <3>1 DEF Winners, Candidates
    <2>9. CASE master_state # Self
      <3>1. b # ResetSelf(Self)
        BY <2>4, <2>9 DEF ResetSelf
      <3>2. QED
        BY <2>3, <2>5, <2>6, <2>9, <3>1
    <2>10. QED
      BY <2>8, <2>9
  <1>5. Adopting'
    BY DEF LoopInv, Adopting, CopiedOf, CopiedAt, Testing, CopyOrder
  <1>6. QED
    BY <1>2, <1>3, <1>4, <1>5 DEF LoopInv

\* Each test finds a version of the record that passes it.
LEMMA TestStep == LoopInv /\ (TestLimit \/ TestCycle) => LoopInv'
  <1> SUFFICES ASSUME LoopInv, TestLimit \/ TestCycle PROVE LoopInv'
    OBVIOUS
  <1>1. /\ pc \in Testing /\ peer \in DOMAIN table
        /\ UNCHANGED << table, written, todo, peer, master_state, elected >>
    BY DEF TestLimit, TestCycle, LoopInv, LoopTypeOK, ValidPeers, Testing
  <1>2. CASE pc' = "next"
    <2>1. ~Eligible(Self, Record(peer))
      BY <1>2 DEF TestLimit, TestCycle, Eligible
    <2>2. QED
      BY <1>1, <1>2, <2>1, RejectStep
  <1>3. CASE pc' # "next"
    <2>1. (Steady' <=> Steady) /\ ValidPeers' = ValidPeers /\ \A b : Both(b)' = Both(b)
      BY <1>1, LoopOwnStep DEF LoopInv
    <2>2. pc' \in Testing
      BY <1>3 DEF TestLimit, TestCycle, Testing
    <2>3. LoopTypeOK'
      BY <1>1, <2>1, <2>2 DEF LoopInv, LoopTypeOK, Testing
    <2>4. Steady => Record(peer) = table[peer].before
      BY <1>1 DEF Steady
    <2>5. Tested'
      <3>1. pc = "limit" => WithinLimit(Record(peer)) /\ pc' = "cycle"
        BY <1>3 DEF TestLimit, TestCycle
      <3>2. pc = "cycle" => ~IsSyncMaster(Record(peer), Self) /\ pc' = "compare"
        BY <1>3 DEF TestLimit, TestCycle
      <3>3. WithinLimit(Record(peer)) => \E v \in Both(peer) : WithinLimit(v)
        BY <1>1, RecordType DEF WithinLimit, Fields, LoopInv
      <3>4. ~IsSyncMaster(Record(peer), Self) => \E v \in Both(peer) : ~IsSyncMaster(v, Self)
        BY <1>1, RecordType DEF IsSyncMaster, Fields, LoopInv
      <3>5. pc \in {"limit", "cycle"}
        BY DEF TestLimit, TestCycle
      <3>6. QED
        BY <1>1, <2>1, <2>4, <3>1, <3>2, <3>3, <3>4, <3>5 DEF LoopInv, Tested, Testing
    <2>6. Passed'
      BY <1>1, <2>1 DEF LoopInv, Passed
    <2>7. Seen' = Seen
      BY <1>1, <2>1, <2>2 DEF Seen, Testing
    <2>8. BestSoFar'
      BY <1>1, <2>1, <2>7 DEF LoopInv, BestSoFar
    <2>9. Adopting'
      BY <1>1, <2>2 DEF LoopInv, Adopting, CopiedOf, CopiedAt, Testing, CopyOrder
    <2>10. QED
      BY <2>3, <2>5, <2>6, <2>8, <2>9 DEF LoopInv
  <1>4. QED
    BY <1>2, <1>3

\* The comparison keeps the best of the peers seen.
LEMMA CompareStep == LoopInv /\ Compare => LoopInv'
  <1> SUFFICES ASSUME LoopInv, Compare PROVE LoopInv'
    OBVIOUS
  <1>1. /\ pc = "compare" /\ pc \in Testing /\ pc' = "next" /\ peer \in ValidPeers
        /\ peer \in DOMAIN table
        /\ UNCHANGED << table, written, todo, peer, elected >>
    BY DEF Compare, LoopInv, LoopTypeOK, ValidPeers, Testing
  <1>2. CASE ~Beats(Record(peer), State(master_state))
    <2>1. master_state' = master_state
      BY <1>2 DEF Compare
    <2>2. QED
      BY <1>1, <1>2, <2>1, RejectStep
  <1>3. CASE Beats(Record(peer), State(master_state))
    <2>1. master_state' = peer
      BY <1>3 DEF Compare
    <2>2. (Steady' <=> Steady) /\ ValidPeers' = ValidPeers /\ \A b : Both(b)' = Both(b)
      BY <1>1, LoopOwnStep DEF LoopInv
    <2>3. Self \in Address /\ peer # Self
      BY <1>1, TableType DEF LoopInv
    <2>4. LoopTypeOK'
      BY <1>1, <2>1, <2>2 DEF LoopInv, LoopTypeOK
    <2>5. Tested'
      BY <1>1 DEF Tested, Testing
    <2>6. Passed'
      BY <1>1, <2>1, <2>2 DEF LoopInv, Tested, Passed, MayPass
    <2>7. BestSoFar'
      <3> SUFFICES ASSUME Steady
                   PROVE  table[peer].before \in Winners(Self, Seen')
        BY <1>1, <2>1, <2>2, <2>3 DEF BestSoFar
      <3> DEFINE b == State(master_state)
                 S == Seen
                 p == Record(peer)
      <3>1. /\ b \in ElectionState /\ S \in SUBSET ElectionState
            /\ p \in ElectionState /\ p = table[peer].before
            /\ \/ Candidates(Self, S) = {} /\ b = ResetSelf(Self)
               \/ b \in Winners(Self, S)
        BY <1>1, BestIsState
      <3>2. Eligible(Self, p)
        BY <1>1, <3>1 DEF LoopInv, Tested, Eligible
      <3>3. Seen' = S \cup {p}
        BY <1>1, <3>1, SeenGrows
      <3> HIDE DEF b, S
      <3>4. QED
        BY <1>3, <2>3, <3>1, <3>2, <3>3, AcceptTakesBest DEF b
    <2>8. Adopting'
      BY <1>1, <2>1, <2>3 DEF LoopInv, Adopting, CopiedOf, CopiedAt, Testing, CopyOrder
    <2>9. QED
      BY <2>4, <2>5, <2>6, <2>7, <2>8 DEF LoopInv
  <1>4. QED
    BY <1>2, <1>3

\* The loop goes on to the copy, or the node remains its own master.
LEMMA EndStep == LoopInv /\ EndOfPeers => LoopInv'
  <1> SUFFICES ASSUME LoopInv, EndOfPeers PROVE LoopInv'
    OBVIOUS
  <1>1. /\ pc = "next" /\ todo = {} /\ pc' = IF master_state = Self THEN "done" ELSE "adopt"
        /\ UNCHANGED << table, written, todo, peer, master_state, elected >>
    BY DEF EndOfPeers
  <1>2. (Steady' <=> Steady) /\ ValidPeers' = ValidPeers /\ \A b : Both(b)' = Both(b)
    BY <1>1, LoopOwnStep DEF LoopInv
  <1>3. LoopTypeOK' /\ Tested' /\ Passed'
    BY <1>1, <1>2 DEF LoopInv, LoopTypeOK, Tested, Passed, Testing, CopyOrder
  <1>4. Seen' = Seen
    BY <1>1, <1>2 DEF Seen
  <1>5. BestSoFar'
    BY <1>1, <1>2, <1>4 DEF LoopInv, BestSoFar
  <1>6. Adopting'
    BY <1>1 DEF LoopInv, Adopting, CopiedOf, CopiedAt, Testing, CopyOrder
  <1>7. QED
    BY <1>3, <1>5, <1>6 DEF LoopInv

\* Each assignment takes over a field that the record of the winner has at that time.
LEMMA AdoptStep == LoopInv /\ AdoptField => LoopInv'
  <1> SUFFICES ASSUME LoopInv, AdoptField PROVE LoopInv'
    OBVIOUS
  <1> DEFINE r == Record(master_state)
  <1>1. /\ UNCHANGED << table, written, todo, peer, master_state >>
        /\ pc \in DOMAIN CopyOrder /\ pc' = CopyOrder[pc]
        /\ todo = {} /\ master_state # Self
        /\ elected' = [elected EXCEPT ![Copied[pc]] = Adopt(Self, r)[Copied[pc]]]
    BY DEF AdoptField, Copy, LoopInv, Adopting
  <1>2. (Steady' <=> Steady) /\ ValidPeers' = ValidPeers /\ \A b : Both(b)' = Both(b)
    BY <1>1, LoopOwnStep DEF LoopInv
  <1>3. /\ master_state \in DOMAIN table /\ Self \in Address
        /\ r \in ElectionState
        /\ \A f \in Fields : \E v \in Both(master_state) : r[f] = v[f]
        /\ \A v \in Both(master_state) : v.self_addr = r.self_addr
        /\ Steady => r = table[master_state].before
    <2>1. master_state \in DOMAIN table
      BY <1>1 DEF LoopInv, LoopTypeOK, ValidPeers
    <2>2. QED
      BY <2>1, TableType, RecordType DEF LoopInv, Steady
  <1> HIDE DEF r
  <1>4. Adopt(Self, r) \in ElectionState
    BY <1>3, AdoptType
  <1>5. elected \in ElectionState /\ elected.self_addr = Self
    BY DEF LoopInv, LoopTypeOK, Adopting
  <1>6. elected' \in ElectionState /\ elected'.self_addr = Self
    <2>1. Copied[pc] \in Fields \ {"self_addr"}
      BY <1>1 DEF Copied, CopyOrder, Fields
    <2>2. QED
      BY <1>1, <1>4, <1>5, <2>1 DEF ElectionState, Fields
  <1>7. LoopTypeOK'
    BY <1>1, <1>2, <1>6 DEF LoopInv, LoopTypeOK, CopyOrder
  <1>8. Tested' /\ Passed'
    BY <1>1, <1>2 DEF LoopInv, Tested, Passed, Testing, CopyOrder
  <1>9. BestSoFar'
    <2>1. Seen' = Seen
      BY <1>1, <1>2 DEF Seen, CopyOrder
    <2>2. QED
      BY <1>1, <1>2, <2>1 DEF LoopInv, BestSoFar
  <1>10. ASSUME NEW f \in Fields \ {"self_addr"}, CopiedOf(f)
         PROVE  CopiedOf(f)'
    <2>0. f \in DOMAIN elected
      BY <1>5, StateFields
    <2>1. CASE f = Copied[pc]
      <3>1. elected'[f] = Adopt(Self, r)[f]
        BY <1>1, <2>0, <2>1
      <3>2. \E v \in Both(master_state) : Adopt(Self, r)[f] = Adopt(Self, v)[f]
        <4>1. f = "sync_addr" => \A v \in Both(master_state) : Adopt(Self, r)[f] = Adopt(Self, v)[f]
          BY <1>3 DEF Adopt
        <4>2. PICK v \in Both(master_state) : r[f] = v[f]
          BY <1>3
        <4>3. f # "sync_addr" => Adopt(Self, r)[f] = Adopt(Self, v)[f]
          BY <4>2 DEF Adopt, Fields
        <4>4. QED
          BY <4>1, <4>2, <4>3
      <3>3. QED
        BY <1>1, <1>2, <1>3, <3>1, <3>2 DEF CopiedOf
    <2>2. CASE f # Copied[pc]
      <3>1. elected'[f] = elected[f]
        BY <1>1, <2>0, <2>2
      <3>2. pc' \in CopiedAt(f) => pc \in CopiedAt(f)
        BY <1>1, <2>2 DEF CopiedAt, CopyOrder, Copied, Fields
      <3>3. QED
        <4> SUFFICES ASSUME pc' \in CopiedAt(f)
                     PROVE  /\ \E v \in Both(master_state) : elected'[f] = Adopt(Self, v)[f]
                            /\ Steady => elected'[f] = Adopt(Self, table[master_state].before)[f]
          BY <1>1, <1>2 DEF CopiedOf
        <4>1. QED
          BY <1>1, <1>10, <3>1, <3>2 DEF CopiedOf
    <2>3. QED
      BY <2>1, <2>2
  <1>11. Adopting'
    <2>1. pc' \notin Testing \cup {"next", "adopt"}
      BY <1>1 DEF CopyOrder, Testing
    <2>2. \A f \in Fields \ {"self_addr"} : CopiedOf(f) => CopiedOf(f)'
      BY <1>10
    <2>3. QED
      BY <1>1, <1>6, <2>1, <2>2 DEF LoopInv, Adopting, Fields
  <1>12. QED
    BY <1>7, <1>8, <1>9, <1>11 DEF LoopInv

\* Every step of the loop and of the WiFi task keeps the invariant.
LEMMA LoopStep == LoopInv /\ [LoopNext]_loopVars => LoopInv'
  <1> SUFFICES ASSUME LoopInv, [LoopNext]_loopVars PROVE LoopInv'
    OBVIOUS
  <1>1. CASE UNCHANGED loopVars
    BY <1>1 DEF loopVars, LoopInv, LoopTypeOK, Tested, Passed, BestSoFar, Adopting, Steady,
       Record, Both, Seen, ValidPeers, CopiedOf
  <1>2. QED
    BY <1>1, WriteStep, VisitStep, TestStep, CompareStep, EndStep, AdoptStep DEF LoopNext

\* In a finished loop the invariant names the one outcome of the election.
LEMMA LoopOutcome == LoopInv => OrderIrrelevant
  <1> DEFINE S == { table[a].before : a \in ValidPeers }
  <1> SUFFICES ASSUME LoopInv, pc = "done", Steady
               PROVE  ElectionRun(Self, S) = {elected}
    BY DEF OrderIrrelevant
  <1>1. Seen = S
    BY DEF LoopInv, Adopting, Seen
  <1>2. \A a \in ValidPeers : table[a].before \in ElectionState
    BY TableType DEF LoopInv, ValidPeers, Both
  <1>3. S \subseteq ElectionState
    BY <1>2
  <1>4. CASE master_state = Self
    BY <1>1, <1>4 DEF LoopInv, BestSoFar, Adopting, ElectionRun
  <1>5. CASE master_state # Self
    <2> DEFINE b == table[master_state].before
    <2>1. master_state \in ValidPeers /\ b \in Winners(Self, S) /\ b \in ElectionState
      BY <1>1, <1>2, <1>5 DEF LoopInv, BestSoFar, LoopTypeOK
    <2>2. /\ elected.self_addr = Self
          /\ elected.master_addr = Adopt(Self, b).master_addr
          /\ elected.sync_addr = Adopt(Self, b).sync_addr
          /\ elected.height = Adopt(Self, b).height
          /\ elected.master_metric = Adopt(Self, b).master_metric
          /\ elected.master_counter = Adopt(Self, b).master_counter
      BY <1>5 DEF LoopInv, Adopting, CopiedOf, CopiedAt
    <2>3. elected \in ElectionState
      BY DEF LoopInv, LoopTypeOK
    <2> HIDE DEF S, b
    <2>4. elected = Adopt(Self, b)
      BY <2>2, <2>3 DEF ElectionState, Adopt
    <2>5. Winners(Self, S) = {b}
      <3>1. ASSUME NEW q \in Winners(Self, S), q # b PROVE FALSE
        <4>1. Beats(q, b) /\ Beats(b, q) /\ q \in ElectionState
          BY <1>3, <2>1, <3>1 DEF Winners, Candidates
        <4>2. QED
          BY <2>1, <4>1, BeatsAsymmetric
      <3>2. QED
        BY <2>1, <3>1
    <2>6. Candidates(Self, S) # {}
      BY <2>1 DEF Winners
    <2>7. QED
      BY <2>4, <2>5, <2>6 DEF ElectionRun
  <1>6. QED
    BY <1>4, <1>5

\* And when records were rewritten meanwhile, each field is one that a peer had.
LEMMA LoopTornOutcome == LoopInv => TornAtMost
  <1> DEFINE P == UNION { { table[a].before, table[a].after } : a \in ValidPeers }
  <1> SUFFICES ASSUME LoopInv, pc = "done" PROVE elected \in TornRun(Self, P)
    BY DEF TornAtMost
  <1>1. CASE master_state = Self
    BY <1>1 DEF LoopInv, Adopting, TornRun
  <1>2. CASE master_state # Self
    <2> DEFINE m == master_state
    <2>1. m \in ValidPeers /\ MayPass(Self, Both(m))
      BY <1>2 DEF LoopInv, LoopTypeOK, Passed
    <2>2. \A a \in ValidPeers : /\ Both(a) \subseteq P
                               /\ \A v \in Both(a) : v.self_addr = a
      BY TableType DEF LoopInv, ValidPeers, Both
    <2>3. \A p \in P : \E a \in ValidPeers : p \in Both(a)
      BY DEF Both
    <2>4. table[m].before \in Both(m)
      BY DEF Both
    <2> HIDE DEF P
    <2>5. Versions(P, m) = Both(m)
      BY <2>1, <2>2, <2>3 DEF Versions
    <2>6. elected \in Mixtures(Self, Both(m))
      <3>1. PICK p \in Both(m) : elected.master_addr = Adopt(Self, p).master_addr
        BY <1>2 DEF LoopInv, Adopting, CopiedOf, CopiedAt
      <3>2. PICK q \in Both(m) : elected.height = Adopt(Self, q).height
        BY <1>2 DEF LoopInv, Adopting, CopiedOf, CopiedAt
      <3>3. PICK r \in Both(m) : elected.master_metric = Adopt(Self, r).master_metric
        BY <1>2 DEF LoopInv, Adopting, CopiedOf, CopiedAt
      <3>4. PICK s \in Both(m) : elected.master_counter = Adopt(Self, s).master_counter
        BY <1>2 DEF LoopInv, Adopting, CopiedOf, CopiedAt
      <3>5. PICK t \in Both(m) : elected.sync_addr = Adopt(Self, t).sync_addr
        BY <1>2 DEF LoopInv, Adopting, CopiedOf, CopiedAt
      <3>6. elected.sync_addr = p.self_addr
        BY <2>1, <2>2, <3>5 DEF Adopt
      <3>7. elected \in ElectionState /\ elected.self_addr = Self
        BY DEF LoopInv, LoopTypeOK, Adopting
      <3>8. elected = Mixture(Self, p, q, r, s)
        BY <3>1, <3>2, <3>3, <3>4, <3>6, <3>7 DEF Adopt, Mixture, ElectionState
      <3>9. QED
        BY <3>8 DEF Mixtures
    <2>7. \E d \in { p.self_addr : p \in { q \in P : MayPass(Self, Versions(P, q.self_addr)) } } :
             elected \in Mixtures(Self, Versions(P, d))
      <3>1. table[m].before \in P /\ table[m].before.self_addr = m
        BY <2>1, <2>2, <2>4
      <3>2. QED
        BY <2>1, <2>5, <2>6, <3>1
    <2>8. QED
      BY <2>7 DEF TornRun
  <1>3. QED
    BY <1>1, <1>2

\* The variables keep their types for every peer table.
THEOREM LoopTypeCorrect == LoopSpec => []LoopTypeOK
  BY LoopStart, LoopStep, PTL DEF LoopSpec, LoopInv

\* At every iteration the best is that of the valid peers visited so far.
THEOREM LoopBestSoFar == LoopSpec => []BestSoFar
  BY LoopStart, LoopStep, PTL DEF LoopSpec, LoopInv

\* awdl_election_run (election.c:67-114) computes one outcome, that of
\* ElectionRun, for every peer table and every order of the hash map, while no
\* frame changes a record.
THEOREM LoopComputesElection == LoopSpec => []OrderIrrelevant
  BY LoopStart, LoopStep, LoopOutcome, PTL DEF LoopSpec

\* When frames change records at any points of the run, it leaves one of the
\* outcomes that TornRun allows (election.c:82-113, rx.c:133-143).
THEOREM LoopTornAtMost == LoopSpec => []TornAtMost
  BY LoopStart, LoopStep, LoopTornOutcome, PTL DEF LoopSpec

-----------------------------------------------------------------------------
(* The network.                                                            *)

\* What holds of every election state in the network after k torn elections.
Sound(s, k) ==
    /\ s \in ElectionState
    /\ s.self_addr \in Device
    /\ s.master_addr \in Device
    /\ s.height <= MaxHeight + k
    /\ s.height = 0 <=> s.sync_addr = s.self_addr
    /\ s.height = 0 => s.master_addr = s.self_addr

\* What holds of it besides as long as there is none.
Ranked(s) == << s.master_metric, s.master_counter >> = RankOf(s.master_addr)

\* And of the state node n has elected.
Starred(n, s) ==
    s.master_addr \in Node /\ s.sync_addr # n =>
        s.height = 1 /\ s.sync_addr = s.master_addr /\ s.sync_addr > n

TreeInv ==
    /\ TypeOK
    /\ \A n \in Node :
          /\ Sound(election[n], torn)
          /\ election[n].self_addr = n
          /\ torn = 0 => Ranked(election[n]) /\ Starred(n, election[n])
          /\ \A p \in peers[n] : /\ Sound(p, torn) /\ p.self_addr \in InRange[n]
                                 /\ torn = 0 => Ranked(p)

\* A torn election weakens what is known.
LEMMA SoundGrows ==
    ASSUME NEW s, NEW k \in Nat, Sound(s, k)
    PROVE  Sound(s, k + 1)
  BY ElectionAssumption DEF Sound, ElectionState

\* A node on its own is sound.
LEMMA ResetSound ==
    ASSUME NEW n \in Node, NEW k \in Nat
    PROVE  /\ Sound(ResetSelf(n), k) /\ Ranked(ResetSelf(n)) /\ Starred(n, ResetSelf(n))
           /\ ResetSelf(n).self_addr = n
  BY ElectionAssumption, NetworkAssumption
  DEF Sound, Ranked, Starred, ResetSelf, ElectionState, Address, Device, RankOf

\* An external device is sound.
LEMMA ExtSound ==
    ASSUME NEW x \in External, NEW k \in Nat
    PROVE  Sound(ExtState(x), k) /\ Ranked(ExtState(x))
  BY ElectionAssumption, NetworkAssumption
  DEF Sound, Ranked, ExtState, ElectionState, Address, Device, RankOf

\* The height of a sound state has a successor.
LEMMA OneMoreSound ==
    ASSUME NEW k \in 0 .. MaxTorn, NEW p, Sound(p, k)
    PROVE  OneMore(p.height) = p.height + 1 /\ p.height + 1 \in 1 .. (HeightWord - 1)
  BY ElectionAssumption, BoundAssumption DEF Sound, OneMore, ElectionState

\* What a peer within the height limit announces is adopted one level below it.
LEMMA AdoptSound ==
    ASSUME NEW n \in Node, NEW k \in 0 .. MaxTorn, NEW p, Sound(p, k),
           p.self_addr \in InRange[n], Eligible(n, p), Beats(p, ResetSelf(n))
    PROVE  /\ Sound(Adopt(n, p), k)
           /\ Ranked(p) => Ranked(Adopt(n, p)) /\ Starred(n, Adopt(n, p))
           /\ Adopt(n, p).height = p.height + 1
  <1>1. /\ n \in Address /\ n \in Device /\ p.self_addr # n
        /\ p.self_addr \in Address /\ Device \subseteq Address
    BY NetworkAssumption DEF Device
  <1>2. OneMore(p.height) = p.height + 1 /\ p.height + 1 \in 1 .. (HeightWord - 1)
    BY OneMoreSound
  <1>3. Sound(Adopt(n, p), k)
    BY <1>1, <1>2, ElectionAssumption
    DEF Sound, Adopt, Eligible, WithinLimit, ElectionState, Address
  <1>4. ASSUME Ranked(p), p.master_addr \in Node
        PROVE  p.height = 0 /\ p.self_addr > n /\ p.master_addr = p.self_addr
    <2>1. p.master_metric = MetricInit /\ p.master_counter = CounterInit
      BY <1>4, NetworkAssumption DEF Ranked, RankOf
    <2>2. p.height < 0 \/ (p.height = 0 /\ p.self_addr > n)
      BY <1>1, <2>1, ElectionAssumption DEF Beats, HigherMaster, SameMaster, ResetSelf,
         Sound, ElectionState
    <2>3. QED
      BY <2>2 DEF Sound, ElectionState
  <1>5. Ranked(p) => Ranked(Adopt(n, p)) /\ Starred(n, Adopt(n, p))
    BY <1>2, <1>4 DEF Ranked, Starred, Adopt
  <1>6. QED
    BY <1>2, <1>3, <1>5 DEF Adopt

\* Whatever a node elects from sound peers is sound: it is alone, or one level
\* below a peer it had.
LEMMA ElectedSound ==
    ASSUME NEW n \in Node, NEW k \in 0 .. MaxTorn, NEW P,
           \A p \in P : Sound(p, k) /\ p.self_addr \in InRange[n],
           NEW e \in ElectionRun(n, P)
    PROVE  /\ Sound(e, k) /\ e.self_addr = n
           /\ (\A p \in P : Ranked(p)) => Ranked(e) /\ Starred(n, e)
           /\ \/ e = ResetSelf(n)
              \/ \E p \in P : Claim(p) = Claim(e) /\ p.height <= e.height
  <1>1. CASE e = ResetSelf(n)
    BY <1>1, ResetSound, BoundAssumption
  <1>2. ASSUME NEW p \in Winners(n, P), e = Adopt(n, p)
        PROVE  /\ Sound(e, k) /\ e.self_addr = n
               /\ (\A q \in P : Ranked(q)) => Ranked(e) /\ Starred(n, e)
               /\ \E q \in P : Claim(q) = Claim(e) /\ q.height <= e.height
    <2>1. p \in P /\ Eligible(n, p) /\ Beats(p, ResetSelf(n))
      BY DEF Winners, Candidates
    <2>2. /\ Sound(e, k) /\ e.height = p.height + 1
          /\ Ranked(p) => Ranked(e) /\ Starred(n, e)
      BY <1>2, <2>1, AdoptSound
    <2>3. e.self_addr = n /\ Claim(p) = Claim(e)
      BY <1>2 DEF Adopt, Claim
    <2>4. p.height <= e.height
      BY <2>1, <2>2 DEF Sound, ElectionState
    <2>5. QED
      BY <2>1, <2>2, <2>3, <2>4
  <1>3. QED
    BY <1>1, <1>2 DEF ElectionRun

\* What a torn election leaves is sound but for one level of height.
LEMMA TornSound ==
    ASSUME NEW n \in Node, NEW k \in 0 .. MaxTorn, NEW P,
           \A p \in P : Sound(p, k) /\ p.self_addr \in InRange[n],
           NEW e \in TornRun(n, P)
    PROVE  Sound(e, k + 1) /\ e.self_addr = n
  <1>0. k \in Nat
    BY BoundAssumption
  <1>1. CASE e = ResetSelf(n)
    BY <1>0, <1>1, ResetSound
  <1>2. ASSUME NEW d, e \in Mixtures(n, Versions(P, d))
        PROVE  Sound(e, k + 1) /\ e.self_addr = n
    <2>1. PICK p, q, r, s \in Versions(P, d) : e = Mixture(n, p, q, r, s)
      BY <1>2 DEF Mixtures
    <2>2. Sound(p, k) /\ Sound(q, k) /\ Sound(r, k) /\ Sound(s, k) /\ p.self_addr \in InRange[n]
      BY DEF Versions
    <2>3. OneMore(q.height) = q.height + 1 /\ q.height + 1 \in 1 .. (HeightWord - 1)
      BY <2>2, OneMoreSound
    <2>4. n \in Address /\ n \in Device /\ p.self_addr # n
      BY <2>2, NetworkAssumption DEF Device
    <2>5. e \in ElectionState
      BY <2>1, <2>2, <2>3, <2>4 DEF Sound, Mixture, ElectionState
    <2>6. e.height <= MaxHeight + (k + 1)
      BY <1>0, <2>1, <2>2, <2>3, ElectionAssumption DEF Sound, Mixture, ElectionState
    <2>7. /\ e.self_addr = n /\ e.master_addr = p.master_addr
          /\ e.sync_addr = p.self_addr /\ e.height = q.height + 1
      BY <2>1, <2>3 DEF Mixture
    <2>8. e.height # 0
      BY <2>3, <2>7
    <2>9. QED
      BY <2>2, <2>4, <2>5, <2>6, <2>7, <2>8 DEF Sound
  <1>3. QED
    BY <1>1, <1>2 DEF TornRun

\* Device d announces a sound state under its own address.
LEMMA AnnouncedSound ==
    ASSUME TreeInv, NEW d \in OnAir
    PROVE  /\ Sound(Announced(d), torn) /\ Announced(d).self_addr = d
           /\ torn = 0 => Ranked(Announced(d))
  <1>1. CASE d \in Node
    BY <1>1 DEF TreeInv, Announced
  <1>2. CASE d \notin Node
    <2>1. d \in External /\ torn \in Nat
      BY <1>2, BoundAssumption DEF TreeInv, TypeOK, OnAir
    <2>2. QED
      BY <1>2, <2>1, ExtSound DEF Announced, ExtState
  <1>3. QED
    BY <1>1, <1>2

-----------------------------------------------------------------------------
\* Initially every node is its own master and knows nobody.
LEMMA TreeInit == Init => TreeInv
  <1> SUFFICES ASSUME Init PROVE TreeInv
    OBVIOUS
  <1>1. \A n \in Node : /\ Sound(ResetSelf(n), 0) /\ Ranked(ResetSelf(n))
                        /\ Starred(n, ResetSelf(n)) /\ ResetSelf(n).self_addr = n
    BY ResetSound
  <1>2. \A n \in Node : ResetSelf(n) \in ElectionState
    BY <1>1 DEF Sound
  <1>3. TypeOK
    BY <1>2, BoundAssumption DEF Init, TypeOK
  <1>4. QED
    BY <1>1, <1>2, <1>3 DEF Init, TreeInv

\* A step that gives node n a sound state and sound peers, and leaves the others alone.
LEMMA OneNodeStep ==
    ASSUME TreeInv, NEW n \in Node, NEW e, NEW P,
           election' = [election EXCEPT ![n] = e], peers' = [peers EXCEPT ![n] = P],
           torn' \in 0 .. MaxTorn, torn' = torn \/ torn' = torn + 1,
           present' \subseteq External, disturbed' \in 0 .. MaxDisturb,
           Sound(e, torn'), e.self_addr = n,
           torn' = 0 => Ranked(e) /\ Starred(n, e),
           \A p \in P : /\ Sound(p, torn') /\ p.self_addr \in InRange[n]
                        /\ torn' = 0 => Ranked(p)
    PROVE  TreeInv'
  <1>0. torn \in Nat /\ (torn' = 0 => torn = 0)
    BY BoundAssumption DEF TreeInv, TypeOK
  <1>1. TypeOK'
    BY DEF TreeInv, TypeOK, Sound
  <1>2. ASSUME NEW s, Sound(s, torn) PROVE Sound(s, torn')
    BY <1>0, <1>2, SoundGrows
  <1>3. ASSUME NEW m \in Node
        PROVE  /\ Sound(election'[m], torn') /\ election'[m].self_addr = m
               /\ torn' = 0 => Ranked(election'[m]) /\ Starred(m, election'[m])
               /\ \A p \in peers'[m] : /\ Sound(p, torn') /\ p.self_addr \in InRange[m]
                                       /\ torn' = 0 => Ranked(p)
    <2>1. CASE m = n
      BY <2>1 DEF TreeInv, TypeOK
    <2>2. CASE m # n
      <3>1. election'[m] = election[m] /\ peers'[m] = peers[m]
        BY <2>2 DEF TreeInv, TypeOK
      <3>2. QED
        BY <1>0, <1>2, <3>1 DEF TreeInv
    <2>3. QED
      BY <2>1, <2>2
  <1>4. QED
    BY <1>1, <1>3 DEF TreeInv, Sound, Ranked, Starred, RankOf

\* The two halves of a run of the peer timer, at any node and with any silent peers.
LEMMA CleanStep ==
    ASSUME TreeInv, NEW n \in Node, NEW silent, Clean(n, silent), torn' = torn,
           present' \subseteq External, disturbed' \in 0 .. MaxDisturb
    PROVE  TreeInv'
  <1> DEFINE P == { p \in peers[n] : p.self_addr \notin silent }
  <1>1. PICK e \in ElectionRun(n, P) : election' = [election EXCEPT ![n] = e]
    BY DEF Clean
  <1>2. \A p \in P : /\ Sound(p, torn) /\ p.self_addr \in InRange[n]
                     /\ torn = 0 => Ranked(p)
    BY DEF TreeInv
  <1>3. peers' = [peers EXCEPT ![n] = P]
    BY DEF Clean
  <1> HIDE DEF P
  <1>4. torn \in 0 .. MaxTorn
    BY DEF TreeInv, TypeOK
  <1>5. /\ Sound(e, torn) /\ e.self_addr = n
        /\ torn = 0 => Ranked(e) /\ Starred(n, e)
    BY <1>2, <1>4, ElectedSound
  <1>6. QED
    BY <1>1, <1>2, <1>3, <1>4, <1>5, OneNodeStep

\* A frame that is heard replaces one record.
LEMMA HearStep ==
    ASSUME TreeInv, NEW n \in Node, NEW d \in Device, Hear(n, d)
    PROVE  TreeInv'
  <1> DEFINE P == { p \in peers[n] : p.self_addr # d } \cup { Announced(d) }
  <1>1. /\ Sound(Announced(d), torn) /\ Announced(d).self_addr = d
        /\ torn = 0 => Ranked(Announced(d))
        /\ d \in InRange[n]
    BY AnnouncedSound DEF Hear, HearFrom
  <1>2. /\ election' = [election EXCEPT ![n] = election[n]]
        /\ peers' = [peers EXCEPT ![n] = P]
        /\ torn' = torn /\ present' = present /\ disturbed' = disturbed
    BY DEF Hear, HearFrom, TreeInv, TypeOK
  <1>3. \A p \in P : /\ Sound(p, torn) /\ p.self_addr \in InRange[n]
                     /\ torn = 0 => Ranked(p)
    BY <1>1 DEF TreeInv
  <1>4. /\ torn \in 0 .. MaxTorn /\ present \subseteq External
        /\ disturbed \in 0 .. MaxDisturb
        /\ Sound(election[n], torn) /\ election[n].self_addr = n
        /\ torn = 0 => Ranked(election[n]) /\ Starred(n, election[n])
    BY DEF TreeInv, TypeOK
  <1> HIDE DEF P
  <1>5. QED
    BY <1>2, <1>3, <1>4, OneNodeStep

\* An election that frames come in the middle of.
LEMMA TornStep ==
    ASSUME TreeInv, NEW n \in Node, NEW silent, NEW heard \in SUBSET InRange[n],
           TornElection(n, silent, heard)
    PROVE  TreeInv'
  <1> DEFINE kept == { p \in peers[n] : p.self_addr \notin silent }
             new == { Announced(d) : d \in heard }
             P == { p \in kept : p.self_addr \notin heard } \cup new
  <1>1. /\ torn < MaxTorn /\ heard \subseteq OnAir /\ torn' = torn + 1
        /\ peers' = [peers EXCEPT ![n] = P]
        /\ present' = present /\ disturbed' = disturbed
    BY DEF TornElection
  <1>2. PICK e \in TornRun(n, kept \cup new) : election' = [election EXCEPT ![n] = e]
    BY DEF TornElection
  <1>3. /\ torn \in 0 .. MaxTorn /\ torn \in Nat /\ torn + 1 \in 0 .. MaxTorn
        /\ present \subseteq External /\ disturbed \in 0 .. MaxDisturb
    BY <1>1, BoundAssumption DEF TreeInv, TypeOK
  <1>4. \A p \in kept \cup new : Sound(p, torn) /\ p.self_addr \in InRange[n]
    <2>1. \A p \in kept : Sound(p, torn) /\ p.self_addr \in InRange[n]
      BY DEF TreeInv
    <2>2. \A d \in heard : Sound(Announced(d), torn) /\ Announced(d).self_addr \in InRange[n]
      BY <1>1, AnnouncedSound
    <2>3. QED
      BY <2>1, <2>2
  <1>5. P \subseteq kept \cup new
    OBVIOUS
  <1> HIDE DEF P, kept, new
  <1>6. Sound(e, torn + 1) /\ e.self_addr = n
    BY <1>3, <1>4, TornSound
  <1>7. \A p \in P : Sound(p, torn + 1) /\ p.self_addr \in InRange[n]
    BY <1>3, <1>4, <1>5, SoundGrows
  <1>8. torn' # 0
    BY <1>1, <1>3
  <1>9. QED
    BY <1>1, <1>2, <1>3, <1>6, <1>7, <1>8, OneNodeStep

\* Every step of the network keeps the invariant.
LEMMA TreeStep == TreeInv /\ [Next]_vars => TreeInv'
  <1> SUFFICES ASSUME TreeInv, [Next]_vars PROVE TreeInv'
    OBVIOUS
  <1>1. ASSUME NEW n \in Node, NEW d \in Device, Hear(n, d) PROVE TreeInv'
    BY <1>1, HearStep
  <1>2. ASSUME NEW n \in Node, NEW silent, CleanPeers(n, silent) PROVE TreeInv'
    BY <1>2, CleanStep DEF CleanPeers, TreeInv, TypeOK
  <1>3. ASSUME NEW n \in Node, NEW lost, Blackout(n, lost) PROVE TreeInv'
    <2>1. present' \subseteq External /\ disturbed' \in 0 .. MaxDisturb
      BY <1>3, BoundAssumption DEF Blackout, Disturb, TreeInv, TypeOK
    <2>2. Clean(n, lost) /\ torn' = torn
      BY <1>3 DEF Blackout
    <2>3. QED
      BY <2>1, <2>2, CleanStep
  <1>4. ASSUME NEW n \in Node, NEW silent, NEW heard \in SUBSET InRange[n],
               TornElection(n, silent, heard)
        PROVE  TreeInv'
    BY <1>4, TornStep
  <1>5. ASSUME NEW n \in Node, Restart(n) PROVE TreeInv'
    <2>1. torn \in 0 .. MaxTorn /\ torn \in Nat
      BY BoundAssumption DEF TreeInv, TypeOK
    <2>2. /\ Sound(ResetSelf(n), torn) /\ Ranked(ResetSelf(n))
          /\ Starred(n, ResetSelf(n)) /\ ResetSelf(n).self_addr = n
      BY <2>1, ResetSound
    <2>3. /\ torn' = torn /\ present' \subseteq External /\ disturbed' \in 0 .. MaxDisturb
          /\ election' = [election EXCEPT ![n] = ResetSelf(n)]
          /\ peers' = [peers EXCEPT ![n] = {}]
      BY <1>5, BoundAssumption DEF Restart, Disturb, TreeInv, TypeOK
    <2>4. /\ torn' \in 0 .. MaxTorn
          /\ Sound(ResetSelf(n), torn')
          /\ \A p \in {} : /\ Sound(p, torn') /\ p.self_addr \in InRange[n]
                           /\ torn' = 0 => Ranked(p)
      BY <2>1, <2>2, <2>3
    <2> DEFINE e == ResetSelf(n)
               P == {}
    <2>5. /\ election' = [election EXCEPT ![n] = e] /\ peers' = [peers EXCEPT ![n] = P]
          /\ Sound(e, torn') /\ e.self_addr = n /\ Ranked(e) /\ Starred(n, e)
          /\ \A p \in P : /\ Sound(p, torn') /\ p.self_addr \in InRange[n]
                           /\ torn' = 0 => Ranked(p)
      BY <2>2, <2>3, <2>4
    <2> HIDE DEF e, P
    <2>6. QED
      BY <2>3, <2>4, <2>5, OneNodeStep
  <1>6. ASSUME NEW x \in External, Arrive(x) \/ Leave(x) PROVE TreeInv'
    BY <1>6, BoundAssumption
    DEF TreeInv, TypeOK, Arrive, Leave, Disturb, Sound, Ranked, RankOf, Starred
  <1>7. ASSUME UNCHANGED vars PROVE TreeInv'
    BY <1>7 DEF vars, TreeInv, TypeOK, Sound, Ranked, RankOf, Starred
  <1>8. QED
    BY <1>1, <1>2, <1>3, <1>4, <1>5, <1>6, <1>7 DEF Next

\* The invariant is what the checked invariants say, of every state at once.
LEMMA TreeFacts ==
    TreeInv => TypeOK /\ MasterIsReal /\ DepthBounded /\ OwnTreesAreStars
  <1> SUFFICES ASSUME TreeInv
               PROVE  TypeOK /\ MasterIsReal /\ DepthBounded /\ OwnTreesAreStars
    OBVIOUS
  <1>1. \A s \in States : Sound(s, torn) /\ (torn = 0 => Ranked(s))
    BY DEF States, TreeInv
  <1>2. MasterIsReal
    BY <1>1 DEF MasterIsReal, RealMasters, Sound, Ranked
  <1>3. DepthBounded
    BY <1>1 DEF DepthBounded, Sound
  <1>4. OwnTreesAreStars
    BY DEF OwnTreesAreStars, Star, Starred, TreeInv
  <1>5. QED
    BY <1>2, <1>3, <1>4 DEF TreeInv

\* A node that is its own master roots its claim.
LEMMA ResetRooted ==
    ASSUME NEW n \in Node, election'[n] = ResetSelf(n)
    PROVE  Rooted(Claim(ResetSelf(n)))'
  <1>1. n \in OnAir' /\ Announced(n)' = ResetSelf(n)
    BY DEF OnAir, Announced
  <1>2. ResetSelf(n).height = 0
    BY DEF ResetSelf
  <1>3. QED
    BY <1>1, <1>2 DEF Rooted

\* A step adds no claim to a master that is away nearer than the nearest there was:
\* what is heard was there, and adopting adds one.
LEMMA GhostStep == TreeInv /\ [Next]_vars => GhostsRecede
  <1> SUFFICES ASSUME TreeInv, [Next]_vars, torn' = torn,
                      NEW s \in States' \ States,
                      ~Rooted(Claim(s)), ~Rooted(Claim(s))'
               PROVE  \E t \in States : Claim(t) = Claim(s) /\ t.height <= s.height
    BY DEF GhostsRecede
  <1>1. ASSUME NEW n \in Node, NEW d \in Device, Hear(n, d)
        PROVE  FALSE
    <2>1. s = Announced(d)
      BY <1>1 DEF States, Hear, HearFrom, TreeInv, TypeOK
    <2>2. CASE d \in Node
      BY <2>1, <2>2 DEF Announced, States
    <2>3. CASE d \notin Node
      <3>1. d \in OnAir /\ Announced(d).height = 0
        BY <1>1, <2>3 DEF Hear, HearFrom, Announced, ExtState
      <3>2. QED
        BY <2>1, <3>1 DEF Rooted
    <2>4. QED
      BY <2>2, <2>3
  <1>2. ASSUME NEW n \in Node, NEW silent, Clean(n, silent)
        PROVE  \E t \in States : Claim(t) = Claim(s) /\ t.height <= s.height
    <2> DEFINE P == { p \in peers[n] : p.self_addr \notin silent }
    <2>1. PICK e \in ElectionRun(n, P) : election' = [election EXCEPT ![n] = e]
      BY <1>2 DEF Clean
    <2>2. P \subseteq peers[n] /\ peers' = [peers EXCEPT ![n] = P]
      BY <1>2 DEF Clean
    <2>3. (\A p \in P : Sound(p, torn) /\ p.self_addr \in InRange[n]) /\ torn \in 0 .. MaxTorn
      BY DEF TreeInv, TypeOK
    <2> HIDE DEF P
    <2>4. s = e /\ election'[n] = e
      BY <2>1, <2>2 DEF States, TreeInv, TypeOK
    <2>5. \/ e = ResetSelf(n)
          \/ \E p \in P : Claim(p) = Claim(e) /\ p.height <= e.height
      BY <2>3, ElectedSound
    <2>6. e # ResetSelf(n)
      BY <2>4, ResetRooted
    <2>7. P \subseteq States
      BY <2>2 DEF States
    <2>8. QED
      BY <2>4, <2>5, <2>6, <2>7
  <1>3. ASSUME NEW n \in Node, Restart(n)
        PROVE  FALSE
    <2>1. s = ResetSelf(n) /\ election'[n] = ResetSelf(n)
      BY <1>3 DEF Restart, States, TreeInv, TypeOK
    <2>2. QED
      BY <2>1, ResetRooted
  <1>4. ASSUME NEW n \in Node, NEW silent, NEW heard, TornElection(n, silent, heard)
        PROVE  FALSE
    BY <1>4, BoundAssumption DEF TornElection, TreeInv, TypeOK
  <1>5. ASSUME \/ UNCHANGED vars
               \/ \E y \in External : Arrive(y) \/ Leave(y)
        PROVE  FALSE
    BY <1>5 DEF vars, Arrive, Leave, States
  <1>6. QED
    BY <1>1, <1>2, <1>3, <1>4, <1>5 DEF Next, CleanPeers, Blackout

\* Types, for every network.
THEOREM TreeTypeCorrect == Spec => []TypeOK
  BY TreeInit, TreeStep, TreeFacts, PTL DEF Spec

\* No node pairs a master with the rank of another one before a frame comes in the
\* middle of an election.
THEOREM TreeMasterIsReal == Spec => []MasterIsReal
  BY TreeInit, TreeStep, TreeFacts, PTL DEF Spec

\* The height limit of election.h:25 holds in every network but for one level for each
\* election that read a height twice (election.c:82 and 113).
THEOREM TreeDepthBounded == Spec => []DepthBounded
  BY TreeInit, TreeStep, TreeFacts, PTL DEF Spec

\* Nodes with no external master are in stars of depth one whose links lead to
\* larger addresses: election.c:88's "no cycles" for every such network before a
\* frame comes in the middle of an election.
THEOREM TreeOwnStars == Spec => []OwnTreesAreStars
  BY TreeInit, TreeStep, TreeFacts, PTL DEF Spec

\* The claims to a master that has left, or that a torn election has made up, only
\* move away from it, in every network: counting to infinity climbs to the height
\* limit and ends there.
THEOREM TreeGhostsOnlyRecede == Spec => GhostsOnlyRecede
  BY TreeInit, TreeStep, GhostStep, PTL DEF Spec, GhostsOnlyRecede
=============================================================================
