--------------------------- MODULE PeerTable_proof ---------------------------
(***************************************************************************)
(* Proofs about the peer table, for any set of peers, of claims and of     *)
(* frames, any timeout and any number of heap blocks.                      *)
(*                                                                         *)
(* The WiFi task runs to the end of a frame once it has begun, but it      *)
(* begins at any point of the clean-up.  The invariant says, for each      *)
(* point of the clean-up, what a frame may change under it and what it     *)
(* cannot, until a put upsets the map; a restart sets it right again.      *)
(***************************************************************************)
EXTENDS PeerTable, TLAPS

USE DEF map

Known == { a \in Peers : table[a] # None }

\* The map leads from an address to an allocated block of that address, one each.
Mapped ==
    /\ \A a \in Known : table[a] \in live /\ peer[table[a]].election.self_addr = a
    /\ \A a, b \in Known : table[a] = table[b] => a = b

\* What NoOrphan says before a put has upset the map.
NoLoss ==
    /\ \A a, b \in Peers : table[a] # None /\ table[a] = table[b] => a = b
    /\ \A b \in live : \/ \E a \in Peers : table[a] = b
                       \/ clean.pc \in {"data", "key", "free"} /\ clean.ptr = b

\* The sender of a frame is in the map from the first awdl_peer_add on.
Receiving ==
    /\ rx.pc \in {"get", "tlvs", "again"} => Src \in Known
    /\ rx.pc \in {"tlvs", "again"} => rx.ptr = table[Src]
    /\ rx.pc # "idle" => silence[Src] = 0

Follows(b) == \E a \in Known : table[a] = b /\ peer[b].is_valid

\* The clean-up: where its pointers lead to.
Cleaning ==
    /\ clean.pc = "remove" => clean.addr \in Known /\ clean.ptr = table[clean.addr]
    /\ clean.pc \in {"data", "key"} => clean.addr = None
    /\ clean.pc \in {"data", "key", "free"} =>
          clean.ptr \in live /\ \A a \in Known : table[a] # clean.ptr
    /\ clean.pc \in {"elect", "height"} => clean.best = None \/ Follows(clean.best)
    /\ clean.pc = "elect" => election = ResetSelf(Self)
    /\ clean.pc = "height" => clean.best # None

\* After the election the node follows itself or a valid peer.
Followed ==
    clean.pc \in {"height", "rearm", "idle"} =>
        LET s == election.sync_addr IN
        s = Self \/ (s \in Known /\ peer[table[s]].is_valid)

\* The peers the clean-up has been past, and all of them until the clock ticks.
Passed ==
    IF clean.pc \in {"expire", "free"} \cup Removing THEN Peers \ clean.todo
    ELSE IF clean.pc = "idle" /\ countdown = 0 THEN {}
    ELSE Peers

\* No record is older than the silence of its peer allows.
Timely ==
    /\ clean.pc # "idle" => countdown = 0
    /\ \A a \in Known :
          /\ silence[a] <= peer[table[a]].age
          /\ peer[table[a]].age <= Timeout + 1
          /\ a \in Passed =>
                \/ peer[table[a]].age <= Timeout
                \/ clean.pc = "remove" /\ clean.addr = a

Intact == hollow = {} /\ keyless = {} /\ clean.pc # "wild" /\ upset = FALSE

Sound ==
    TypeOK /\ Intact /\ Mapped /\ NoLoss /\ Receiving /\ Cleaning /\ Followed /\ Timely
PeerInv == upset \/ Sound

Others == << election, uptime, countdown, silence, clean >>

\* Everything a step of the WiFi task has to preserve, but for its own state.
TableInv == Mapped /\ NoLoss /\ Cleaning /\ Followed /\ Timely

-----------------------------------------------------------------------------
(* Types of what the actions write.                                        *)

\* The state of the WiFi task has the fields its place calls for.
LEMMA RxShape ==
  ASSUME TypeOK, rx.pc # "idle"
  PROVE  rx \in [ pc : Working, claim : Claims, tlvs : Seq(TlvType), mif : BOOLEAN,
                  ptr : Block \cup {None} ]
  BY DEF TypeOK, RxState

\* So has the state of the esp_timer task.
LEMMA CleanShape ==
  ASSUME TypeOK
  PROVE  /\ clean.pc = "expire" => clean \in [ pc : {"expire"}, todo : SUBSET Peers ]
         /\ clean.pc \in Removing \cup {"free"} =>
               clean \in [ pc : Removing \cup {"free"}, todo : SUBSET Peers,
                           addr : Peers \cup {None}, ptr : Block ]
         /\ clean.pc \in {"elect", "height"} =>
               clean \in [ pc : {"elect", "height"}, todo : SUBSET Peers,
                           best : Block \cup {None} ]
  BY DEF TypeOK, CleanState, Removing

\* A node's own state, and what it adopts, are election states.
LEMMA ElectionTypes ==
  /\ \A a \in Address : ResetSelf(a) \in ElectionState /\ ResetSelf(a).self_addr = a
                         /\ ResetSelf(a).sync_addr = a
  /\ \A a \in Address, p \in ElectionState :
        Adopt(a, p) \in ElectionState /\ Adopt(a, p).sync_addr = p.self_addr
  /\ \A h \in 0 .. HeightWord - 1 : OneMore(h) \in 0 .. HeightWord - 1
  BY ElectionAssumption DEF ElectionState, Address, ResetSelf, Adopt, OneMore

\* A new record is young and names its peer.
LEMMA NewPeerType ==
  \A a \in Address : NewPeer(a) \in PeerRecord /\ NewPeer(a).election.self_addr = a
                     /\ NewPeer(a).age = 0
  BY ElectionTypes, PeerAssumption DEF NewPeer, PeerRecord, Age, MaxAge

\* An update makes a record young and no valid peer invalid.
LEMMA UpdatedType ==
  \A p \in PeerRecord :
     /\ Updated(p) \in PeerRecord
     /\ Updated(p).election = p.election
     /\ Updated(p).age = 0
     /\ p.is_valid => Updated(p).is_valid
  <1> SUFFICES ASSUME NEW p \in PeerRecord
      PROVE  /\ Updated(p) \in PeerRecord
             /\ Updated(p).election = p.election
             /\ Updated(p).age = 0
             /\ p.is_valid => Updated(p).is_valid
    OBVIOUS
  <1>1. PICK v \in BOOLEAN : v = (p.is_valid \/ (p.sent_mif /\ p.version))
    OBVIOUS
  <1>2. Updated(p) = [p EXCEPT !.age = 0, !.is_valid = v]
    BY <1>1, Zenon DEF Updated
  <1>3. p.is_valid => v
    BY <1>1, Zenon
  <1>4. 0 \in Age
    BY PeerAssumption DEF Age, MaxAge
  <1>5. Updated(p) \in PeerRecord
    BY <1>2, <1>4 DEF PeerRecord
  <1>6. Updated(p).election = p.election /\ Updated(p).age = 0 /\ Updated(p).is_valid = v
    BY <1>2 DEF PeerRecord
  <1>7. QED
    BY <1>3, <1>5, <1>6, Zenon

\* A TLV of the sender leaves its record a record of the sender.
LEMMA WrittenType ==
  ASSUME TypeOK, rx.pc = "tlvs", NEW p \in PeerRecord, p.election.self_addr = Src,
         NEW t
  PROVE  /\ Written(p, t) \in PeerRecord
         /\ Written(p, t).election.self_addr = Src
         /\ Written(p, t).age = p.age
         /\ Written(p, t).is_valid = p.is_valid
  <1>1. rx.claim \in ElectionState /\ rx.claim.self_addr = Src
    BY RxShape, PeerAssumption DEF Src
  <1>2. QED
    BY <1>1 DEF Written, PeerRecord, ElectionState
-----------------------------------------------------------------------------
(* What a frame does to the table under the clean-up.                      *)

\* A record in the map is rewritten: it stays a record of its peer, does not turn
\* invalid and does not age.
LEMMA Rewrite ==
  ASSUME TypeOK, TableInv, NEW a \in Known, NEW q \in PeerRecord,
         q.election.self_addr = a,
         peer[table[a]].is_valid => q.is_valid,
         q.age = peer[table[a]].age \/ (q.age = 0 /\ silence[a] = 0),
         peer' = [peer EXCEPT ![table[a]] = q],
         UNCHANGED << table, live, Others >>
  PROVE  peer' \in [Block -> PeerRecord] /\ TableInv'
  <1> USE DEF TableInv
  <1>1. /\ UNCHANGED << table, live, election, uptime, countdown, silence, clean >>
        /\ Known' = Known /\ Passed' = Passed
    BY DEF Others, Known, Passed
  <1>2. table \in [Peers -> Block \cup {None}] /\ peer \in [Block -> PeerRecord]
    BY DEF TypeOK
  <1>3. table[a] \in Block /\ table[a] # None
    BY <1>2 DEF Known
  <1>4. /\ peer' \in [Block -> PeerRecord]
        /\ peer'[table[a]] = q
        /\ \A b \in Block : b # table[a] => peer'[b] = peer[b]
    BY <1>2, <1>3
  <1>5. \A c \in Known : c # a => table[c] \in Block /\ peer'[table[c]] = peer[table[c]]
    BY <1>2, <1>4 DEF Known, Mapped
  <1>6. \A c \in Known : /\ peer'[table[c]].election.self_addr = c
                         /\ peer[table[c]].is_valid => peer'[table[c]].is_valid
    BY <1>4, <1>5 DEF Mapped
  <1>7. Mapped'
    BY <1>1, <1>6 DEF Mapped
  <1>8. NoLoss'
    BY <1>1 DEF NoLoss
  <1>9. \A b : Follows(b) => Follows(b)'
    BY <1>1, <1>6 DEF Follows
  <1>10. Cleaning'
    BY <1>1, <1>9 DEF Cleaning
  <1>11. Followed'
    BY <1>1, <1>6 DEF Followed
  <1>12. \A c \in Known : peer'[table[c]].age = peer[table[c]].age
                           \/ (peer'[table[c]].age = 0 /\ silence[c] = 0)
    BY <1>4, <1>5
  <1>13. Timely'
    BY <1>1, <1>12, PeerAssumption DEF Timely
  <1>14. QED
    BY <1>4, <1>7, <1>8, <1>10, <1>11, <1>13

\* A new record enters the map.
LEMMA Insert ==
  ASSUME TypeOK, TableInv, NEW a \in Peers, a \notin Known, silence[a] = 0,
         NEW b \in Block \ live,
         peer' = [peer EXCEPT ![b] = NewPeer(a)],
         live' = live \cup {b},
         table' = [table EXCEPT ![a] = b],
         UNCHANGED Others
  PROVE  /\ peer' \in [Block -> PeerRecord] /\ table' \in [Peers -> Block \cup {None}]
         /\ TableInv'
  <1> USE DEF TableInv
  <1>1. UNCHANGED << election, uptime, countdown, silence, clean >> /\ Passed' = Passed
    BY DEF Others, Passed
  <1>2. table \in [Peers -> Block \cup {None}] /\ peer \in [Block -> PeerRecord]
    BY DEF TypeOK
  <1>3. a \in Address
    BY PeerAssumption
  <1>4. /\ table' \in [Peers -> Block \cup {None}] /\ table'[a] = b
        /\ \A c \in Peers : c # a => table'[c] = table[c]
    BY <1>2
  <1>5. /\ peer' \in [Block -> PeerRecord] /\ peer'[b] = NewPeer(a)
        /\ \A c \in Block : c # b => peer'[c] = peer[c]
    BY <1>2, <1>3, NewPeerType
  <1>6. b # None
    BY PeerAssumption
  <1>7. Known' = Known \cup {a}
    BY <1>4, <1>6 DEF Known
  <1>8. \A c \in Known : /\ c # a /\ table'[c] = table[c] /\ table[c] \in live
                         /\ table[c] \in Block /\ table[c] # b
                         /\ peer'[table'[c]] = peer[table[c]]
    BY <1>2, <1>4, <1>5 DEF Known, Mapped
  <1>9. Mapped'
    BY <1>3, <1>4, <1>5, <1>7, <1>8, NewPeerType DEF Mapped
  <1>10. NoLoss'
    <2>1. \A c \in Peers : table'[c] # None => c \in Known'
      BY DEF Known
    <2>2. \A c, d \in Peers : table'[c] # None /\ table'[c] = table'[d] => c = d
      BY <1>9, <2>1 DEF Mapped
    <2>3. \A d \in live : \/ \E c \in Peers : table'[c] = d
                          \/ clean.pc \in {"data", "key", "free"} /\ clean.ptr = d
      <3> SUFFICES ASSUME NEW d \in live,
                          ~(clean.pc \in {"data", "key", "free"} /\ clean.ptr = d)
                   PROVE  \E c \in Peers : table'[c] = d
        OBVIOUS
      <3>1. PICK c \in Peers : table[c] = d
        BY DEF NoLoss
      <3>2. c \in Known
        BY <3>1, PeerAssumption DEF Known, TypeOK
      <3>3. QED
        BY <1>8, <3>1, <3>2
    <2>4. QED
      BY <1>1, <1>4, <2>2, <2>3 DEF NoLoss
  <1>11. \A c : Follows(c) => Follows(c)'
    <2> SUFFICES ASSUME NEW c, Follows(c) PROVE Follows(c)'
      OBVIOUS
    <2>1. PICK d \in Known : table[d] = c /\ peer[c].is_valid
      BY DEF Follows
    <2>2. table'[d] = c /\ peer'[c] = peer[c] /\ d \in Known'
      BY <1>7, <1>8, <2>1
    <2>3. QED
      BY <2>1, <2>2 DEF Follows
  <1>12. Cleaning'
    <2>1. clean.pc = "remove" =>
              clean.addr \in Known' /\ clean.ptr = table'[clean.addr]
      BY <1>7, <1>8 DEF Cleaning
    <2>2. clean.pc \in {"data", "key", "free"} =>
              clean.ptr \in live' /\ \A c \in Known' : table'[c] # clean.ptr
      BY <1>4, <1>7, <1>8 DEF Cleaning
    <2>3. QED
      BY <1>1, <1>11, <2>1, <2>2 DEF Cleaning
  <1>13. Followed'
    BY <1>1, <1>7, <1>8 DEF Followed
  <1>14. Timely'
    BY <1>1, <1>3, <1>4, <1>5, <1>7, <1>8, NewPeerType, PeerAssumption DEF Timely
  <1>15. QED
    BY <1>4, <1>5, <1>9, <1>10, <1>12, <1>13, <1>14
-----------------------------------------------------------------------------
(* The WiFi task.                                                          *)

\* A put that does not upset the map leaves the clean-up alone.
LEMMA AddKeeps ==
  ASSUME PeerAdd \/ PeerAddFails, ~upset'
  PROVE  UNCHANGED clean /\ (PeerAddFails => UNCHANGED << table, peer, live >>)
  BY DEF PeerAdd, PeerUpdate, PeerNew, PeerAddFails, Put, TakesSlot, Moved

\* awdl_peer_add leaves its peer in the map.
LEMMA AddStep ==
  ASSUME Sound, rx.pc \in {"add", "again"}, PeerAdd, UNCHANGED Others
  PROVE  /\ peer' \in [Block -> PeerRecord] /\ table' \in [Peers -> Block \cup {None}]
         /\ live' \subseteq Block
         /\ TableInv' /\ table'[Src] # None
  <1> USE DEF Sound, Intact
  <1>1. Src \in Peers /\ silence[Src] = 0
    BY RxShape, PeerAssumption DEF Src, Receiving
  <1>2. TableInv /\ table \in [Peers -> Block \cup {None}] /\ live \subseteq Block
    BY DEF TableInv, TypeOK
  <1>3. CASE /\ table[Src] # None
             /\ peer' = [peer EXCEPT ![table[Src]] = Updated(@)]
             /\ UNCHANGED << table, live >>
    <2>1. Src \in Known
      BY <1>1, <1>3 DEF Known
    <2>2. peer[table[Src]] \in PeerRecord
      BY <1>1, <1>2, <1>3 DEF TypeOK
    <2>3. /\ Updated(peer[table[Src]]) \in PeerRecord
          /\ Updated(peer[table[Src]]).election.self_addr = Src
          /\ Updated(peer[table[Src]]).age = 0
          /\ peer[table[Src]].is_valid => Updated(peer[table[Src]]).is_valid
      BY <2>1, <2>2, UpdatedType DEF Mapped
    <2>4. peer' = [peer EXCEPT ![table[Src]] = Updated(peer[table[Src]])]
      BY <1>3
    <2>5. peer' \in [Block -> PeerRecord] /\ TableInv'
      BY <1>1, <1>2, <1>3, <2>1, <2>3, <2>4, Rewrite
    <2>6. QED
      BY <1>2, <1>3, <2>5
  <1>4. CASE /\ table[Src] = None
             /\ \E b \in Block \ live :
                   /\ peer' = [peer EXCEPT ![b] = NewPeer(Src)]
                   /\ live' = live \cup {b}
                   /\ table' = [table EXCEPT ![Src] = b]
    <2>1. Src \notin Known
      BY <1>4 DEF Known
    <2>2. PICK b \in Block \ live : /\ peer' = [peer EXCEPT ![b] = NewPeer(Src)]
                                    /\ live' = live \cup {b}
                                    /\ table' = [table EXCEPT ![Src] = b]
      BY <1>4
    <2>3. /\ peer' \in [Block -> PeerRecord] /\ table' \in [Peers -> Block \cup {None}]
          /\ TableInv'
      BY <1>1, <1>2, <2>1, <2>2, Insert
    <2>4. table'[Src] = b /\ b # None
      BY <1>1, <1>2, <2>2, PeerAssumption
    <2>5. QED
      BY <1>2, <2>2, <2>3, <2>4
  <1>5. QED
    BY <1>3, <1>4 DEF PeerAdd, PeerUpdate, PeerNew, Put

\* A frame, at whatever point of the clean-up it comes.
LEMMA RxStep == Sound /\ RxAction /\ Intact' => Sound'
  <1> SUFFICES ASSUME Sound, RxAction, Intact' PROVE Sound'
    OBVIOUS
  <1> USE DEF Sound, Intact
  <1>1. TypeOK /\ TableInv
    BY DEF TableInv
  <1>2. ASSUME NEW c \in Claims, NEW tlvs \in Tlvs, NEW mif \in BOOLEAN,
               Receive(c, tlvs, mif)
        PROVE  Sound'
    <2>1. /\ rx' = [pc |-> "add", claim |-> c, tlvs |-> tlvs, mif |-> mif, ptr |-> None]
          /\ silence' = [silence EXCEPT ![c.self_addr] = 0]
          /\ UNCHANGED << table, peer, live, election, uptime, countdown, clean >>
      BY <1>2 DEF Receive
    <2>2. c.self_addr \in Peers /\ tlvs \in Seq(TlvType)
      BY PeerAssumption
    <2>3. /\ silence' \in [Peers -> Age] /\ silence'[c.self_addr] = 0
          /\ \A a \in Peers : silence'[a] = silence[a] \/ silence'[a] = 0
      BY <2>1, <2>2, PeerAssumption DEF TypeOK, Age, MaxAge
    <2>4. rx' \in RxState
      BY <2>1, <2>2 DEF RxState, Working
    <2>5. TypeOK'
      BY <2>1, <2>3, <2>4 DEF TypeOK
    <2>6. Mapped' /\ NoLoss' /\ Cleaning' /\ Followed'
      BY <2>1 DEF Mapped, NoLoss, Cleaning, Followed, Known, Follows
    <2>7. Receiving'
      BY <2>1, <2>3 DEF Receiving, Src
    <2>8. Timely'
      <3>1. Known' = Known /\ Passed' = Passed
        BY <2>1 DEF Known, Passed, Removing
      <3>2. \A a \in Known : peer[table[a]].age \in Nat
        BY PeerAssumption DEF Known, TypeOK, PeerRecord, Age, MaxAge
      <3>3. QED
        BY <2>1, <2>3, <3>1, <3>2 DEF Timely, Known
    <2>9. QED
      BY <2>5, <2>6, <2>7, <2>8
  <1>3. CASE FirstAdd /\ PeerAdd /\ rx' = [rx EXCEPT !.pc = "get"]
    <2>1. /\ rx.pc = "add" /\ PeerAdd /\ rx' = [rx EXCEPT !.pc = "get"]
          /\ UNCHANGED Others
      BY <1>3, AddKeeps DEF FirstAdd, Others, Intact
    <2>2. rx' \in RxState /\ rx'.pc = "get" /\ rx'.claim = rx.claim
      BY <2>1, RxShape DEF RxState, Working
    <2>3. /\ peer' \in [Block -> PeerRecord] /\ table' \in [Peers -> Block \cup {None}]
          /\ live' \subseteq Block /\ TableInv' /\ table'[Src] # None
      BY <2>1, AddStep
    <2>4. TypeOK'
      BY <2>1, <2>2, <2>3 DEF TypeOK, Others
    <2>5. Receiving'
      BY <2>1, <2>2, <2>3, RxShape, PeerAssumption DEF Receiving, Src, Known, Others
    <2>6. QED
      BY <2>3, <2>4, <2>5 DEF TableInv
  <1>4. CASE SecondAdd /\ PeerAdd
    <2>1. /\ rx.pc = "again" /\ PeerAdd /\ rx' = [pc |-> "idle"]
          /\ UNCHANGED Others
      BY <1>4, AddKeeps DEF SecondAdd, Others, Intact
    <2>2. rx' \in RxState /\ rx'.pc = "idle"
      BY <2>1 DEF RxState
    <2>3. /\ peer' \in [Block -> PeerRecord] /\ table' \in [Peers -> Block \cup {None}]
          /\ live' \subseteq Block /\ TableInv'
      BY <2>1, AddStep
    <2>4. TypeOK'
      BY <2>1, <2>2, <2>3 DEF TypeOK, Others
    <2>5. QED
      BY <2>2, <2>3, <2>4 DEF TableInv, Receiving
  <1>5. CASE PeerGet
    <2>1. /\ rx.pc = "get" /\ Src \in Known
          /\ rx' = [rx EXCEPT !.pc = "tlvs", !.ptr = table[Src]]
          /\ UNCHANGED << table, peer, live, election, uptime, countdown, silence, clean >>
      BY <1>5 DEF PeerGet, Receiving, Known
    <2>2. table[Src] \in Block
      BY <2>1 DEF Known, TypeOK
    <2>3. /\ rx' \in RxState /\ rx'.pc = "tlvs" /\ rx'.claim = rx.claim
          /\ rx'.ptr = table[Src]
      BY <2>1, <2>2, RxShape DEF RxState, Working
    <2>4. TypeOK'
      BY <2>1, <2>3 DEF TypeOK
    <2>5. Receiving'
      BY <2>1, <2>3 DEF Receiving, Src, Known
    <2>6. QED
      BY <2>1, <2>4, <2>5
         DEF Mapped, NoLoss, Cleaning, Followed, Timely, Known, Follows, Passed
  <1>6. CASE HandleTlv
    <2> DEFINE p == peer[table[Src]]
               q == Written(p, Head(rx.tlvs))
    <2>1. /\ rx.pc = "tlvs" /\ rx.tlvs # << >> /\ rx.ptr = table[Src] /\ Src \in Known
          /\ peer' = [peer EXCEPT ![table[Src]] = q]
          /\ UNCHANGED << table, live, Others >>
      BY <1>6 DEF HandleTlv, Receiving, Others
    <2>2. p \in PeerRecord /\ p.election.self_addr = Src
      BY <2>1, PeerAssumption DEF Known, Mapped, TypeOK
    <2>3. /\ q \in PeerRecord /\ q.election.self_addr = Src
          /\ q.age = p.age /\ q.is_valid = p.is_valid
      BY <2>1, <2>2, WrittenType
    <2> HIDE DEF q
    <2>4. peer' \in [Block -> PeerRecord] /\ TableInv'
      BY <1>1, <2>1, <2>3, Rewrite
    <2>5. Tail(rx.tlvs) \in Seq(TlvType)
      BY <2>1, RxShape
    <2>6. /\ rx' \in RxState
          /\ \/ rx'.pc = "idle"
             \/ rx'.pc = "tlvs" /\ rx'.claim = rx.claim /\ rx'.ptr = rx.ptr
      BY <1>6, <2>1, <2>5, RxShape DEF HandleTlv, RxState, Working
    <2>7. TypeOK'
      BY <2>1, <2>4, <2>6 DEF TypeOK, Others
    <2>8. Receiving'
      BY <2>1, <2>6 DEF Receiving, Src, Known, Others
    <2>9. QED
      BY <2>4, <2>7, <2>8 DEF TableInv
  <1>7. CASE Parsed
    <2> DEFINE p == peer[table[Src]]
    <2>1. /\ rx.pc = "tlvs" /\ rx.ptr = table[Src] /\ Src \in Known
          /\ peer' = [peer EXCEPT ![table[Src]] = [p EXCEPT !.sent_mif = @ \/ rx.mif]]
          /\ rx' = [rx EXCEPT !.pc = "again"]
          /\ UNCHANGED << table, live, Others >>
      BY <1>7 DEF Parsed, Receiving, Others
    <2>2. p \in PeerRecord /\ p.election.self_addr = Src
      BY <2>1, PeerAssumption DEF Known, Mapped, TypeOK
    <2>3. PICK v \in BOOLEAN : v = (p.sent_mif \/ rx.mif)
      OBVIOUS
    <2>4. peer' = [peer EXCEPT ![table[Src]] = [p EXCEPT !.sent_mif = v]]
      BY <2>1, <2>3, Zenon
    <2> DEFINE q == [p EXCEPT !.sent_mif = v]
    <2>5. /\ q \in PeerRecord /\ q.election.self_addr = Src
          /\ q.age = p.age /\ q.is_valid = p.is_valid
      BY <2>2 DEF PeerRecord
    <2> HIDE DEF q
    <2>6. peer' = [peer EXCEPT ![table[Src]] = q]
      BY <2>4 DEF q
    <2>7. peer' \in [Block -> PeerRecord] /\ TableInv'
      BY <1>1, <2>1, <2>5, <2>6, Rewrite
    <2>8. /\ rx' \in RxState /\ rx'.pc = "again" /\ rx'.claim = rx.claim
          /\ rx'.ptr = rx.ptr
      BY <2>1, RxShape DEF RxState, Working
    <2>9. TypeOK'
      BY <2>1, <2>7, <2>8 DEF TypeOK, Others
    <2>10. Receiving'
      BY <2>1, <2>8 DEF Receiving, Src, Known, Others
    <2>11. QED
      BY <2>7, <2>9, <2>10 DEF TableInv
  <1>8. CASE PeerAddFails /\ (FirstAdd \/ SecondAdd) /\ rx' = [pc |-> "idle"]
    <2>1. UNCHANGED << table, peer, live, election, uptime, countdown, silence, clean >>
      BY <1>8, AddKeeps DEF FirstAdd, SecondAdd, Intact
    <2>2. rx' \in RxState /\ rx'.pc = "idle"
      BY <1>8 DEF RxState
    <2>3. TypeOK' /\ Receiving'
      BY <2>1, <2>2 DEF TypeOK, Intact, Receiving
    <2>4. QED
      BY <2>1, <2>3
         DEF Mapped, NoLoss, Cleaning, Followed, Timely, Known, Follows, Passed
  <1>9. QED
    BY <1>2, <1>3, <1>4, <1>5, <1>6, <1>7, <1>8 DEF RxAction, FirstAdd, SecondAdd
-----------------------------------------------------------------------------
(* The esp_timer task, which finds the WiFi task waiting.                  *)

\* The clean-up looks at the peers one by one and takes the stale ones out.
LEMMA ExpireStep ==
  ASSUME Sound, Intact', rx.pc = "idle",
         UNCHANGED << election, uptime, countdown, silence, rx >>,
         Fire \/ Remove \/ ClearData \/ ClearKey \/ Free \/ \E a \in Peers : Keep(a) \/ FindStale(a)
  PROVE  Sound'
  <1> USE DEF Sound, Intact
  <1>1. Receiving'
    BY DEF Receiving
  <1>2. table \in [Peers -> Block \cup {None}] /\ peer \in [Block -> PeerRecord]
    BY DEF TypeOK
  <1>3. CASE Fire
    <2>1. /\ clean' = [pc |-> "expire", todo |-> Peers] /\ countdown = 0
          /\ UNCHANGED << table, peer, live >>
      BY <1>3 DEF Fire
    <2>2. clean' \in CleanState /\ clean'.pc = "expire" /\ clean'.todo = Peers
      BY <2>1 DEF CleanState, Removing
    <2>3. TypeOK' /\ Mapped' /\ NoLoss' /\ Cleaning' /\ Followed'
      <3>1. clean.pc = "idle"
        BY <1>3 DEF Fire, TimerAt
      <3>2. QED
        BY <2>1, <2>2, <3>1 DEF TypeOK, Mapped, NoLoss, Cleaning, Followed, Known, Follows
    <2>4. Timely'
      BY <2>1, <2>2 DEF Timely, Known, Passed, Removing
    <2>5. QED
      BY <1>1, <2>3, <2>4
  <1>4. ASSUME NEW a \in Peers, Keep(a) PROVE Sound'
    <2>1. /\ clean.pc = "expire" /\ clean' = [clean EXCEPT !.todo = @ \ {a}]
          /\ UNCHANGED << table, peer, live >> /\ ~Expired(a)
      BY <1>4 DEF Keep, TimerAt
    <2>2. /\ clean' \in CleanState /\ clean'.pc = "expire"
          /\ clean'.todo = clean.todo \ {a}
      BY <2>1, CleanShape DEF CleanState, Removing
    <2>3. TypeOK' /\ Mapped' /\ NoLoss' /\ Cleaning' /\ Followed'
      BY <2>1, <2>2 DEF TypeOK, Mapped, NoLoss, Cleaning, Followed, Known, Follows
    <2>4. a \in Known => peer[table[a]].age <= Timeout
      <3> SUFFICES ASSUME a \in Known PROVE peer[table[a]].age <= Timeout
        OBVIOUS
      <3>1. ~(peer[table[a]].age > Timeout)
        BY <2>1 DEF Expired, Stale, Known
      <3>2. peer[table[a]].age \in Nat
        BY <1>2, PeerAssumption DEF Known, PeerRecord, Age, MaxAge
      <3>3. QED
        BY <3>1, <3>2, PeerAssumption
    <2>5. Timely'
      BY <2>1, <2>2, <2>4 DEF Timely, Known, Passed, Removing
    <2>6. QED
      BY <1>1, <2>3, <2>5
  <1>5. ASSUME NEW a \in Peers, FindStale(a) PROVE Sound'
    <2>1. /\ clean.pc = "expire" /\ a \in Known
          /\ clean' = [pc |-> "remove", todo |-> clean.todo \ {a}, addr |-> a, ptr |-> table[a]]
          /\ UNCHANGED << table, peer, live >>
      BY <1>5 DEF FindStale, TimerAt, Expired, Known
    <2>2. table[a] \in Block
      BY <1>2, <2>1 DEF Known
    <2>3. /\ clean' \in CleanState /\ clean'.pc = "remove" /\ clean'.addr = a
          /\ clean'.ptr = table[a] /\ clean'.todo = clean.todo \ {a}
      BY <2>1, <2>2, CleanShape DEF CleanState, Removing
    <2>4. TypeOK' /\ Mapped' /\ NoLoss' /\ Cleaning' /\ Followed'
      BY <2>1, <2>3 DEF TypeOK, Mapped, NoLoss, Cleaning, Followed, Known, Follows
    <2>5. Timely'
      BY <2>1, <2>3 DEF Timely, Known, Passed, Removing
    <2>6. QED
      BY <1>1, <2>4, <2>5
  <1>6. CASE Remove
    <2> DEFINE a == clean.addr
    <2>0. a \in Known /\ a \in Peers /\ a # None /\ clean.ptr = table[a]
      BY <1>6, PeerAssumption DEF Remove, TimerAt, Cleaning, Known
    <2>1. /\ clean.pc = "remove" /\ clean' = [clean EXCEPT !.pc = "data", !.addr = None]
          /\ table' = [table EXCEPT ![a] = None] /\ UNCHANGED << peer, live >>
      BY <1>2, <1>6, <2>0 DEF Remove, TimerAt
    <2>2. /\ clean' \in CleanState /\ clean'.pc = "data" /\ clean'.addr = None
          /\ clean'.ptr = clean.ptr /\ clean'.todo = clean.todo
          /\ a \in Peers /\ clean.ptr \in Block
      BY <2>0, <2>1, CleanShape DEF CleanState, Removing
    <2>3. a \in Known /\ clean.ptr = table[a]
      BY <2>0
    <2>4. /\ table' \in [Peers -> Block \cup {None}] /\ table'[a] = None
          /\ \A c \in Peers : c # a => table'[c] = table[c]
      BY <1>2, <2>1, <2>2
    <2>5. Known' = Known \ {a}
      BY <2>4 DEF Known
    <2>6. TypeOK'
      BY <2>1, <2>2, <2>4 DEF TypeOK
    <2>7. Mapped'
      BY <2>1, <2>4, <2>5 DEF Mapped, Known
    <2>8. Cleaning'
      BY <2>1, <2>2, <2>3, <2>4, <2>5 DEF Cleaning, Mapped, Known
    <2>9. NoLoss'
      <3>1. \A c, d \in Peers : table'[c] # None /\ table'[c] = table'[d] => c = d
        BY <2>4, <2>5, <2>7 DEF Mapped, Known
      <3>2. \A b \in live : (\E c \in Peers : table'[c] = b) \/ clean.ptr = b
        BY <2>1, <2>3, <2>4 DEF NoLoss
      <3>3. QED
        BY <2>1, <2>2, <3>1, <3>2 DEF NoLoss
    <2>10. Followed'
      BY <2>2 DEF Followed
    <2>11. Timely'
      BY <2>1, <2>2, <2>4, <2>5 DEF Timely, Known, Passed, Removing
    <2>12. QED
      BY <1>1, <2>6, <2>7, <2>8, <2>9, <2>10, <2>11
  <1>7. CASE ClearData \/ ClearKey
    <2>1. /\ clean.pc \in {"data", "key"} /\ clean.addr = None
          /\ clean'.pc \in {"key", "free"} /\ clean' = [clean EXCEPT !.pc = clean'.pc]
          /\ UNCHANGED << peer, live >>
          /\ table' = table
      BY <1>2, <1>7, PeerAssumption, CleanShape DEF ClearData, ClearKey, TimerAt, Cleaning, Removing
    <2>2. /\ clean' \in CleanState /\ clean'.addr = None
          /\ clean'.ptr = clean.ptr /\ clean'.todo = clean.todo
      BY <2>1, CleanShape DEF CleanState, Removing
    <2>3. TypeOK'
      BY <2>1, <2>2 DEF TypeOK, Intact
    <2>4. Mapped' /\ NoLoss' /\ Cleaning' /\ Followed'
      BY <2>1, <2>2 DEF Mapped, NoLoss, Cleaning, Followed, Known
    <2>5. Timely'
      BY <2>1, <2>2 DEF Timely, Known, Passed, Removing
    <2>6. QED
      BY <1>1, <2>3, <2>4, <2>5
  <1>8. CASE Free
    <2>0. ~\E a \in Peers : table[a] = clean.ptr
      BY <1>8, PeerAssumption DEF Free, Intact, TimerAt
    <2>1. /\ clean.pc = "free" /\ clean' = [pc |-> "expire", todo |-> clean.todo]
          /\ live' = live \ {clean.ptr} /\ peer' = [peer EXCEPT ![clean.ptr] = Blank]
          /\ UNCHANGED table
      BY <1>8, <2>0 DEF Free, TimerAt
    <2>2. /\ clean' \in CleanState /\ clean'.pc = "expire" /\ clean'.todo = clean.todo
          /\ clean.ptr \in Block
      BY <2>1, CleanShape DEF CleanState, Removing
    <2>3. Blank \in PeerRecord
      BY NewPeerType, PeerAssumption DEF Blank
    <2>4. /\ peer' \in [Block -> PeerRecord]
          /\ \A b \in Block : b # clean.ptr => peer'[b] = peer[b]
      BY <1>2, <2>1, <2>2, <2>3
    <2>5. \A c \in Known : /\ table[c] # clean.ptr /\ table[c] \in Block
                           /\ peer'[table[c]] = peer[table[c]]
      BY <1>2, <2>1, <2>4 DEF Cleaning, Known
    <2>6. TypeOK'
      BY <2>1, <2>2, <2>4 DEF TypeOK
    <2>7. Mapped'
      BY <2>1, <2>5 DEF Mapped, Known
    <2>8. NoLoss' /\ Cleaning' /\ Followed'
      BY <2>1, <2>2 DEF NoLoss, Cleaning, Followed
    <2>9. Timely'
      BY <2>1, <2>2, <2>5 DEF Timely, Known, Passed, Removing
    <2>10. QED
      BY <1>1, <2>6, <2>7, <2>8, <2>9
  <1>9. QED
    BY <1>3, <1>4, <1>5, <1>6, <1>7, <1>8

\* The election leaves the table alone.
LEMMA ElectStep ==
  ASSUME Sound, Intact', rx.pc = "idle",
         UNCHANGED << map, peer, live, uptime, silence, rx, upset >>,
         \/ Elect \/ AdoptMaster \/ AdoptHeight \/ StayMaster \/ Rearm
         \/ \E a \in Peers : Consider(a)
  PROVE  Sound'
  <1> USE DEF Sound, Intact
  <1>1. Receiving' /\ Mapped'
    BY DEF Receiving, Mapped, Known
  <1>2. Known' = Known /\ \A b : Follows(b)' = Follows(b)
    BY DEF Known, Follows
  <1>3. Self \in Address /\ election \in ElectionState
    BY PeerAssumption DEF TypeOK
  <1>4. CASE Elect
    <2>1. /\ clean.pc = "expire" /\ clean.todo = {} /\ election' = ResetSelf(Self)
          /\ clean' = [pc |-> "elect", todo |-> Peers, best |-> None]
          /\ UNCHANGED countdown
      BY <1>4 DEF Elect, TimerAt
    <2>2. /\ clean' \in CleanState /\ clean'.pc = "elect" /\ clean'.best = None
      BY <2>1 DEF CleanState, Removing
    <2>3. TypeOK'
      BY <1>3, <2>1, <2>2, ElectionTypes DEF TypeOK
    <2>4. NoLoss' /\ Cleaning' /\ Followed'
      BY <2>1, <2>2 DEF NoLoss, Cleaning, Followed
    <2>5. Timely'
      BY <2>1, <2>2 DEF Timely, Known, Passed, Removing
    <2>6. QED
      BY <1>1, <2>3, <2>4, <2>5
  <1>5. ASSUME NEW a \in Peers, Consider(a) PROVE Sound'
    <2>1. /\ clean.pc = "elect"
          /\ clean' = [clean EXCEPT !.todo = @ \ {a},
                                    !.best = IF Accepted(a) THEN table[a] ELSE @]
          /\ UNCHANGED << election, countdown >>
      BY <1>5 DEF Consider, TimerAt
    <2>2. /\ clean' \in CleanState /\ clean'.pc = "elect"
          /\ clean'.best = IF Accepted(a) THEN table[a] ELSE clean.best
      BY <2>1, CleanShape DEF CleanState, Removing, TypeOK
    <2>3. Accepted(a) => Follows(table[a])
      BY DEF Accepted, Follows, Known
    <2>4. Cleaning'
      BY <1>2, <2>1, <2>2, <2>3 DEF Cleaning
    <2>5. TypeOK' /\ NoLoss' /\ Followed'
      BY <2>1, <2>2 DEF TypeOK, NoLoss, Followed
    <2>6. Timely'
      BY <2>1, <2>2 DEF Timely, Known, Passed, Removing
    <2>7. QED
      BY <1>1, <2>4, <2>5, <2>6
  <1>6. CASE AdoptMaster
    <2> DEFINE p == peer[clean.best].election
    <2>1. /\ clean.pc = "elect" /\ clean.best # None
          /\ election' = [Adopt(Self, p) EXCEPT !.height = election.height]
          /\ clean' = [clean EXCEPT !.pc = "height"] /\ UNCHANGED countdown
      BY <1>6 DEF AdoptMaster, TimerAt
    <2>2. /\ clean' \in CleanState /\ clean'.pc = "height" /\ clean'.best = clean.best
          /\ clean.best \in Block
      BY <2>1, CleanShape DEF CleanState, Removing
    <2>3. PICK a \in Known : table[a] = clean.best /\ peer[clean.best].is_valid
      BY <2>1 DEF Cleaning, Follows
    <2>4. p \in ElectionState /\ p.self_addr = a
      BY <2>2, <2>3 DEF TypeOK, PeerRecord, Mapped
    <2> HIDE DEF p
    <2>5. election' \in ElectionState /\ election'.sync_addr = a
      <3>1. PICK e \in ElectionState : e = Adopt(Self, p) /\ e.sync_addr = a
        BY <1>3, <2>4, ElectionTypes
      <3>2. election' = [e EXCEPT !.height = election.height]
        BY <2>1, <3>1
      <3>3. election.height \in 0 .. HeightWord - 1
        BY <1>3 DEF ElectionState
      <3>4. QED
        BY <3>1, <3>2, <3>3 DEF ElectionState
    <2>6. TypeOK'
      BY <2>1, <2>2, <2>5 DEF TypeOK
    <2>7. Followed'
      BY <2>2, <2>3, <2>5 DEF Followed, Known
    <2>8. NoLoss' /\ Cleaning'
      BY <1>2, <2>1, <2>2 DEF NoLoss, Cleaning
    <2>9. Timely'
      BY <2>1, <2>2 DEF Timely, Known, Passed, Removing
    <2>10. QED
      BY <1>1, <2>6, <2>7, <2>8, <2>9
  <1>7. CASE AdoptHeight
    <2> DEFINE h == OneMore(peer[clean.best].election.height)
    <2>1. /\ clean.pc = "height" /\ clean.best # None
          /\ election' = [election EXCEPT !.height = h]
          /\ clean' = [pc |-> "rearm"] /\ UNCHANGED countdown
      BY <1>7 DEF AdoptHeight, TimerAt, Cleaning
    <2>2. clean' \in CleanState /\ clean'.pc = "rearm" /\ clean.best \in Block
      BY <2>1, CleanShape DEF CleanState, Removing
    <2>3. h \in 0 .. HeightWord - 1
      BY <2>2, ElectionTypes DEF TypeOK, PeerRecord, ElectionState
    <2> HIDE DEF h
    <2>4. election' \in ElectionState /\ election'.sync_addr = election.sync_addr
      BY <1>3, <2>1, <2>3 DEF ElectionState
    <2>5. TypeOK'
      BY <2>1, <2>2, <2>4 DEF TypeOK
    <2>6. NoLoss' /\ Cleaning' /\ Followed'
      BY <2>1, <2>2, <2>4 DEF NoLoss, Cleaning, Followed, Known
    <2>7. Timely'
      BY <2>1, <2>2 DEF Timely, Known, Passed, Removing
    <2>8. QED
      BY <1>1, <2>5, <2>6, <2>7
  <1>8. CASE StayMaster
    <2>1. /\ clean.pc = "elect" /\ clean' = [pc |-> "rearm"]
          /\ election = ResetSelf(Self) /\ UNCHANGED << election, countdown >>
      BY <1>8 DEF StayMaster, TimerAt, Cleaning
    <2>2. clean' \in CleanState /\ clean'.pc = "rearm"
      BY <2>1 DEF CleanState, Removing
    <2>3. election'.sync_addr = Self
      BY <1>3, <2>1, ElectionTypes
    <2>4. TypeOK' /\ NoLoss' /\ Cleaning' /\ Followed'
      BY <2>1, <2>2, <2>3 DEF TypeOK, NoLoss, Cleaning, Followed
    <2>5. Timely'
      BY <2>1, <2>2 DEF Timely, Known, Passed, Removing
    <2>6. QED
      BY <1>1, <2>4, <2>5
  <1>9. CASE Rearm
    <2>1. /\ clean.pc = "rearm" /\ clean' = [pc |-> "idle"] /\ countdown' = 1
          /\ UNCHANGED election
      BY <1>9 DEF Rearm, TimerAt
    <2>2. clean' \in CleanState /\ clean'.pc = "idle"
      BY <2>1 DEF CleanState, Removing
    <2>3. TypeOK' /\ NoLoss' /\ Cleaning' /\ Followed'
      BY <2>1, <2>2 DEF TypeOK, NoLoss, Cleaning, Followed, Known
    <2>4. Timely'
      BY <2>1, <2>2 DEF Timely, Known, Passed, Removing
    <2>5. QED
      BY <1>1, <2>3, <2>4
  <1>10. QED
    BY <1>4, <1>5, <1>6, <1>7, <1>8, <1>9

\* An interval passes: the clean-up has been past every peer.
LEMMA TickStep == Sound /\ Tick /\ Intact' => Sound'
  <1> SUFFICES ASSUME Sound, Tick, Intact' PROVE Sound'
    OBVIOUS
  <1> USE DEF Sound, Intact
  <1>1. /\ rx.pc = "idle" /\ clean.pc = "idle" /\ countdown = 1 /\ countdown' = 0
        /\ uptime' \in 0 .. Timeout
        /\ silence' = [a \in Peers |-> Older(silence[a])]
        /\ peer' = [b \in Block |-> IF b \in live THEN [peer[b] EXCEPT !.age = Older(@)]
                                    ELSE Blank]
        /\ UNCHANGED << table, live, election, rx, clean >>
    BY PeerAssumption DEF Tick, TypeOK
  <1>2. \A g \in Age : Older(g) \in Age /\ Older(g) <= g + 1
    BY PeerAssumption DEF Age, MaxAge, Older
  <1>3. \A g, h \in Age : g <= h => Older(g) <= Older(h)
    BY PeerAssumption DEF Age, MaxAge, Older
  <1>4. Blank \in PeerRecord
    BY NewPeerType, PeerAssumption DEF Blank
  <1>5. \A b \in live : /\ peer'[b] = [peer[b] EXCEPT !.age = Older(@)]
                        /\ peer[b] \in PeerRecord
    BY <1>1 DEF TypeOK
  <1>6. \A p \in PeerRecord :
          /\ [p EXCEPT !.age = Older(@)] \in PeerRecord
          /\ [p EXCEPT !.age = Older(@)].age = Older(p.age)
          /\ [p EXCEPT !.age = Older(@)].election = p.election
          /\ [p EXCEPT !.age = Older(@)].is_valid = p.is_valid
    BY <1>2 DEF PeerRecord
  <1>7. peer' \in [Block -> PeerRecord]
    BY <1>1, <1>4, <1>5, <1>6
  <1>8. \A b \in live : /\ peer'[b].age = Older(peer[b].age)
                        /\ peer'[b].election = peer[b].election
                        /\ peer'[b].is_valid = peer[b].is_valid
    BY <1>5, <1>6
  <1>9. TypeOK'
    BY <1>1, <1>2, <1>7 DEF TypeOK
  <1>10. Known' = Known
    BY <1>1 DEF Known
  <1>11. Mapped' /\ NoLoss' /\ Receiving' /\ Cleaning'
    BY <1>1, <1>8, <1>10 DEF Mapped, NoLoss, Receiving, Cleaning
  <1>12. Followed'
    BY <1>1, <1>8, <1>10 DEF Followed, Mapped
  <1>13. Timely'
    <2> SUFFICES ASSUME NEW a \in Known
                 PROVE  /\ silence'[a] <= peer'[table[a]].age
                        /\ peer'[table[a]].age <= Timeout + 1
                        /\ a \notin Passed'
      BY <1>1, <1>10 DEF Timely
    <2>1. table[a] \in live /\ a \in Peers
      BY DEF Mapped, Known
    <2>2. peer[table[a]].age \in Age /\ silence[a] \in Age
      BY <1>5, <2>1 DEF PeerRecord, TypeOK
    <2>3. peer[table[a]].age <= Timeout /\ silence[a] <= peer[table[a]].age
      BY <1>1, <2>1 DEF Timely, Passed, Removing
    <2>4. peer'[table[a]].age = Older(peer[table[a]].age) /\ silence'[a] = Older(silence[a])
      BY <1>1, <1>8, <2>1
    <2>5. Older(peer[table[a]].age) <= peer[table[a]].age + 1
      BY <1>2, <2>2
    <2>6. Older(peer[table[a]].age) \in Int /\ peer[table[a]].age \in Int
      BY <1>2, <2>2 DEF Age
    <2>7. Older(peer[table[a]].age) <= Timeout + 1
      BY <2>3, <2>5, <2>6, PeerAssumption
    <2>8. QED
      BY <1>1, <1>3, <2>2, <2>3, <2>4, <2>7 DEF Passed, Removing
  <1>14. QED
    BY <1>9, <1>11, <1>12, <1>13

-----------------------------------------------------------------------------
\* The table is empty and the node alone.
LEMMA PeerInit == Init => Sound
  <1> SUFFICES ASSUME Init PROVE Sound
    OBVIOUS
  <1>1. Self \in Address /\ 0 \in 0 .. Timeout /\ MaxAge \in Age
    BY PeerAssumption DEF Age, MaxAge
  <1>2. Blank \in PeerRecord /\ ResetSelf(Self) \in ElectionState
        /\ ResetSelf(Self).sync_addr = Self
    BY <1>1, NewPeerType, ElectionTypes DEF Blank
  <1>3. TypeOK
    BY <1>1, <1>2 DEF Init, TypeOK, RxState, CleanState
  <1>4. Known = {}
    BY DEF Init, Known
  <1>5. Mapped /\ NoLoss /\ Receiving /\ Cleaning /\ Followed /\ Timely
    BY <1>2, <1>4 DEF Init, Mapped, NoLoss, Receiving, Cleaning, Followed, Timely
  <1>6. Intact
    BY DEF Init, Intact
  <1>7. QED
    BY <1>3, <1>5, <1>6 DEF Sound

\* So they are after a restart.
LEMMA PeerRestart == Init' => Sound'
  BY PeerInit, PTL

\* Only a put upsets the map, and a map that is upset stays so until a restart.
LEMMA UpsetStays == upset /\ [Next]_vars => upset' \/ Restart
  BY DEF Next, RxAction, Receive, FirstAdd, PeerGet, HandleTlv, Parsed, SecondAdd, PeerAdd,
     PeerUpdate, PeerNew, PeerAddFails, Put, TakesSlot, Moved, CleanPeers, Fire, Keep, FindStale,
     Remove, ClearData, ClearKey, Free, Elect, Consider, AdoptMaster, AdoptHeight, StayMaster,
     Rearm, Tick, vars

\* As long as no put upsets the map, every slot in use has its key and its data.
LEMMA IntactStep ==
  ASSUME Sound, RxAction \/ CleanPeers \/ Tick, ~upset'
  PROVE  Intact'
  <1> USE DEF Sound, Intact
  <1>1. CASE RxAction
    <2>1. UNCHANGED clean
      BY <1>1, AddKeeps DEF RxAction, Receive, FirstAdd, PeerGet, HandleTlv, Parsed, SecondAdd
    <2>2. UNCHANGED << hollow, keyless >>
      BY <1>1 DEF RxAction, Receive, FirstAdd, PeerGet, HandleTlv, Parsed, SecondAdd, PeerAdd,
         PeerUpdate, PeerNew, PeerAddFails, Put
    <2>3. upset' \in {upset, TRUE}
      BY <1>1 DEF RxAction, Receive, FirstAdd, PeerGet, HandleTlv, Parsed, SecondAdd, PeerAdd,
         PeerUpdate, PeerNew, PeerAddFails, Put, TakesSlot, Moved
    <2>4. QED
      BY <2>1, <2>2, <2>3
  <1>2. CASE CleanPeers
    <2>1. CASE Remove
      BY <2>1, CleanShape DEF Remove, TimerAt, Removing
    <2>2. CASE ClearData
      BY <2>2, CleanShape DEF ClearData, TimerAt, Cleaning, Removing
    <2>3. CASE ClearKey
      BY <2>3, CleanShape DEF ClearKey, TimerAt, Cleaning, Removing
    <2>4. CASE Free
      <3>1. clean.pc = "free" /\ clean.ptr \in Block
        BY <2>4, CleanShape DEF Free, TimerAt, Removing
      <3>2. ~\E a \in Peers : table[a] = clean.ptr
        BY <3>1, PeerAssumption DEF Cleaning, Known
      <3>3. QED
        BY <2>4, <3>2 DEF Free
    <2>5. CASE Fire \/ Elect \/ StayMaster \/ AdoptHeight \/ Rearm
      BY <2>5 DEF Fire, Elect, StayMaster, AdoptHeight, Rearm
    <2>6. CASE AdoptMaster
      <3>1. clean'.pc = "height"
        BY <2>6, CleanShape DEF AdoptMaster, TimerAt
      <3>2. QED
        BY <2>6, <3>1 DEF AdoptMaster
    <2>7. ASSUME NEW a \in Peers, Keep(a) \/ FindStale(a) \/ Consider(a) PROVE Intact'
      <3>1. clean'.pc \in {"expire", "remove", "elect"}
        <4>1. CASE Keep(a)
          BY <4>1, CleanShape DEF Keep, TimerAt
        <4>2. CASE FindStale(a)
          BY <4>2 DEF FindStale
        <4>3. CASE Consider(a)
          BY <4>3, CleanShape DEF Consider, TimerAt
        <4>4. QED
          BY <2>7, <4>1, <4>2, <4>3
      <3>2. QED
        BY <2>7, <3>1 DEF Keep, FindStale, Consider
    <2>8. QED
      BY <1>2, <2>1, <2>2, <2>3, <2>4, <2>5, <2>6, <2>7 DEF CleanPeers
  <1>3. CASE Tick
    BY <1>3 DEF Tick
  <1>4. QED
    BY <1>1, <1>2, <1>3

\* Every step keeps the invariant.
LEMMA PeerStep == PeerInv /\ [Next]_vars => PeerInv'
  <1> SUFFICES ASSUME PeerInv, [Next]_vars, ~upset' PROVE Sound'
    BY DEF PeerInv
  <1>1. CASE Restart
    <2>1. Init'
      BY <1>1 DEF Restart, Init
    <2>2. QED
      BY <2>1, PeerRestart
  <1>2. CASE ~Restart
    <2>1. Sound
      BY <1>2, UpsetStays DEF PeerInv
    <2>2. CASE UNCHANGED vars
      BY <2>1, <2>2 DEF vars, Sound, Intact, TypeOK, Mapped, NoLoss, Receiving, Cleaning,
                  Followed, Timely, Known, Follows, Passed, Src
    <2>3. CASE RxAction \/ CleanPeers \/ Tick
      <3>1. Intact'
        BY <2>1, <2>3, IntactStep
      <3>2. CASE RxAction
        BY <2>1, <3>1, <3>2, RxStep
      <3>3. CASE Tick
        BY <2>1, <3>1, <3>3, TickStep
      <3>4. CASE Fire \/ Remove \/ ClearData \/ ClearKey \/ Free
                 \/ \E a \in Peers : Keep(a) \/ FindStale(a)
        <4>1. rx.pc = "idle" /\ UNCHANGED << election, uptime, countdown, silence, rx >>
          BY <3>4 DEF Fire, Remove, ClearData, ClearKey, Free, Keep, FindStale, TimerAt
        <4>2. QED
          BY <2>1, <3>1, <3>4, <4>1, ExpireStep
      <3>5. CASE \/ Elect \/ AdoptMaster \/ AdoptHeight \/ StayMaster \/ Rearm
                 \/ \E a \in Peers : Consider(a)
        <4>1. rx.pc = "idle" /\ UNCHANGED << map, peer, live, uptime, silence, rx, upset >>
          BY <3>5 DEF Elect, AdoptMaster, AdoptHeight, StayMaster, Rearm, Consider, TimerAt
        <4>2. QED
          BY <2>1, <3>1, <3>5, <4>1, ElectStep
      <3>6. QED
        BY <2>3, <3>2, <3>3, <3>4, <3>5 DEF CleanPeers
    <2>4. QED
      BY <1>2, <2>2, <2>3 DEF Next
  <1>3. QED
    BY <1>1, <1>2

\* What the invariant says of the properties.
LEMMA PeerImplies ==
  PeerInv => (upset \/ TypeOK) /\ NoUseAfterFree /\ NoOrphan /\ KnownAreRecent /\ FollowsKnown
  <1> SUFFICES ASSUME Sound
               PROVE  TypeOK /\ NoUseAfterFree /\ NoOrphan /\ KnownAreRecent /\ FollowsKnown
    BY DEF PeerInv, NoUseAfterFree, NoOrphan, KnownAreRecent, FollowsKnown
  <1> USE DEF Sound
  <1>1. NoUseAfterFree
    <2>1. \A a \in Peers : table[a] # None => table[a] \in live
      BY DEF Mapped, Known
    <2>2. rx.pc \in {"tlvs", "again"} => rx.ptr \in live
      BY DEF Receiving, Mapped
    <2>3. clean.pc \in Removing \cup {"free"} => clean.ptr \in live
      BY DEF Cleaning, Mapped, Removing
    <2>4. clean.pc \in {"elect", "height"} => clean.best \in live \cup {None}
      BY DEF Cleaning, Follows, Mapped
    <2>5. QED
      BY <2>1, <2>2, <2>3, <2>4 DEF NoUseAfterFree, Intact
  <1>2. KnownAreRecent
    <2> SUFFICES ASSUME NEW a \in Peers, table[a] # None PROVE silence[a] <= Timeout + 1
      BY DEF KnownAreRecent
    <2>1. a \in Known
      BY DEF Known
    <2>2. peer[table[a]].age \in Int /\ silence[a] \in Int
      BY <2>1, PeerAssumption DEF Mapped, TypeOK, PeerRecord, Age
    <2>3. QED
      BY <2>1, <2>2, PeerAssumption DEF Timely
  <1>3. FollowsKnown /\ NoOrphan
    BY DEF FollowsKnown, Followed, Known, NoOrphan, NoLoss
  <1>4. QED
    BY <1>1, <1>2, <1>3

\* All of it holds of every behaviour.
LEMMA PeerAlways == Spec => []PeerInv
  <1>1. Init => PeerInv
    BY PeerInit DEF PeerInv
  <1>2. QED
    BY <1>1, PeerStep, PTL DEF Spec

\* The variables keep their types, until a put upsets the map.
THEOREM PeerTypeCorrect == Spec => [](upset \/ TypeOK)
  BY PeerAlways, PeerImplies, PTL

\* Until a put takes the slot that a removal is emptying, moves the slots under an
\* iterator or loses some, no freed peer and no NULL is used, by the table, the
\* reception, the clean-up or the election; for any set of peers and frames.
THEOREM PeerNoUseAfterFree == Spec => []NoUseAfterFree
  BY PeerAlways, PeerImplies, PTL

\* Until a put upsets the map, no peer is lost while it is allocated, and none is reached
\* from two addresses.
THEOREM PeerNoOrphan == Spec => []NoOrphan
  BY PeerAlways, PeerImplies, PTL

\* A silent peer is gone after the timeout and one interval, until a put upsets the map.
THEOREM PeerKnownAreRecent == Spec => []KnownAreRecent
  BY PeerAlways, PeerImplies, PTL

\* Between two elections the node follows itself or a valid peer that it knows, until a
\* put upsets the map.
THEOREM PeerFollowsKnown == Spec => []FollowsKnown
  BY PeerAlways, PeerImplies, PTL
=============================================================================
