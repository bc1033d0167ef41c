----------------------------- MODULE PeerTable -----------------------------
(***************************************************************************)
(* The peer table of one node, shared without a lock by two tasks: the     *)
(* WiFi task, which runs awdl_rx_action (owl/rx.c) on every action frame,  *)
(* and the esp_timer task, which runs awdl_clean_peers (wifi/core.c): it   *)
(* drops the silent peers (owl/peers.c) and elects a sync master from the  *)
(* rest (owl/election.c).                                                  *)
(*                                                                         *)
(* A peer is a heap block; the hash map leads from an address to its       *)
(* block.  On the one core of the committed sdkconfig the WiFi task goes   *)
(* on until it waits for the next frame, and interrupts the esp_timer task *)
(* anywhere: a step is a call into the map or the work on one block        *)
(* between two such calls, and the removal from the map, which a call of   *)
(* the WiFi task can come into, is a step for each slot it writes.  Times  *)
(* are in clean intervals, kept as ages, and neither task takes as long as *)
(* an interval.                                                            *)
(***************************************************************************)
EXTENDS AwdlElection, Sequences

CONSTANTS
    Self,           \* the address of the node
    Peers,          \* the addresses that send action frames
    Claims,         \* the election states they announce
    Tlvs,           \* the sequences of TLVs a frame can carry
    Block,          \* the heap blocks: a bound for TLC
    None,           \* NULL
    Timeout         \* peers.timeout, in units of peers.clean_interval

TlvType == { "v1", "v2", "version", "other", "bad" }

ASSUME PeerAssumption ==
    /\ Self \in Address
    /\ Peers \subseteq Address \ {Self}
    /\ Claims \subseteq { c \in ElectionState : c.self_addr \in Peers }
    /\ Tlvs \subseteq Seq(TlvType)
    /\ None \notin Block \cup Peers
    /\ Timeout \in Nat \ {0}

VARIABLES
    table,          \* the hash map: table[a] is the block of peer a, or None
    hollow,         \* the peers with a slot in use whose data is NULL
    keyless,        \* the peers with a slot in use whose key is NULL
    peer,           \* the contents of the blocks
    live,           \* the allocated blocks
    election,       \* state->election
    uptime,         \* the clock, up to Timeout
    countdown,      \* until peer_timer fires
    silence,        \* silence[a]: for how long a has not been heard
    rx,             \* the WiFi task in awdl_rx_action
    clean,          \* the esp_timer task in awdl_clean_peers
    upset           \* observer: a put has come into a removal or has moved the slots
                    \* under an iterator, or has lost some, since the node started

map == << table, hollow, keyless >>
vars == << map, peer, live, election, uptime, countdown, silence, rx, clean, upset >>

\* An age that grows up to where nothing depends on it any more.
MaxAge == Timeout + 2
Age == 0 .. MaxAge
Older(age) == IF age = MaxAge THEN age ELSE age + 1

\* awdl_peer_new: age is the age of last_update.
NewPeer(a) ==
    [ age |-> 0, election |-> ResetSelf(a), version |-> FALSE,
      supports_v2 |-> FALSE, sent_mif |-> FALSE, is_valid |-> FALSE ]

\* The contents of a free block, which nothing reads.
Blank == NewPeer(Self)

\* What the end of awdl_peer_add makes of a peer.
Updated(p) ==
    [ p EXCEPT !.age = 0,
               !.is_valid = p.is_valid \/ (p.sent_mif /\ p.version) ]

Init ==
    /\ table = [a \in Peers |-> None]
    /\ hollow = {}
    /\ keyless = {}
    /\ peer = [b \in Block |-> Blank]
    /\ live = {}
    /\ election = ResetSelf(Self)
    /\ uptime = 0
    /\ countdown = 0
    /\ silence = [a \in Peers |-> MaxAge]
    /\ rx = [pc |-> "idle"]
    /\ clean = [pc |-> "idle"]
    /\ upset = FALSE

-----------------------------------------------------------------------------
(* awdl_rx_action, in the WiFi task, the highest of the two priorities.    *)

Receive(c, tlvs, mif) ==
    /\ rx.pc = "idle"
    /\ rx' = [pc |-> "add", claim |-> c, tlvs |-> tlvs, mif |-> mif, ptr |-> None]
    /\ silence' = [silence EXCEPT ![c.self_addr] = 0]
    /\ UNCHANGED << map, peer, live, election, uptime, countdown, clean, upset >>

Src == rx.claim.self_addr

\* Where the clean-up has an iterator, and where that is at a slot to empty.
Removing == { "remove", "data", "key" }
Iterating == { "expire", "free", "elect" } \cup Removing

\* A put moves the slots to another array.  An iterator at work goes on at the index
\* it has, whatever is there now.
Moved ==
    \/ clean.pc \notin Iterating /\ UNCHANGED << clean, upset >>
    \/ /\ clean.pc \in Iterating
       /\ upset' = TRUE
       /\ \E todo \in SUBSET Peers :
             IF clean.pc \in Removing
             THEN \E a \in Peers \cup {None} :
                     /\ a \in Peers => table'[a] # None \/ a \in hollow'
                     /\ clean' = [clean EXCEPT !.todo = todo, !.addr = a]
             ELSE clean' = [clean EXCEPT !.todo = todo]

\* A put takes the slot that a removal has emptied and is not done with.
TakesSlot ==
    /\ clean.pc \in {"data", "key"}
    /\ clean.addr = None
    /\ clean' = [clean EXCEPT !.addr = Src]
    /\ upset' = TRUE

\* hashmap_put of a new peer; it moves the slots when half of them are in use, or
\* every one in reach of the address (hashmap.c:77, 83-93), which means a key is read.
Put(b) ==
    /\ table' = [table EXCEPT ![Src] = b]
    /\ UNCHANGED << hollow, keyless >>
    /\ \/ UNCHANGED << clean, upset >>
       \/ TakesSlot
       \/ keyless = {} /\ Moved

\* The map leads to the sender: its record is brought up to date.
PeerUpdate ==
    /\ table[Src] # None
    /\ Src \notin keyless
    /\ peer' = [peer EXCEPT ![table[Src]] = Updated(@)]
    /\ UNCHANGED << map, live, clean, upset >>

PeerNew ==
    /\ table[Src] = None
    /\ Src \notin hollow
    /\ \E b \in Block \ live :
          /\ peer' = [peer EXCEPT ![b] = NewPeer(Src)]
          /\ live' = live \cup {b}
          /\ Put(b)

\* awdl_peer_add of the sender.
PeerAdd == PeerUpdate \/ PeerNew

\* PEERS_INTERNAL: the map should have grown, there is no memory for it, and the new
\* peer is freed.  When that happens inside a rehash (hashmap.c:126-128), the entries
\* it has not come to are lost.
PeerAddFails ==
    /\ table[Src] = None
    /\ Src \notin hollow
    /\ \/ UNCHANGED << map, clean, upset >>
       \/ /\ keyless = {}
          /\ \E lost \in SUBSET Peers \ {{}} :
                /\ table' = [a \in Peers |-> IF a \in lost THEN None ELSE table[a]]
                /\ hollow' = hollow \ lost
          /\ UNCHANGED << keyless, clean >>
          /\ upset' = TRUE
    /\ UNCHANGED << peer, live >>

\* The call before the TLVs are parsed; "could not add peer" ends the frame.
FirstAdd ==
    /\ rx.pc = "add"
    /\ \/ PeerAdd /\ rx' = [rx EXCEPT !.pc = "get"]
       \/ PeerAddFails /\ rx' = [pc |-> "idle"]
    /\ UNCHANGED << election, uptime, countdown, silence >>

\* awdl_peer_get; "could not find peer" ends the frame.
PeerGet ==
    /\ rx.pc = "get"
    /\ rx' = IF table[Src] = None THEN [pc |-> "idle"]
                                  ELSE [rx EXCEPT !.pc = "tlvs", !.ptr = table[Src]]
    /\ UNCHANGED << map, peer, live, election, uptime, countdown, silence, clean, upset >>

\* What a TLV of type t writes to the sender's record.  Version 1 of the election
\* parameters is ignored after version 2 has been seen, and says nothing of the
\* sync master and the counter.
Written(p, t) ==
    LET e == p.election  c == rx.claim IN
    CASE t = "v1" /\ ~p.supports_v2 ->
            [p EXCEPT !.election = [e EXCEPT !.height = c.height,
                                             !.master_addr = c.master_addr,
                                             !.master_metric = c.master_metric]]
      [] t = "v2" -> [p EXCEPT !.election = c, !.supports_v2 = TRUE]
      [] t = "version" -> [p EXCEPT !.version = TRUE]
      [] OTHER -> p

HandleTlv ==
    /\ rx.pc = "tlvs"
    /\ rx.tlvs # << >>
    /\ peer' = [peer EXCEPT ![rx.ptr] = Written(@, Head(rx.tlvs))]
    /\ rx' = IF Head(rx.tlvs) = "bad" THEN [pc |-> "idle"]
                                      ELSE [rx EXCEPT !.tlvs = Tail(@)]
    /\ UNCHANGED << map, live, election, uptime, countdown, silence, clean, upset >>

\* All TLVs are parsed, with nothing left over.
Parsed ==
    /\ rx.pc = "tlvs"
    /\ rx.tlvs = << >>
    /\ peer' = [peer EXCEPT ![rx.ptr].sent_mif = @ \/ rx.mif]
    /\ rx' = [rx EXCEPT !.pc = "again"]
    /\ UNCHANGED << map, live, election, uptime, countdown, silence, clean, upset >>

\* The call after the TLVs, which may turn the peer valid.
SecondAdd ==
    /\ rx.pc = "again"
    /\ PeerAdd \/ PeerAddFails
    /\ rx' = [pc |-> "idle"]
    /\ UNCHANGED << election, uptime, countdown, silence >>

RxAction ==
    \/ \E c \in Claims, tlvs \in Tlvs, mif \in BOOLEAN : Receive(c, tlvs, mif)
    \/ FirstAdd \/ PeerGet \/ HandleTlv \/ Parsed \/ SecondAdd

-----------------------------------------------------------------------------
(* awdl_clean_peers, in the esp_timer task: the WiFi task interrupts it at *)
(* any point, and it runs only while that task waits for the next frame.   *)

TimerAt(pc) == clean.pc = pc /\ rx.pc = "idle"

Fire ==
    /\ TimerAt("idle")
    /\ countdown = 0
    /\ clean' = [pc |-> "expire", todo |-> Peers]
    /\ UNCHANGED << map, peer, live, election, uptime, countdown, silence, rx, upset >>

\* Wrong on purpose: a peer stays for one interval more.
StaleLate(p) == p.age > Timeout + 1 \/ uptime < Timeout

\* last_update < cutoff_time.  The cutoff is an unsigned difference: for as long
\* as the clock is below the timeout it lies beyond every time stamp.
Stale(p) == p.age > Timeout \/ uptime < Timeout

Expired(a) == table[a] # None /\ Stale(peer[table[a]])

\* The iterator reaches the slot of a: empty, or a peer heard recently.
Keep(a) ==
    /\ TimerAt("expire")
    /\ a \in clean.todo \ hollow
    /\ ~Expired(a)
    /\ clean' = [clean EXCEPT !.todo = @ \ {a}]
    /\ UNCHANGED << map, peer, live, election, uptime, countdown, silence, rx, upset >>

FindStale(a) ==
    /\ TimerAt("expire")
    /\ a \in clean.todo \ hollow
    /\ Expired(a)
    /\ clean' = [pc |-> "remove", todo |-> clean.todo \ {a}, addr |-> a, ptr |-> table[a]]
    /\ UNCHANGED << map, peer, live, election, uptime, countdown, silence, rx, upset >>

\* Wrong on purpose: the entry stays in the map.
RemoveForgotten ==
    /\ TimerAt("remove")
    /\ clean' = [clean EXCEPT !.pc = "free"]
    /\ UNCHANGED << map, peer, live, election, uptime, countdown, silence, rx, upset >>

\* hashmap_it_remove, after the log message, up to in_use = 0; MAP_MISSING when the
\* slot has been moved away.
Remove ==
    /\ TimerAt("remove")
    /\ table' = [a \in Peers |-> IF a = clean.addr THEN None ELSE table[a]]
    /\ hollow' = hollow \ {clean.addr}
    /\ keyless' = keyless \ {clean.addr}
    /\ clean' = IF clean.addr = None THEN [clean EXCEPT !.pc = "free"]
                                     ELSE [clean EXCEPT !.pc = "data", !.addr = None]
    /\ UNCHANGED << peer, live, election, uptime, countdown, silence, rx, upset >>

\* data = NULL, whoever has the slot now.
ClearData ==
    /\ TimerAt("data")
    /\ table' = [a \in Peers |-> IF a = clean.addr THEN None ELSE table[a]]
    /\ hollow' = hollow \cup ({clean.addr} \ {None})
    /\ clean' = [clean EXCEPT !.pc = "key"]
    /\ UNCHANGED << keyless, peer, live, election, uptime, countdown, silence, rx, upset >>

\* key = NULL, and then size--, which a put in the middle makes wrong: it only tells
\* when the map grows, and here it may at any put.
ClearKey ==
    /\ TimerAt("key")
    /\ keyless' = keyless \cup ({clean.addr} \ {None})
    /\ clean' = [clean EXCEPT !.pc = "free"]
    /\ UNCHANGED << table, hollow, peer, live, election, uptime, countdown, silence, rx, upset >>

\* Wrong on purpose: the block is not given back.
FreeForgotten ==
    /\ TimerAt("free")
    /\ clean' = [pc |-> "expire", todo |-> clean.todo]
    /\ UNCHANGED << map, peer, live, election, uptime, countdown, silence, rx, upset >>

\* Another peer may have been removed for this one: then the map leads to a freed block.
Free ==
    /\ TimerAt("free")
    /\ live' = live \ {clean.ptr}
    /\ peer' = [peer EXCEPT ![clean.ptr] = Blank]
    /\ clean' = IF \E a \in Peers : table[a] = clean.ptr
                THEN [pc |-> "wild"]
                ELSE [pc |-> "expire", todo |-> clean.todo]
    /\ UNCHANGED << map, election, uptime, countdown, silence, rx, upset >>

\* Wrong on purpose: the election starts from the last one's outcome.
ElectNoReset ==
    /\ TimerAt("expire")
    /\ clean.todo = {}
    /\ clean' = [pc |-> "elect", todo |-> Peers, best |-> None]
    /\ UNCHANGED << map, peer, live, election, uptime, countdown, silence, rx, upset >>

\* awdl_election_run: best is master_state, None when it points to the own state.
Elect ==
    /\ TimerAt("expire")
    /\ clean.todo = {}
    /\ election' = ResetSelf(Self)
    /\ clean' = [pc |-> "elect", todo |-> Peers, best |-> None]
    /\ UNCHANGED << map, peer, live, uptime, countdown, silence, rx, upset >>

Accepted(a) ==
    /\ table[a] # None
    /\ peer[table[a]].is_valid
    /\ Eligible(Self, peer[table[a]].election)
    /\ Beats(peer[table[a]].election,
             IF clean.best = None THEN election ELSE peer[clean.best].election)

Consider(a) ==
    /\ TimerAt("elect")
    /\ a \in clean.todo \ hollow
    /\ clean' = [clean EXCEPT !.todo = @ \ {a},
                              !.best = IF Accepted(a) THEN table[a] ELSE @]
    /\ UNCHANGED << map, peer, live, election, uptime, countdown, silence, rx, upset >>

\* The fields are read from the peer's record as it is now, the height last.
AdoptMaster ==
    /\ TimerAt("elect")
    /\ clean.todo = {}
    /\ clean.best # None
    /\ election' = [Adopt(Self, peer[clean.best].election) EXCEPT !.height = election.height]
    /\ clean' = [clean EXCEPT !.pc = "height"]
    /\ UNCHANGED << map, peer, live, uptime, countdown, silence, rx, upset >>

AdoptHeight ==
    /\ TimerAt("height")
    /\ election' = [election EXCEPT !.height = OneMore(peer[clean.best].election.height)]
    /\ clean' = [pc |-> "rearm"]
    /\ UNCHANGED << map, peer, live, uptime, countdown, silence, rx, upset >>

StayMaster ==
    /\ TimerAt("elect")
    /\ clean.todo = {}
    /\ clean.best = None
    /\ clean' = [pc |-> "rearm"]
    /\ UNCHANGED << map, peer, live, election, uptime, countdown, silence, rx, upset >>

Rearm ==
    /\ TimerAt("rearm")
    /\ countdown' = 1
    /\ clean' = [pc |-> "idle"]
    /\ UNCHANGED << map, peer, live, election, uptime, silence, rx, upset >>

CleanPeers ==
    \/ Fire \/ Remove \/ ClearData \/ ClearKey \/ Free \/ Elect \/ AdoptMaster \/ AdoptHeight \/ StayMaster \/ Rearm
    \/ \E a \in Peers : Keep(a) \/ FindStale(a) \/ Consider(a)

-----------------------------------------------------------------------------
\* A clean interval passes; a timer that is due is served first.
Tick ==
    /\ rx.pc = "idle"
    /\ clean.pc = "idle"
    /\ countdown > 0
    /\ countdown' = countdown - 1
    /\ uptime' = IF uptime = Timeout THEN uptime ELSE uptime + 1
    /\ silence' = [a \in Peers |-> Older(silence[a])]
    /\ peer' = [b \in Block |-> IF b \in live THEN [peer[b] EXCEPT !.age = Older(@)] ELSE Blank]
    /\ UNCHANGED << map, live, election, rx, clean, upset >>

\* A pointer that is NULL is used: the data or the key of a slot, or what malloc
\* returns in awdl_peer_new; or the map leads to a freed block.  The node panics, or
\* does what is not followed here any further, and starts again.
NullUsed ==
    \/ rx.pc \in {"add", "again"} /\ (keyless # {} \/ table[Src] = None)
    \/ rx.pc = "idle" /\ clean.pc \in {"expire", "elect"} /\ clean.todo \cap hollow # {}

Restart ==
    /\ NullUsed \/ clean.pc = "wild"
    /\ table' = [a \in Peers |-> None]
    /\ hollow' = {}
    /\ keyless' = {}
    /\ peer' = [b \in Block |-> Blank]
    /\ live' = {}
    /\ election' = ResetSelf(Self)
    /\ uptime' = 0
    /\ countdown' = 0
    /\ silence' = [a \in Peers |-> MaxAge]
    /\ rx' = [pc |-> "idle"]
    /\ clean' = [pc |-> "idle"]
    /\ upset' = FALSE

Next ==
    \/ clean.pc # "wild" /\ (RxAction \/ CleanPeers \/ Tick)
    \/ Restart

Spec == Init /\ [][Next]_vars

-----------------------------------------------------------------------------
PeerRecord ==
    [ age : Age, election : ElectionState, version : BOOLEAN,
      supports_v2 : BOOLEAN, sent_mif : BOOLEAN, is_valid : BOOLEAN ]

Working == { "add", "get", "tlvs", "again" }

RxState ==
    [ pc : {"idle"} ] \cup
    [ pc : Working, claim : Claims, tlvs : Seq(TlvType), mif : BOOLEAN,
      ptr : Block \cup {None} ]

CleanState ==
    [ pc : {"idle", "rearm", "wild"} ] \cup
    [ pc : {"expire"}, todo : SUBSET Peers ] \cup
    [ pc : Removing \cup {"free"}, todo : SUBSET Peers, addr : Peers \cup {None},
      ptr : Block ] \cup
    [ pc : {"elect", "height"}, todo : SUBSET Peers, best : Block \cup {None} ]

\* Type invariant.
TypeOK ==
    /\ table \in [Peers -> Block \cup {None}]
    /\ hollow \subseteq Peers
    /\ keyless \subseteq Peers
    /\ peer \in [Block -> PeerRecord]
    /\ live \subseteq Block
    /\ election \in ElectionState
    /\ uptime \in 0 .. Timeout
    /\ countdown \in {0, 1}
    /\ silence \in [Peers -> Age]
    /\ rx \in RxState
    /\ clean \in CleanState
    /\ upset \in BOOLEAN

\* No task reads or writes a block that has been freed, nor NULL for one: the map leads
\* to allocated blocks, and so do peer in awdl_rx_action (rx.c:291-331), peer in
\* awdl_peers_remove until it frees it (peers.c:178-187) and master_state in
\* awdl_election_run (election.c:71-114), until a put upsets the map.
NoUseAfterFree ==
    \/ upset
    \/ /\ hollow = {} /\ keyless = {}
       /\ \A a \in Peers : table[a] # None => table[a] \in live
       /\ rx.pc \in {"tlvs", "again"} => rx.ptr \in live
       /\ clean.pc \in Removing \cup {"free"} => clean.ptr \in live
       /\ clean.pc \in {"elect", "height"} => clean.best \in live \cup {None}

\* A block is reached from one address, or is about to be freed: none leaks, until a
\* put upsets the map.
NoOrphan ==
    \/ upset
    \/ /\ \A a, b \in Peers : table[a] # None /\ table[a] = table[b] => a = b
       /\ \A b \in live : \/ \E a \in Peers : table[a] = b
                          \/ clean.pc \in {"data", "key", "free"} /\ clean.ptr = b

\* A peer that falls silent is out of the table within the timeout and one clean
\* interval (core.c:316-322): the clean-up is never late and the timer never lost,
\* until a put upsets the map.
KnownAreRecent ==
    upset \/ \A a \in Peers : table[a] # None => silence[a] <= Timeout + 1

\* Between two elections the node follows itself, or a valid peer of its table:
\* the peers that went are gone before the election, never after it, until a put
\* upsets the map.
FollowsKnown ==
    LET s == election.sync_addr IN
    \/ upset
    \/ clean.pc = "idle" =>
           s = Self \/ (s \in Peers /\ table[s] # None /\ peer[table[s]].is_valid)
=============================================================================
