---------------------------- MODULE ElectionLoop ----------------------------
(***************************************************************************)
(* The loop of awdl_election_run (src/main/owl/election.c:67-114), one     *)
(* read of a peer record at a time.  The hash map hands out the peers in   *)
(* an order that depends on its keys, so the next peer is any one not      *)
(* visited yet.                                                            *)
(*                                                                         *)
(* The loop runs in the esp_timer task and takes no lock.  The WiFi task   *)
(* (or the other core) may handle action frames meanwhile, and writes      *)
(* their fields one by one into the records the loop reads (rx.c:133-143). *)
(* A run takes far less time than there is between two frames of a device, *)
(* so that each record is written at most once.                            *)
(***************************************************************************)
EXTENDS AwdlElection, Sequences

CONSTANTS
    Self,           \* the address of the node that runs the election
    PeerTables      \* the peer tables to start from: functions on addresses

\* A peer: what its record says before the run, and what the frame that comes in
\* the middle of it announces, the same when there is none.
Peer == [ before : ElectionState, after : ElectionState, is_valid : BOOLEAN ]

ASSUME LoopAssumption ==
    /\ Self \in Address
    /\ \A T \in PeerTables :
          /\ DOMAIN T \subseteq Address \ {Self}
          /\ T \in [DOMAIN T -> Peer]
          /\ \A a \in DOMAIN T : T[a].before.self_addr = a /\ T[a].after.self_addr = a

VARIABLES
    table,          \* the peers of the map
    written,        \* written[a]: how many fields the frame of a has overwritten
    todo,           \* the peers the iterator has not returned yet
    pc,             \* the statement the loop has come to
    peer,           \* the peer it looks at
    master_state,   \* the best so far: the address of its record
    elected         \* *state

loopVars == << table, written, todo, pc, peer, master_state, elected >>

\* The order in which a frame overwrites the fields of a record (rx.c:133-138).
WriteOrder == << "height", "master_addr", "sync_addr", "master_counter", "master_metric" >>

\* peer->election as it is now.
Record(a) ==
    [ f \in DOMAIN table[a].before |->
        IF \E i \in 1 .. written[a] : WriteOrder[i] = f THEN table[a].after[f]
                                                        ELSE table[a].before[f] ]

State(a) == IF a = Self THEN elected ELSE Record(a)

ValidPeers == { a \in DOMAIN table : table[a].is_valid }

\* Before its run the node's state is whatever the last election left; it is
\* overwritten at once, so the loop starts from the reset state.
LoopInit ==
    /\ table \in PeerTables
    /\ written = [a \in DOMAIN table |-> 0]
    /\ todo = DOMAIN table
    /\ pc = "next"
    /\ peer = Self
    /\ master_state = Self
    /\ elected = ResetSelf(Self)

\* The WiFi task writes the next field of the frame of a.
WriteField(a) ==
    /\ pc # "done"
    /\ table[a].after # table[a].before
    /\ written[a] < Len(WriteOrder)
    /\ written' = [written EXCEPT ![a] = @ + 1]
    /\ UNCHANGED << table, todo, pc, peer, master_state, elected >>

Visit(a) ==
    /\ pc = "next"
    /\ todo' = todo \ {a}
    /\ peer' = a
    /\ pc' = IF table[a].is_valid THEN "limit" ELSE "next"
    /\ UNCHANGED << table, written, master_state, elected >>

TestLimit ==
    /\ pc = "limit"
    /\ pc' = IF WithinLimit(Record(peer)) THEN "cycle" ELSE "next"
    /\ UNCHANGED << table, written, todo, peer, master_state, elected >>

TestCycle ==
    /\ pc = "cycle"
    /\ pc' = IF IsSyncMaster(Record(peer), Self) THEN "next" ELSE "compare"
    /\ UNCHANGED << table, written, todo, peer, master_state, elected >>

\* Wrong on purpose: the first peer that qualifies is kept for good.
CompareFirst ==
    /\ pc = "compare"
    /\ pc' = "next"
    /\ master_state' = IF master_state = Self /\ Beats(Record(peer), State(master_state))
                       THEN peer ELSE master_state
    /\ UNCHANGED << table, written, todo, peer, elected >>

Compare ==
    /\ pc = "compare"
    /\ pc' = "next"
    /\ master_state' = IF Beats(Record(peer), State(master_state)) THEN peer ELSE master_state
    /\ UNCHANGED << table, written, todo, peer, elected >>

\* The iterator is exhausted: adopt the best, unless the node itself is.
EndOfPeers ==
    /\ pc = "next"
    /\ todo = {}
    /\ pc' = IF master_state = Self THEN "done" ELSE "adopt"
    /\ UNCHANGED << table, written, todo, peer, master_state, elected >>

\* Wrong on purpose: the node follows the master of the winner and not the winner.
CopyMasterAsSync(f) ==
    elected' = [elected EXCEPT ![f] = IF f = "sync_addr" THEN Record(master_state).master_addr
                                      ELSE Adopt(Self, Record(master_state))[f]]

\* One of the assignments, from the record as it is then.
Copy(f) == elected' = [elected EXCEPT ![f] = Adopt(Self, Record(master_state))[f]]

\* The assignments in their order; each reaches the next.
CopyOrder == [ adopt |-> "sync", sync |-> "metric", metric |-> "counter",
               counter |-> "height", height |-> "done" ]

Copied == [ adopt |-> "master_addr", sync |-> "sync_addr", metric |-> "master_metric",
            counter |-> "master_counter", height |-> "height" ]

AdoptField ==
    /\ pc \in DOMAIN CopyOrder
    /\ Copy(Copied[pc])
    /\ pc' = CopyOrder[pc]
    /\ UNCHANGED << table, written, todo, peer, master_state >>

LoopNext ==
    \/ \E a \in DOMAIN table : WriteField(a)
    \/ \E a \in todo : Visit(a)
    \/ TestLimit \/ TestCycle \/ Compare \/ EndOfPeers \/ AdoptField

LoopSpec == LoopInit /\ [][LoopNext]_loopVars

-----------------------------------------------------------------------------
\* Type invariant.
LoopTypeOK ==
    /\ table \in PeerTables
    /\ written \in [DOMAIN table -> 0 .. Len(WriteOrder)]
    /\ todo \subseteq DOMAIN table
    /\ pc \in {"next", "limit", "cycle", "compare", "done"} \cup DOMAIN CopyOrder
    /\ pc \in {"limit", "cycle", "compare"} => peer \in ValidPeers
    /\ master_state \in ValidPeers \cup {Self}
    /\ elected \in ElectionState

\* No frame has changed a record since the run began.
Steady == \A a \in DOMAIN table : Record(a) = table[a].before

\* The valid peers that the loop has done with.
Seen == { table[a].before :
            a \in ValidPeers \ (todo \cup IF pc \in {"limit", "cycle", "compare"}
                                          THEN {peer} ELSE {}) }

\* At every iteration master_state (election.c:71-106) is the best of the valid
\* peers visited so far, or the node itself when none of them qualifies.
BestSoFar ==
    Steady => IF master_state = Self
              THEN Candidates(Self, Seen) = {}
              ELSE table[master_state].before \in Winners(Self, Seen)

\* The outcome of the loop (election.c:77-114) does not depend on the order in
\* which the hash map hands out the peers: it is the one outcome the election
\* of the whole table has.
OrderIrrelevant ==
    pc = "done" /\ Steady =>
        ElectionRun(Self, { table[a].before : a \in ValidPeers }) = {elected}

\* Whatever the WiFi task writes into the records between any two reads of the loop,
\* the node is left as its own master or with the fields of one peer that may have
\* passed the tests, each as it was at some time (election.c:82-113, rx.c:133-143).
TornAtMost ==
    pc = "done" =>
        elected \in TornRun(Self, UNION { { table[a].before, table[a].after } : a \in ValidPeers })
=============================================================================
