--------------------------- MODULE MCElectionLoop ---------------------------
(***************************************************************************)
(* Small instance of ElectionLoop: node 2 with at most one peer of a       *)
(* smaller and two of a larger address, two ranks of top master that the   *)
(* counter and the metric order in opposite ways, heights on both sides of *)
(* the limit and the height whose successor wraps.                         *)
(***************************************************************************)
EXTENDS ElectionLoop, FiniteSets, TLC

MCElectionStates(a) ==
    { [ self_addr |-> a, master_addr |-> 9, sync_addr |-> s, height |-> h,
        master_metric |-> r[1], master_counter |-> r[2] ] :
        s \in {2, 9}, h \in {0, 1, 2, 7}, r \in { <<60, 0>>, <<61, 0>>, <<59, 1>> } }

Unchanged(e, valid) == [ before |-> e, after |-> e, is_valid |-> valid ]

MCPeers(a) == { Unchanged(e, TRUE) : e \in MCElectionStates(a) }
                  \cup { Unchanged(ResetSelf(a), FALSE) }

\* Peers 1 and 3 in every state.
MCPairs == { 1 :> p @@ 3 :> q : p \in MCPeers(1), q \in MCPeers(3) }

\* Peers 1, 3 and 4, none of which the node is the sync master of.
MCTriples ==
    LET Fit(a) == { p \in MCPeers(a) : p.before.sync_addr # 2 /\ p.before.height < 2 } IN
    { 1 :> p @@ 3 :> q @@ 4 :> r : p \in Fit(1), q \in Fit(3), r \in Fit(4) }

\* Peers 1 and 3, which announce themselves, or a master, or this node as sync master.
MCRewritten(a) ==
    LET S == { ResetSelf(a) } \cup
             { [ self_addr |-> a, master_addr |-> 9, sync_addr |-> s, height |-> h,
                 master_metric |-> 61, master_counter |-> 1 ] : s \in {2, 9}, h \in {1, 2} }
    IN { [ before |-> e, after |-> f, is_valid |-> TRUE ] : e, f \in S }

MCFrames == { 1 :> p @@ 3 :> q : p \in MCRewritten(1), q \in MCRewritten(3) }

MCPeerTables == MCPairs \cup MCTriples \cup MCFrames
=============================================================================
