---------------------------- MODULE MCPeerTable ----------------------------
(***************************************************************************)
(* Small instances of PeerTable: node 2 with a neighbour on either side of *)
(* its address.  Both announce themselves as masters, and the larger one   *)
(* sometimes a better master that it is too far from.                      *)
(***************************************************************************)
EXTENDS PeerTable, TLC

MCClaims ==
    { ResetSelf(a) : a \in Peers } \cup
    { [ResetSelf(3) EXCEPT !.height = MaxHeight, !.master_addr = 9, !.sync_addr = 9,
                           !.master_metric = MetricInit + 1] }

\* A frame as this firmware sends it, and one that cannot be parsed to its end.
MCTlvs == { << "v1", "v2", "version" >>, << "v1", "bad" >> }

\* A node whose map a put has upset is followed to the end of the clean-up, or until
\* the next frame.
MCWhileUpset == upset => countdown = 0 /\ rx.pc # "add"

\* The heap blocks are interchangeable.
MCSymmetry == Permutations(Block)
=============================================================================
