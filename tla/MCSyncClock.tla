---------------------------- MODULE MCSyncClock ----------------------------
(***************************************************************************)
(* Small instance of SyncClock: a master that hops between two channels,   *)
(* a node below it and another below that one.                             *)
(***************************************************************************)
EXTENDS SyncClock

MCParent == [n \in Node |-> n - 1]
MCDepth == [d \in Device |-> d]

\* The root is on channel 6 in the first half of the sequence and on 44 in the
\* second.
MCSequence ==
    [d \in Device |-> [s \in Slot |-> IF d # Root \/ 2 * s < SeqLength THEN 6 ELSE 44]]
=============================================================================
