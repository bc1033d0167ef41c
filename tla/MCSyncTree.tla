----------------------------- MODULE MCSyncTree -----------------------------
(***************************************************************************)
(* Small instances of SyncTree.  Node addresses are 1, 2, 3; the external  *)
(* device 9 outranks a node, as the metrics Apple devices announce do.     *)
(***************************************************************************)
EXTENDS SyncTree

MCExtMetric == [x \in External |-> MetricInit + 1]
MCExtCounter == [x \in External |-> CounterInit]

\* A ring: each node hears the next node only, for radio links need not be symmetric,
\* and the last one the external devices too.
MCRing ==
    [n \in Node |-> IF n = Cardinality(Node) THEN External \cup {1} ELSE {n + 1}]
=============================================================================
