---------------------------- MODULE AwdlElection ----------------------------
(***************************************************************************)
(* The master election of AWDL as src/main/owl/election.c computes it:     *)
(* the order on election states, the filter on candidates and what a node  *)
(* adopts.  An address is the number memcmp orders it by; the record keeps *)
(* the fields of struct awdl_election_state that the election reads.  The  *)
(* fields self_metric and self_counter are written once, with MetricInit   *)
(* and CounterInit (election.c:39-42), so they are those constants here.   *)
(***************************************************************************)
EXTENDS Integers

CONSTANTS
    MaxHeight,      \* AWDL_ELECTION_TREE_MAX_HEIGHT
    MetricInit,     \* AWDL_ELECTION_METRIC_INIT
    CounterInit,    \* AWDL_ELECTION_COUNTER_INIT
    HeightWord      \* number of values of the uint32_t height

ASSUME ElectionAssumption ==
    /\ MaxHeight \in Nat
    /\ MetricInit \in Nat
    /\ CounterInit \in Nat
    /\ HeightWord \in Nat
    /\ MaxHeight + 1 < HeightWord

Address == Nat

ElectionState ==
    [ self_addr : Address, master_addr : Address, sync_addr : Address,
      height : 0 .. (HeightWord - 1), master_metric : Nat, master_counter : Nat ]

\* height + 1 in uint32_t arithmetic.
OneMore(h) == IF h = HeightWord - 1 THEN 0 ELSE h + 1

\* Wrong on purpose: the metric of the new state is never set.
ResetSelfNoMetric(a) ==
    [ self_addr |-> a, master_addr |-> a, sync_addr |-> a, height |-> 0 ]

\* What a node that is its own master says of itself.
ResetSelf(a) ==
    [ self_addr |-> a, master_addr |-> a, sync_addr |-> a,
      height |-> 0, master_metric |-> MetricInit, master_counter |-> CounterInit ]

HigherMaster(p, q) ==
    \/ p.master_counter > q.master_counter
    \/ p.master_counter = q.master_counter /\ p.master_metric > q.master_metric

SameMaster(p, q) ==
    p.master_counter = q.master_counter /\ p.master_metric = q.master_metric

\* Wrong on purpose: equally good peers are not told apart.
BeatsNoTieBreak(p, q) ==
    HigherMaster(p, q) \/ (SameMaster(p, q) /\ p.height < q.height)

\* Wrong on purpose: the nearer master is not preferred.
BeatsByAddress(p, q) ==
    HigherMaster(p, q) \/ (SameMaster(p, q) /\ p.self_addr > q.self_addr)

\* The loop replaces q, the best so far, by p: a higher top master, or an equal
\* one that is nearer, or equally near under a larger address.
Beats(p, q) ==
    \/ HigherMaster(p, q)
    \/ /\ SameMaster(p, q)
       /\ \/ p.height < q.height
          \/ p.height = q.height /\ p.self_addr > q.self_addr

IsSyncMaster(state, a) == state.sync_addr = a

\* Wrong on purpose: the limit is applied to the peer and not to the node.
EligibleOneTooFar(a, p) == p.height <= MaxHeight /\ ~IsSyncMaster(p, a)

WithinLimit(p) == OneMore(p.height) <= MaxHeight

\* The two rejections that do not depend on the best so far.
Eligible(a, p) == WithinLimit(p) /\ ~IsSyncMaster(p, a)

\* Wrong on purpose: the metric is not taken over, or the height is not counted up.
AdoptNoMetric(a, p) ==
    [ self_addr |-> a, master_addr |-> p.master_addr, sync_addr |-> p.self_addr,
      height |-> OneMore(p.height), master_metric |-> MetricInit,
      master_counter |-> p.master_counter ]

AdoptSameHeight(a, p) ==
    [ self_addr |-> a, master_addr |-> p.master_addr, sync_addr |-> p.self_addr,
      height |-> p.height, master_metric |-> p.master_metric,
      master_counter |-> p.master_counter ]

\* The new state of node a when p won the loop.
Adopt(a, p) ==
    [ self_addr |-> a, master_addr |-> p.master_addr, sync_addr |-> p.self_addr,
      height |-> OneMore(p.height), master_metric |-> p.master_metric,
      master_counter |-> p.master_counter ]

Candidates(a, P) == { p \in P : Eligible(a, p) /\ Beats(p, ResetSelf(a)) }

Winners(a, P) ==
    { p \in Candidates(a, P) : \A q \in Candidates(a, P) \ {p} : Beats(p, q) }

\* What awdl_election_run of node a may leave behind when the valid peers are P.
\* ElectionLoop shows that the loop, in every iteration order, ends in a member
\* of this set and that the set has a single member.
ElectionRun(a, P) ==
    IF Candidates(a, P) = {} THEN { ResetSelf(a) }
                             ELSE { Adopt(a, p) : p \in Winners(a, P) }

-----------------------------------------------------------------------------
(* The same when records are rewritten during the run.                     *)

Versions(P, d) == { p \in P : p.self_addr = d }

\* Each of the two tests reads the record as it is then.
MayPass(a, V) == (\E p \in V : WithinLimit(p)) /\ (\E p \in V : ~IsSyncMaster(p, a))

\* So does each of the assignments of election.c:109-113.
Mixture(a, p, q, r, s) ==
    [ self_addr |-> a, master_addr |-> p.master_addr, sync_addr |-> p.self_addr,
      height |-> OneMore(q.height), master_metric |-> r.master_metric,
      master_counter |-> s.master_counter ]

Mixtures(a, V) == { Mixture(a, p, q, r, s) : p, q, r, s \in V }

\* What awdl_election_run of node a may leave behind when P has all the versions of
\* the valid peers that it can meet.  Which peer wins depends on when each is read.
TornRun(a, P) ==
    { ResetSelf(a) } \cup
    UNION { Mixtures(a, Versions(P, d)) :
              d \in { p.self_addr : p \in { q \in P : MayPass(a, Versions(P, q.self_addr)) } } }
=============================================================================
