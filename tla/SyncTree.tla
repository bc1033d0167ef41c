------------------------------ MODULE SyncTree ------------------------------
(***************************************************************************)
(* A network of nodes that run this firmware, among devices of other       *)
(* makers, building the AWDL synchronisation tree.  Every node announces   *)
(* its election state in PSF and MIF action frames (owl/tx.c), keeps what  *)
(* its neighbours announced in its peer table (owl/rx.c, owl/peers.c) and, *)
(* once per clean interval, drops the silent peers and elects a master     *)
(* from the rest (awdl_clean_peers in wifi/core.c).                        *)
(*                                                                         *)
(* A frame not heard is lost.  A frame between two elections is stored in  *)
(* one step, for nothing reads the record before it is complete.  When the *)
(* WiFi task breaks into an election, or the esp_timer task of the other   *)
(* core runs one beside it, records change field by field while the        *)
(* election reads them: ElectionLoop has those steps, and TornElection     *)
(* here their outcomes.                                                    *)
(***************************************************************************)
EXTENDS AwdlElection, FiniteSets

CONSTANTS
    Node,           \* the devices that run this firmware
    External,       \* the other devices: top masters by their own election
    ExtMetric,      \* the metric and the counter each of them announces
    ExtCounter,
    InRange         \* InRange[d]: the devices whose frames reach device d

Device == Node \cup External

ASSUME NetworkAssumption ==
    /\ Node \subseteq Address
    /\ External \subseteq Address
    /\ Node \cap External = {}
    /\ ExtMetric \in [External -> Nat]
    /\ ExtCounter \in [External -> Nat]
    /\ InRange \in [Node -> SUBSET Device]
    /\ \A n \in Node : n \notin InRange[n]

CONSTANTS
    MaxDisturb,     \* how often the network is disturbed: a bound for TLC
    MaxTorn         \* how often frames come in the middle of an election: another

\* A torn election can exceed the height limit by one; the word has room for it.
ASSUME BoundAssumption ==
    MaxDisturb \in Nat /\ MaxTorn \in Nat /\ MaxHeight + MaxTorn + 1 < HeightWord

VARIABLES
    election,       \* election[n]: the election state of node n
    peers,          \* peers[n]: the election states of n's valid peers
    present,        \* the external devices that are switched on
    disturbed,      \* how often the network has been disturbed
    torn            \* observed: how often frames came in the middle of an election

vars == << election, peers, present, disturbed, torn >>

\* What an external device announces: itself as top master.
ExtState(x) ==
    [ self_addr |-> x, master_addr |-> x, sync_addr |-> x, height |-> 0,
      master_metric |-> ExtMetric[x], master_counter |-> ExtCounter[x] ]

Announced(d) == IF d \in Node THEN election[d] ELSE ExtState(d)

OnAir == Node \cup present

Known(n) == { p.self_addr : p \in peers[n] }

Init ==
    /\ election = [n \in Node |-> ResetSelf(n)]
    /\ peers = [n \in Node |-> {}]
    /\ present \in SUBSET External
    /\ disturbed = 0
    /\ torn = 0

\* Wrong on purpose: the height is not stored.
HearFromNoHeight(n, d) ==
    /\ d \in InRange[n] \cap OnAir
    /\ peers' = [peers EXCEPT ![n] =
                    { p \in peers[n] : p.self_addr # d }
                        \cup { [Announced(d) EXCEPT !.height = 0] }]

\* Node n hears an action frame of device d and overwrites what it stored of d.
\* A peer is used by the election once it has sent a MIF; until then its PSFs
\* leave a record that no election reads, which is the absence of d from peers[n].
HearFrom(n, d) ==
    /\ d \in InRange[n] \cap OnAir
    /\ peers' = [peers EXCEPT ![n] =
                    { p \in peers[n] : p.self_addr # d } \cup { Announced(d) }]

Hear(n, d) == HearFrom(n, d) /\ UNCHANGED << election, present, disturbed, torn >>

\* Wrong on purpose: the silent peers stay.
CleanKeepsSilent(n, silent) ==
    /\ peers' = peers
    /\ \E e \in ElectionRun(n, peers[n]) : election' = [election EXCEPT ![n] = e]

\* Node n drops the peers in silent and elects (awdl_clean_peers), and no frame
\* comes in until it has.
Clean(n, silent) ==
    /\ peers' = [peers EXCEPT ![n] = { p \in peers[n] : p.self_addr \notin silent }]
    /\ \E e \in ElectionRun(n, { p \in peers[n] : p.self_addr \notin silent }) :
          election' = [election EXCEPT ![n] = e]

Gone(n) == Known(n) \ OnAir

\* The periodic run when no device on the air has been silent for the peer
\* timeout: only devices that went off the air are dropped.  How long after
\* their last frame is left open: the timeout is two clean intervals.
CleanPeers(n, silent) ==
    /\ silent \subseteq Gone(n)
    /\ Clean(n, silent)
    /\ UNCHANGED << present, disturbed, torn >>

Disturb == disturbed < MaxDisturb /\ disturbed' = disturbed + 1

\* The run after every frame of the devices in lost has been missed for the
\* length of the peer timeout.
Blackout(n, lost) ==
    /\ Disturb
    /\ lost # {}
    /\ lost \subseteq Known(n) \ Gone(n)
    /\ Clean(n, lost)
    /\ UNCHANGED << present, torn >>

\* The run of node n, which has dropped the peers in silent, while the frames of the
\* devices in heard are being stored: it meets what was stored and what is new of
\* each of them, field by field.
TornElection(n, silent, heard) ==
    LET kept == { p \in peers[n] : p.self_addr \notin silent }
        new == { Announced(d) : d \in heard }
    IN /\ torn < MaxTorn
       /\ silent \subseteq Gone(n)
       /\ heard # {}
       /\ heard \subseteq OnAir
       /\ torn' = torn + 1
       /\ peers' = [peers EXCEPT ![n] = { p \in kept : p.self_addr \notin heard } \cup new]
       /\ \E e \in TornRun(n, kept \cup new) : election' = [election EXCEPT ![n] = e]
       /\ UNCHANGED << present, disturbed >>

\* esp_restart: by the button, by Ctrl+R on the console, or a crash.
Restart(n) ==
    /\ Disturb
    /\ election' = [election EXCEPT ![n] = ResetSelf(n)]
    /\ peers' = [peers EXCEPT ![n] = {}]
    /\ UNCHANGED << present, torn >>

Arrive(x) ==
    /\ Disturb
    /\ x \notin present
    /\ present' = present \cup {x}
    /\ UNCHANGED << election, peers, torn >>

Leave(x) ==
    /\ Disturb
    /\ x \in present
    /\ present' = present \ {x}
    /\ UNCHANGED << election, peers, torn >>

Next ==
    \/ \E n \in Node :
          \/ \E d \in Device : Hear(n, d)
          \/ \E silent \in SUBSET Known(n) : CleanPeers(n, silent)
          \/ \E lost \in SUBSET Known(n) : Blackout(n, lost)
          \/ \E silent \in SUBSET Known(n), heard \in SUBSET InRange[n] :
                TornElection(n, silent, heard)
          \/ Restart(n)
    \/ \E x \in External : Arrive(x) \/ Leave(x)

Spec == Init /\ [][Next]_vars

\* The PSF timer is periodic, so of the frames a device keeps sending some get
\* through; the peer timer rearms itself at the end of every run and a peer
\* that has left is dropped once the timeout has passed.
Fairness ==
    \A n \in Node :
        /\ \A d \in InRange[n] : WF_vars(Hear(n, d))
        /\ WF_vars(CleanPeers(n, Gone(n)))

FairSpec == Spec /\ Fairness

-----------------------------------------------------------------------------
\* Type invariant.
TypeOK ==
    /\ election \in [Node -> ElectionState]
    /\ peers \in [Node -> SUBSET ElectionState]
    /\ present \subseteq External
    /\ disturbed \in 0 .. MaxDisturb
    /\ torn \in 0 .. MaxTorn

\* Every election state in the network: held, or remembered by a peer.
States == { election[n] : n \in Node } \cup UNION { peers[n] : n \in Node }

\* An election state names the rank of the master it names.
RankOf(a) == IF a \in External THEN << ExtMetric[a], ExtCounter[a] >>
                               ELSE << MetricInit, CounterInit >>

RealMasters ==
    \A s \in States : /\ s.master_addr \in Device
                      /\ << s.master_metric, s.master_counter >> = RankOf(s.master_addr)

\* The three fields that travel separately (rx.c:124, rx.c:136-139) and that
\* election.c:109-112 copies one by one stay together across the network, as long
\* as no frame has come in the middle of an election.
MasterIsReal == torn = 0 => RealMasters

\* The limit of election.h:25, tested at election.c:82 before the height is read
\* again at line 113, is exceeded by no more than one for each election that a frame
\* came in the middle of; and height 0 is said by the devices that follow nobody and
\* by no other.
DepthBounded ==
    \A s \in States :
        /\ s.height <= MaxHeight + torn
        /\ s.height = 0 <=> s.sync_addr = s.self_addr
        /\ s.height = 0 => s.master_addr = s.self_addr

\* A node of a tree without an external master is one level below its root.
Star(n) ==
    LET s == election[n] IN
    s.master_addr \in Node /\ s.sync_addr # n =>
        s.height = 1 /\ s.sync_addr = s.master_addr /\ s.sync_addr > n

\* Without an external master in it the tree is one level deep: among equal
\* metrics a node follows only a neighbour of a larger address that is its own
\* master (election.c:95-101), so no chain of such nodes closes to a cycle, as
\* long as no frame has come in the middle of an election.
OwnTreesAreStars == torn = 0 => \A n \in Node : Star(n)

\* What a state claims: its top master, and that master's rank.
Claim(s) == << s.master_addr, s.master_metric, s.master_counter >>

\* A device on the air is the master of that claim.
Rooted(c) == \E d \in OnAir : Announced(d).height = 0 /\ Claim(Announced(d)) = c

\* A claim whose master is away, or never was, only moves away from the root: no step
\* brings back one nearer than the nearest there is (election.c:113 adds one to a
\* height that is still remembered), but for an election that a frame comes in the
\* middle of.  This is what the height limit needs to end the counting to infinity
\* that a lost master starts.
GhostsRecede ==
    torn' = torn =>
        \A s \in States' \ States :
            ~Rooted(Claim(s)) /\ ~Rooted(Claim(s))' =>
                \E t \in States : Claim(t) = Claim(s) /\ t.height <= s.height

GhostsOnlyRecede == [][GhostsRecede]_vars

\* The claims to follow device x.
Ghosts(x) == { s \in States : s.master_addr = x }

\* A device that is away is forgotten as master by every node (or comes back).
GhostsVanish ==
    \A x \in External :
        (x \notin present) ~> (x \in present \/ Ghosts(x) = {})

\* A node's election would leave its state as it is, given what its neighbours
\* on the air announce now.
Settled(n) ==
    ElectionRun(n, { Announced(d) : d \in InRange[n] \cap OnAir }) = { election[n] }

\* Once the disturbances are over the elections come to rest, on masters that are
\* there, within the height limit and in stars, whatever claims frames in the middle
\* of elections have mixed.
Settles ==
    <>[](/\ RealMasters
         /\ \A n \in Node : /\ Settled(n) /\ Star(n)
                            /\ election[n].master_addr \in OnAir
                            /\ election[n].height <= MaxHeight)

\* The node reached from n by following k sync masters.
Ancestor(n, k) ==
    LET up[i \in 0 .. k] ==
          IF i = 0 THEN n
          ELSE IF up[i - 1] \in Node THEN election[up[i - 1]].sync_addr ELSE up[i - 1]
    IN up[k]

\* What election.c:88 says of the rejection above it, "do not allow cycles in
\* sync tree": no node is its own ancestor, at least while every election has seen
\* each record whole.
NoCycle ==
    torn = 0 =>
        \A n \in Node : election[n].sync_addr # n =>
            \A k \in 1 .. Cardinality(Node) : Ancestor(n, k) # n
=============================================================================
