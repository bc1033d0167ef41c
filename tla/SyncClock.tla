----------------------------- MODULE SyncClock -----------------------------
(***************************************************************************)
(* The common clock of a settled synchronisation tree: availability        *)
(* windows (AWs) are counted from the last synchronisation (owl/sync.c),   *)
(* every action frame carries the sender's count and the time to its next  *)
(* extended window (awdl_init_sync_params_tlv in owl/tx.c), a node takes   *)
(* over both from its sync master (awdl_handle_sync_params_tlv in          *)
(* owl/rx.c), and owl/schedule.c decides from its own clock when a frame   *)
(* may be sent.  Time is in microseconds, scaled down.                     *)
(***************************************************************************)
EXTENDS Integers

CONSTANTS
    Root,           \* the top master, of whatever make
    Node,           \* the devices below it, which run this firmware
    Parent,         \* Parent[n]: the sync master of n
    Depth,          \* Depth[d]: how far d is from the root
    Tu,             \* microseconds in a time unit: 1024
    AwPeriod,       \* sync.aw_period, in time units
    PresenceMode,   \* sync.presence_mode: AWs in an extended AW (EAW)
    CounterWord,    \* number of values of aw_counter
    UsecWord,       \* number of values of unsigned long, in microseconds
    SeqLength,      \* AWDL_CHANSEQ_LENGTH
    MulticastSlots, \* the slots of awdl_is_multicast_eaw
    Sequence,       \* Sequence[d]: the channel of device d in each slot, or 0
    UnicastGuard,   \* AWDL_UNICAST_GUARD_TU: 3
    MulticastGuard, \* AWDL_MULTICAST_GUARD_TU: 4
    MaxDelay,       \* from the count of a frame's fields to its reception
    MaxTime         \* how far the clock runs: a bound for TLC

Device == Node \cup {Root}
Slot == 0 .. SeqLength - 1
EawTu == PresenceMode * AwPeriod
Eaw == EawTu * Tu
EawWord == CounterWord \div PresenceMode

\* Every node of the firmware stays on one channel (state.c:62).  An extended window
\* has room for a guard at either end (schedule.h:28-29).  The tree is of any depth:
\* nothing says that a guard is longer than the clocks of two devices can differ by.
ASSUME ClockAssumption ==
    /\ {Tu, AwPeriod, PresenceMode, CounterWord, UsecWord, SeqLength} \subseteq Nat \ {0}
    /\ {UnicastGuard, MulticastGuard, MaxDelay} \subseteq Nat
    /\ Root \notin Node
    /\ Parent \in [Node -> Device]
    /\ Depth \in [Device -> Nat]
    /\ Depth[Root] = 0
    /\ \A n \in Node : Depth[n] = Depth[Parent[n]] + 1
    /\ Sequence \in [Device -> [Slot -> Nat]]
    /\ \A n \in Node : \A i, j \in Slot : Sequence[n][i] = Sequence[n][j]
    /\ CounterWord % (PresenceMode * SeqLength) = 0
    /\ UsecWord % (Eaw * EawWord) = 0
    /\ 2 * UnicastGuard <= EawTu
    /\ 2 * MulticastGuard <= EawTu

VARIABLES
    now,
    last,           \* last[d]: sync.last_update
    counter,        \* counter[d]: sync.aw_counter
    synced,         \* the devices whose count goes back to the root's
    air             \* the latest action frame of each device, until it is lost

vars == << now, last, counter, synced, air >>

Since(d, t) == t - last[d]

\* ieee80211_usec_to_tu takes an unsigned long.
SinceTu(d, t) == (Since(d, t) % UsecWord) \div Tu

NextAwTu(d, t) == EawTu - (SinceTu(d, t) % EawTu)

NextAwUs(d, t) == Eaw - (Since(d, t) % Eaw)

\* Wrong on purpose: the windows of an extended window are counted as one.
CurrentAwPerEaw(d, t) ==
    (counter[d] + (SinceTu(d, t) % EawTu) \div AwPeriod
                + (SinceTu(d, t) \div EawTu)) % CounterWord

CurrentAw(d, t) ==
    (counter[d] + (SinceTu(d, t) % EawTu) \div AwPeriod
                + PresenceMode * (SinceTu(d, t) \div EawTu)) % CounterWord

CurrentEaw(d, t) == CurrentAw(d, t) \div PresenceMode

CurrentSlot(d, t) == CurrentEaw(d, t) % SeqLength

\* Devices are switched on at different times.
Init ==
    /\ now = Eaw
    /\ last \in { f \in [Device -> {0, Eaw - 1}] : f[Root] = 0 }
    /\ counter = [d \in Device |-> 0]
    /\ synced = {Root}
    /\ air = [d \in Device |-> {}]

\* Device d sends a PSF or a MIF; only those of a sync master are looked at.
SendAction(d) ==
    /\ \E n \in Node : Parent[n] = d
    /\ air' = [air EXCEPT ![d] = { [ next_aw_seq |-> CurrentAw(d, now),
                                     tx_down_counter |-> NextAwTu(d, now),
                                     sent |-> now, synced |-> d \in synced ] }]
    /\ UNCHANGED << now, last, counter, synced >>

Lose(d) ==
    /\ air[d] # {}
    /\ air' = [air EXCEPT ![d] = {}]
    /\ UNCHANGED << now, last, counter, synced >>

\* Wrong on purpose: the time to the next window is taken for the time since the last.
UpdateLastBackward(n, f) ==
    /\ last' = [last EXCEPT ![n] = now - Tu * f.tx_down_counter]
    /\ counter' = [counter EXCEPT ![n] = f.next_aw_seq - (f.next_aw_seq % PresenceMode)]

\* awdl_sync_update_last; the mask of sync.c:71 clears the AW within the EAW.
UpdateLast(n, f) ==
    /\ last' = [last EXCEPT ![n] = now - Tu * (EawTu - f.tx_down_counter)]
    /\ counter' = [counter EXCEPT ![n] = f.next_aw_seq - (f.next_aw_seq % PresenceMode)]

\* Sync parameters of any device but the sync master are ignored.
HandleSyncParams(n, f) ==
    /\ f \in air[Parent[n]]
    /\ UpdateLast(n, f)
    /\ synced' = IF f.synced THEN synced \cup {n} ELSE synced \ {n}
    /\ UNCHANGED << now, air >>

Tick ==
    /\ now < MaxTime
    /\ \A d \in Device : \A f \in air[d] : now - f.sent < MaxDelay
    /\ now' = now + 1
    /\ UNCHANGED << last, counter, synced, air >>

Next ==
    \/ Tick
    \/ \E d \in Device : SendAction(d) \/ Lose(d)
    \/ \E n \in Node : \E f \in air[Parent[n]] : HandleSyncParams(n, f)

Spec == Init /\ [][Next]_vars

-----------------------------------------------------------------------------
(* owl/schedule.c: when device n may send, by its own clock.               *)

\* Wrong on purpose: the beginning of a window is not guarded.
CanSendEarly(n, t) == NextAwUs(n, t) >= MulticastGuard * Tu

\* awdl_can_send_in = 0.
CanSend(n, t) ==
    /\ NextAwUs(n, t) >= MulticastGuard * Tu
    /\ Eaw - NextAwUs(n, t) >= MulticastGuard * Tu

\* The test of awdl_send_multicast.
SendsMulticast(n) == CurrentSlot(n, now) \in MulticastSlots /\ CanSend(n, now)

\* The node reckons both slots by its own clock (sync_offset is 0).
SameChannel(n, t, p) ==
    LET s == CurrentSlot(n, t) IN Sequence[n][s] # 0 /\ Sequence[n][s] = Sequence[p][s]

\* Wrong on purpose: the guards are not looked at.
SendsUnicastAnytime(n, p) == SameChannel(n, now, p)

\* awdl_can_send_unicast_in = 0: inside the guards, or across a boundary on whose
\* other side the two devices share a channel as well.
SendsUnicast(n, p) ==
    /\ SameChannel(n, now, p)
    /\ NextAwUs(n, now) < UnicastGuard * Tu => SameChannel(n, now + Eaw, p)
    /\ NextAwUs(n, now) >= UnicastGuard * Tu /\ Eaw - NextAwUs(n, now) < UnicastGuard * Tu =>
          SameChannel(n, now - Eaw, p)

-----------------------------------------------------------------------------
\* By how much the clock of d is behind that of the root, round the counter.
Position(d) == CurrentEaw(d, now) * Eaw + (Since(d, now) % Eaw)
Lag(d) == (Position(Root) - Position(d)) % (EawWord * Eaw)

\* A synchronised device is behind the root, never ahead of it, and by no more than
\* the rounding to time units and the delay of one frame for each hop (tx.c:103-128,
\* rx.c:46-51, sync.c:67-72): errors do not build up over time, and the wraps of
\* aw_counter and of the 32-bit microseconds leave no trace.
LagBounded == \A d \in synced : Lag(d) <= Depth[d] * (Tu - 1 + MaxDelay)

\* So far below the root a guard makes up for the lag.  With 3 and 4 time units that
\* is two and three hops, where a tree of the firmware may have ten.
Within(d, guard) == Depth[d] * (Tu - 1 + MaxDelay) < guard * Tu

\* What a synchronised node multicasts (core.c:395) reaches the others in a
\* multicast window of their own clocks, for two devices within the guard.
MulticastMeets ==
    \A n \in Node \cap synced : Within(n, MulticastGuard) /\ SendsMulticast(n) =>
        \A p \in synced : Within(p, MulticastGuard) => CurrentSlot(p, now) \in MulticastSlots

\* What it sends to a peer (core.c:371-373) is sent while the peer, by its own clock,
\* is on the channel the node is on, for two devices within the guard.
UnicastMeets ==
    \A n \in Node \cap synced : \A p \in synced \ {n} :
        Within(n, UnicastGuard) /\ Within(p, UnicastGuard) /\ SendsUnicast(n, p) =>
            Sequence[p][CurrentSlot(p, now)] = Sequence[n][CurrentSlot(n, now)]

\* Between two synchronisations the extended windows follow each other one by one,
\* also where aw_counter or the microseconds wrap (sync.c:47-58).
SlotsFollow ==
    \A d \in Device :
        CurrentEaw(d, now)' \in { CurrentEaw(d, now), (CurrentEaw(d, now) + 1) % EawWord }

SlotsInOrder == [][Tick => SlotsFollow]_vars
=============================================================================
