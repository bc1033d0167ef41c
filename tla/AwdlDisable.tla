----------------------------- MODULE AwdlDisable -----------------------------
(***************************************************************************)
(* The transmit path while the console turns AWDL off: awdl_disable        *)
(* (wifi/core.c), called by `awdl disable` (cli/command.c), takes the      *)
(* interface down and deletes timers that awdl_transmit and the callbacks  *)
(* of TxPath start without asking whether they still exist.                *)
(*                                                                         *)
(* On the one core of the committed sdkconfig the console has the lowest   *)
(* priority of the tasks here: between two of its steps the others go on   *)
(* until they wait for work.  Two of its calls touch nothing of this       *)
(* state: psf_timer is stopped, and mif_timer is not deleted because it is *)
(* always armed when the console runs.  Neither does the flag running,     *)
(* which is cleared last: the callbacks then free a frame without sending. *)
(***************************************************************************)
EXTENDS TxPath

VARIABLES
    console,        \* where awdl_disable is
    up,             \* whether the interface AWDL_DEF is up
    deleted,        \* which of "tx" and "mc" have been deleted
    overrun,        \* observer: a put into a full queue has interrupted a get
    overlap         \* observer: something has come between the steps of awdl_transmit

seen == << overrun, overlap >>
nodeVars == << vars, console, up, deleted, seen >>

NodeInit ==
    /\ Init
    /\ console = "idle"
    /\ up = TRUE
    /\ deleted = {}
    /\ overrun = FALSE
    /\ overlap = FALSE

\* A get has cleared the flag of a full queue and not moved tail yet
\* (circular_buffer.c:36-37): a put now takes the queue for one with room.
Overruns(t) == pc[t] = "write" /\ timerPc = "retreat" /\ head = tail

\* Two tasks are in awdl_transmit at once (the lwIP thread and the WiFi task), ...
Meets(t) == \E u \in Transmitters \ {t} : pc[u] # "idle"

\* ... or a callback runs while one is between the two halves of its test, or in a put.
Interrupts == \E t \in Transmitters : pc[t] \in Uninterrupted

\* lwIP hands packets only to an interface that is up.
NodeTransmit(t) ==
    /\ Transmit(t)
    /\ pc[t] = "idle" => up
    /\ overrun' = (overrun \/ Overruns(t))
    /\ overlap' = (overlap \/ Meets(t))
    /\ UNCHANGED << console, up, deleted >>

Callback ==
    /\ SendUnicast \/ SendMulticast
    /\ overlap' = (overlap \/ Interrupts)
    /\ UNCHANGED << console, up, deleted, overrun >>

NodeChangeSequence == ChangeSequence /\ UNCHANGED << console, up, deleted, seen >>

-----------------------------------------------------------------------------
(* awdl_disable, in the console.                                           *)

ConsoleGoto(from, to) ==
    /\ \A t \in Transmitters : pc[t] = "idle"
    /\ timerPc = "idle"
    /\ console = from
    /\ console' = to
    /\ UNCHANGED << vars, seen >>

\* netif_set_down and netif_set_link_down.
SetDown ==
    /\ ConsoleGoto("idle", "delete_tx")
    /\ up' = FALSE
    /\ UNCHANGED deleted

\* Wrong on purpose: a timer is deleted whether it is armed or not.
DeleteAnyway(name, isArmed) == deleted' = deleted \cup {name}

\* esp_timer_delete refuses a timer that is armed; the result is ignored.
Delete(name, isArmed) == deleted' = IF isArmed THEN deleted ELSE deleted \cup {name}

DeleteTx ==
    /\ ConsoleGoto("delete_tx", "delete_mc")
    /\ Delete("tx", txArmed)
    /\ UNCHANGED up

DeleteMc ==
    /\ ConsoleGoto("delete_mc", "disabled")
    /\ Delete("mc", mcArmed)
    /\ UNCHANGED up

Disable == SetDown \/ DeleteTx \/ DeleteMc

NodeNext ==
    \/ Callback \/ Disable \/ NodeChangeSequence
    \/ \E t \in Transmitters : NodeTransmit(t)

NodeSpec == NodeInit /\ [][NodeNext]_nodeVars

\* Once the flag running is cleared no frame is received (capture.c:508), so that the
\* peers age out and a frame to one is dropped at the next try.
NodeFairness == Fairness /\ SF_vars(Drop /\ console = "disabled")

NodeFairSpec == NodeSpec /\ NodeFairness

-----------------------------------------------------------------------------
\* A timer that was deleted (core.c:451-452) is one that nobody needs any more: it is
\* not armed, no task is about to start it, and no frame waits for it.
DeadTimersUnneeded ==
    /\ "tx" \in deleted =>
          /\ ~txArmed /\ next = None
          /\ timerPc \notin {"tx", "transmit", "free", "clear", "rearm_tx"}
          /\ \A t \in Transmitters : pc[t] \notin {"store", "start_tx"}
    /\ "mc" \in deleted =>
          /\ ~mcArmed /\ Empty
          /\ timerPc \notin {"mc", "fetch", "retreat", "send_mc", "rearm_mc", "crashed"}
          /\ \A t \in Transmitters :
                pc[t] \notin {"write", "overwrite", "advance", "compare", "mark", "start_mc"}

\* Every allocated frame can still be reached by the task that will free it
\* (core.c:370, 399), and what can be reached is allocated: no leak, no dangling
\* pointer, unless a put has overrun a full queue or tasks have overlapped in
\* awdl_transmit.
Reachable == overrun \/ overlap \/ InReach

\* A frame that is accepted leaves the node or is dropped: its block is freed
\* (core.c:370, 399).  The one that never is blocks state->next (awdl.c:69), and again
\* and again its destination is a peer that has no channel in common with the node;
\* unless a put has overrun a full queue or tasks have overlapped in awdl_transmit.
EveryFrameFreed ==
    \A f \in Frame :
        f \in heap ~> (f \notin heap \/ (next = f /\ apart) \/ overrun \/ overlap)

\* Turning AWDL off ends in silence: whatever was accepted before is freed, and then
\* nothing is left, whichever of the timers survive their deletion (core.c:451-452),
\* unless a put has overrun a full queue or tasks have overlapped in awdl_transmit.
DisabledIsQuiet ==
    console = "disabled" ~> (overrun \/ overlap \/ [](heap = {} /\ next = None /\ Empty))
=============================================================================
