------------------------------- MODULE TxPath -------------------------------
(***************************************************************************)
(* The transmit path: awdl_transmit (wifi/awdl.c) hands frames to the      *)
(* timer callbacks awdl_send_unicast and awdl_send_multicast               *)
(* (wifi/core.c) through two shared places, the pointer state->next and    *)
(* the circular buffer tx_queue_multicast (owl/circular_buffer.c).         *)
(* No lock protects either.  awdl_transmit runs in every task of           *)
(* Transmitters: the lwIP thread, and the WiFi task, from which            *)
(* awdl_netif_input calls ip_input and hence the replies it causes.  The   *)
(* callbacks run one after the other in the one esp_timer task.            *)
(*                                                                         *)
(* A step is one access to a shared variable, as far as the order of the   *)
(* accesses matters.  A frame is the heap block that holds it.             *)
(***************************************************************************)
EXTENDS Naturals, FiniteSets

CONSTANTS
    Transmitters,   \* the tasks that call awdl_transmit
    Frame,          \* the heap blocks a frame can be in: a bound for TLC
    Slots,          \* the size of tx_queue_multicast
    None,           \* NULL, and what a local variable holds before it is set
    Above           \* the transmitters the esp_timer task cannot interrupt

ASSUME TxAssumption ==
    /\ Slots \in Nat \ {0}
    /\ None \notin Frame
    /\ Above \subseteq Transmitters

VARIABLES
    next,           \* state->next
    apart,          \* its destination is a peer that shares no channel with this node
    buffer,         \* tx_queue_multicast->buffer
    head, tail,     \* its indices
    full,           \* its flag
    heap,           \* the allocated frames
    txArmed,        \* whether tx_timer is armed, and tx_mcast_timer
    mcArmed,
    pc,             \* pc[t]: where transmitter t is
    held,           \* held[t]: its local variable buf
    wrapped,        \* wrapped[t]: its value of head == tail (circular_buffer.c:29)
    timerPc,        \* where the esp_timer task is
    taken           \* the local variable next of awdl_send_multicast

target == << next, apart >>
queue == << buffer, head, tail, full >>
sender == << pc, held, wrapped >>
timer == << timerPc, taken >>
armed == << txArmed, mcArmed >>
vars == << target, queue, heap, armed, sender, timer >>

\* The (i + 1) % max of circular_buffer.c, for an index i below max.
Succ(i) == IF i + 1 = Slots THEN 0 ELSE i + 1

SenderPc == { "idle", "next?", "full?", "build", "store", "start_tx",
              "write", "overwrite", "advance", "compare", "mark", "start_mc" }

TimerPc == { "idle", "tx", "transmit", "free", "clear", "rearm_tx",
             "mc", "fetch", "retreat", "send_mc", "rearm_mc", "crashed" }

\* awdl_schedule arms both timers once when it creates them.
Init ==
    /\ next = None
    /\ apart = FALSE
    /\ buffer = [i \in 0 .. Slots - 1 |-> None]
    /\ head = 0
    /\ tail = 0
    /\ full = FALSE
    /\ heap = {}
    /\ txArmed = TRUE
    /\ mcArmed = TRUE
    /\ pc = [t \in Transmitters |-> "idle"]
    /\ held = [t \in Transmitters |-> None]
    /\ wrapped = [t \in Transmitters |-> FALSE]
    /\ timerPc = "idle"
    /\ taken = None

Goto(t, from, to) == pc[t] = from /\ pc' = [pc EXCEPT ![t] = to]

\* On the one core of the committed sdkconfig a task that does not block keeps
\* the core from the tasks of lower priority: the WiFi task from the esp_timer
\* task, though not the lwIP thread.  awdl_transmit does not block between the
\* two halves of its test, nor inside circular_buf_put.
Uninterrupted == { "full?", "overwrite", "advance", "compare", "mark" }

TimerGoto(from, to) ==
    /\ \A t \in Above : pc[t] \notin Uninterrupted
    /\ timerPc = from
    /\ timerPc' = to

-----------------------------------------------------------------------------
(* awdl_transmit, in task t.                                               *)

Call(t) ==
    /\ Goto(t, "idle", "next?")
    /\ UNCHANGED << target, queue, heap, armed, held, wrapped, timer >>

\* The two halves of the test in awdl.c:69; each may return ESP_ERR_NO_MEM.
CheckNext(t) ==
    /\ Goto(t, "next?", IF next = None THEN "full?" ELSE "idle")
    /\ UNCHANGED << target, queue, heap, armed, held, wrapped, timer >>

CheckFull(t) ==
    /\ Goto(t, "full?", IF full THEN "idle" ELSE "build")
    /\ UNCHANGED << target, queue, heap, armed, held, wrapped, timer >>

\* The frame is allocated and copied.  is_multicast is not initialised: for a
\* unicast destination the branch of awdl.c:91 may go either way.
Build(t, f, isMulticast) ==
    /\ f \notin heap
    /\ Goto(t, "build", IF isMulticast THEN "write" ELSE "store")
    /\ heap' = heap \cup {f}
    /\ held' = [held EXCEPT ![t] = f]
    /\ UNCHANGED << target, queue, armed, wrapped, timer >>

Store(t) ==
    /\ Goto(t, "store", "start_tx")
    /\ next' = held[t]
    /\ apart' \in BOOLEAN
    /\ held' = [held EXCEPT ![t] = None]
    /\ UNCHANGED << queue, heap, armed, wrapped, timer >>

\* esp_timer_start_once does nothing to a timer that is armed already.
StartTx(t) ==
    /\ Goto(t, "start_tx", "idle")
    /\ txArmed' = TRUE
    /\ UNCHANGED << target, queue, heap, mcArmed, held, wrapped, timer >>

\* circular_buf_put: the slot, then the four accesses of advance_pointer.
Write(t) ==
    /\ Goto(t, "write", "overwrite")
    /\ buffer' = [buffer EXCEPT ![head] = held[t]]
    /\ held' = [held EXCEPT ![t] = None]
    /\ UNCHANGED << target, head, tail, full, heap, armed, wrapped, timer >>

Overwrite(t) ==
    /\ Goto(t, "overwrite", "advance")
    /\ tail' = IF full THEN Succ(tail) ELSE tail
    /\ UNCHANGED << target, buffer, head, full, heap, armed, held, wrapped, timer >>

Advance(t) ==
    /\ Goto(t, "advance", "compare")
    /\ head' = Succ(head)
    /\ UNCHANGED << target, buffer, tail, full, heap, armed, held, wrapped, timer >>

Compare(t) ==
    /\ Goto(t, "compare", "mark")
    /\ wrapped' = [wrapped EXCEPT ![t] = (head = tail)]
    /\ UNCHANGED << target, queue, heap, armed, held, timer >>

Mark(t) ==
    /\ Goto(t, "mark", "start_mc")
    /\ full' = wrapped[t]
    /\ wrapped' = [wrapped EXCEPT ![t] = FALSE]
    /\ UNCHANGED << target, buffer, head, tail, heap, armed, held, timer >>

StartMc(t) ==
    /\ Goto(t, "start_mc", "idle")
    /\ mcArmed' = TRUE
    /\ UNCHANGED << target, queue, heap, txArmed, held, wrapped, timer >>

Transmit(t) ==
    \/ Call(t) \/ CheckNext(t) \/ CheckFull(t)
    \/ \E f \in Frame, isMulticast \in BOOLEAN : Build(t, f, isMulticast)
    \/ Store(t) \/ StartTx(t)
    \/ Write(t) \/ Overwrite(t) \/ Advance(t) \/ Compare(t) \/ Mark(t) \/ StartMc(t)

-----------------------------------------------------------------------------
(* awdl_send_unicast, in the esp_timer task.                               *)

FireTx ==
    /\ txArmed
    /\ TimerGoto("idle", "tx")
    /\ txArmed' = FALSE
    /\ UNCHANGED << target, queue, heap, mcArmed, sender, taken >>

NothingToSend ==
    /\ next = None
    /\ TimerGoto("tx", "rearm_tx")
    /\ UNCHANGED << target, queue, heap, armed, sender, taken >>

\* The frame is for this node, or for a peer that is on the same channel now.
SendNow ==
    /\ next # None
    /\ ~apart
    /\ TimerGoto("tx", "transmit")
    /\ UNCHANGED << target, queue, heap, armed, sender, taken >>

\* The destination is no peer.
Drop ==
    /\ next # None
    /\ TimerGoto("tx", "free")
    /\ UNCHANGED << target, queue, heap, armed, sender, taken >>

\* The peer is on another channel now, or about to leave this one.
Later ==
    /\ next # None
    /\ TimerGoto("tx", "rearm_tx")
    /\ UNCHANGED << target, queue, heap, armed, sender, taken >>

TransmitNext ==
    /\ TimerGoto("transmit", "free")
    /\ UNCHANGED << target, queue, heap, armed, sender, taken >>

FreeNext ==
    /\ TimerGoto("free", "clear")
    /\ heap' = heap \ {next}
    /\ UNCHANGED << target, queue, armed, sender, taken >>

\* Wrong on purpose: the pointer to the freed frame is kept.
ClearNextForgotten ==
    /\ TimerGoto("clear", "rearm_tx")
    /\ UNCHANGED << target, queue, heap, armed, sender, taken >>

ClearNext ==
    /\ TimerGoto("clear", "rearm_tx")
    /\ next' = None
    /\ apart' = FALSE
    /\ UNCHANGED << queue, heap, armed, sender, taken >>

\* Wrong on purpose: the timer is not armed again for a frame that has to wait.
RearmTxForgotten ==
    /\ TimerGoto("rearm_tx", "idle")
    /\ UNCHANGED << target, queue, heap, armed, sender, taken >>

RearmTx ==
    /\ TimerGoto("rearm_tx", "idle")
    /\ txArmed' = (txArmed \/ next # None)
    /\ UNCHANGED << target, queue, heap, mcArmed, sender, taken >>

SendUnicast ==
    \/ FireTx \/ NothingToSend \/ SendNow \/ Drop \/ Later
    \/ TransmitNext \/ FreeNext \/ ClearNext \/ RearmTx

-----------------------------------------------------------------------------
(* awdl_send_multicast, in the esp_timer task.                             *)

Empty == ~full /\ head = tail

FireMc ==
    /\ mcArmed
    /\ TimerGoto("idle", "mc")
    /\ mcArmed' = FALSE
    /\ UNCHANGED << target, queue, heap, txArmed, sender, taken >>

\* The queue is empty, or this is not a multicast slot.
NotNow ==
    /\ TimerGoto("mc", "rearm_mc")
    /\ UNCHANGED << target, queue, heap, armed, sender, taken >>

\* Wrong on purpose: the slot is tested, the queue is not.
SendAnyway ==
    /\ TimerGoto("mc", "fetch")
    /\ UNCHANGED << target, queue, heap, armed, sender, taken >>

SomethingToSend ==
    /\ ~Empty
    /\ TimerGoto("mc", "fetch")
    /\ UNCHANGED << target, queue, heap, armed, sender, taken >>

\* circular_buf_get tests for itself whether there is something.  When it finds
\* nothing the caller goes on with a pointer that was never set.
Fetch ==
    /\ TimerGoto("fetch", IF Empty THEN "crashed" ELSE "retreat")
    /\ taken' = IF Empty THEN taken ELSE buffer[tail]
    /\ full' = (full /\ Empty)
    /\ UNCHANGED << target, buffer, head, tail, heap, armed, sender >>

\* Wrong on purpose: the item is handed out and stays.
RetreatForgotten ==
    /\ TimerGoto("retreat", "send_mc")
    /\ UNCHANGED << target, queue, heap, armed, sender, taken >>

Retreat ==
    /\ TimerGoto("retreat", "send_mc")
    /\ tail' = Succ(tail)
    /\ UNCHANGED << target, buffer, head, full, heap, armed, sender, taken >>

SendAndFree ==
    /\ TimerGoto("send_mc", "rearm_mc")
    /\ heap' = heap \ {taken}
    /\ taken' = None
    /\ UNCHANGED << target, queue, armed, sender >>

\* Wrong on purpose: the timer is not armed again for the rest of the queue.
RearmMcForgotten ==
    /\ TimerGoto("rearm_mc", "idle")
    /\ UNCHANGED << target, queue, heap, armed, sender, taken >>

RearmMc ==
    /\ TimerGoto("rearm_mc", "idle")
    /\ mcArmed' = (mcArmed \/ ~Empty)
    /\ UNCHANGED << target, queue, heap, txArmed, sender, taken >>

SendMulticast ==
    \/ FireMc \/ NotNow \/ SomethingToSend \/ Fetch \/ Retreat \/ SendAndFree \/ RearmMc

\* The peer announces another channel sequence, in the WiFi task.  One that has not
\* announced any yet, or only such as are read wrong, has no channel (peers.c:72).
ChangeSequence ==
    /\ next # None
    /\ apart' = ~apart
    /\ UNCHANGED << next, queue, heap, armed, sender, timer >>

Next ==
    \/ SendUnicast \/ SendMulticast \/ ChangeSequence
    \/ \E t \in Transmitters : Transmit(t)

Spec == Init /\ [][Next]_vars

\* The tasks are scheduled, the esp_timer task whenever those above it wait for work;
\* a slot in which the frame may leave comes round, and it is hit by one of the
\* immediate retries.  That says nothing of a frame to a peer that has no channel in
\* common with this node: schedule.c:77 puts it off again and again.
Fairness ==
    /\ SF_vars(SendUnicast \/ SendMulticast)
    /\ SF_vars(FireTx)
    /\ SF_vars(FireMc)
    /\ SF_vars(SendNow \/ (Drop /\ ~apart))
    /\ SF_vars(SomethingToSend)
    /\ \A t \in Transmitters : WF_vars(Transmit(t) /\ pc[t] # "idle")

-----------------------------------------------------------------------------
Handle == Frame \cup {None}

\* Type invariant.
TypeOK ==
    /\ next \in Handle
    /\ apart \in BOOLEAN
    /\ buffer \in [0 .. Slots - 1 -> Handle]
    /\ head \in 0 .. Slots - 1
    /\ tail \in 0 .. Slots - 1
    /\ full \in BOOLEAN
    /\ heap \subseteq Frame
    /\ txArmed \in BOOLEAN
    /\ mcArmed \in BOOLEAN
    /\ pc \in [Transmitters -> SenderPc]
    /\ held \in [Transmitters -> Handle]
    /\ wrapped \in [Transmitters -> BOOLEAN]
    /\ timerPc \in TimerPc
    /\ taken \in Handle

\* The slots from tail up to head; when the indices meet, the flag tells full from
\* empty, or the put that is about to set it does, or the get that has just cleared it.
AllFull ==
    /\ head = tail
    /\ \/ full
       \/ timerPc = "retreat"
       \/ \E t \in Transmitters : pc[t] \in { "compare", "mark" }

Queued ==
    IF AllFull THEN 0 .. Slots - 1
    ELSE { i \in 0 .. Slots - 1 :
             IF head >= tail THEN tail <= i /\ i < head ELSE tail <= i \/ i < head }

\* A frame whose put is under way: in its slot, the head not yet moved past it.
BeingPut == { buffer[head] : t \in { u \in Transmitters : pc[u] \in {"overwrite", "advance"} } }

Owned ==
    ({next} \cup { buffer[i] : i \in Queued } \cup BeingPut
       \cup { held[t] : t \in Transmitters } \cup {taken}) \ {None}

\* Every allocated frame can be reached by the task that will free it, and what can
\* be reached is allocated.  Between free and the assignment of NULL (core.c:370-371), state->next
\* dangles, and between the read of a slot and the move of tail the slot is
\* still counted.
InReach == heap \subseteq Owned /\ (timerPc # "clear" => Owned \subseteq heap)

\* A frame has one owner: it is in state->next or in the queue, once.
OneOwner ==
    /\ \A i, j \in Queued : i # j => buffer[i] # buffer[j]
    /\ next # None => \A i \in Queued : buffer[i] # next

\* A frame handed over is never forgotten: the timer that will send it is armed,
\* or a task is on its way to arm it (awdl.c:102, 105; core.c:383, 412).
NoLostWakeup ==
    /\ next # None =>
          \/ txArmed
          \/ timerPc \in {"tx", "transmit", "free", "clear", "rearm_tx"}
          \/ \E t \in Transmitters : pc[t] = "start_tx"
    /\ ~Empty =>
          \/ mcArmed
          \/ timerPc \in {"mc", "fetch", "retreat", "send_mc", "rearm_mc", "crashed"}
          \/ \E t \in Transmitters : pc[t] \in {"compare", "mark", "start_mc"}

\* core.c:394, "we have something to send": once the test has found something,
\* what is fetched, sent and freed is a frame that was queued and not freed yet.
SomethingIsThere ==
    timerPc # "crashed" /\ (timerPc \in {"retreat", "send_mc"} => taken \in heap)

\* circular_buffer.h:37, "Returns true if the buffer is empty": when it does, and
\* no put or get is half done, no frame is left in the buffer; the allocated ones
\* are state->next and those in the hands of a task.
InBuffer == heap \ ({next, taken} \cup { held[t] : t \in Transmitters })

EmptyIsEmpty ==
    /\ timerPc # "retreat"
    /\ \A t \in Transmitters : pc[t] \notin { "overwrite", "advance", "compare", "mark" }
    /\ Empty
    => InBuffer = {}
=============================================================================
