-------------------------- MODULE AwdlDisable_proof --------------------------
(***************************************************************************)
(* Proofs about the transmit path and about the node of AwdlDisable.       *)
(*                                                                         *)
(* No frame handed to the timers is forgotten, for any number of           *)
(* transmitting tasks, any size of the queue and any scheduling.           *)
(*                                                                         *)
(* awdl_disable deletes no timer that is still needed, for any number of   *)
(* transmitting tasks, any size of the queue, and whether or not the       *)
(* esp_timer task can interrupt them.  Two facts carry it.  A frame always *)
(* has its timer armed or a task about to arm it (WakeInv), so that a      *)
(* timer found unarmed while all tasks wait has no frame; and nothing      *)
(* enters awdl_transmit through an interface that is down, so that none    *)
(* comes afterwards.                                                       *)
(*                                                                         *)
(* A frame has one owner until it is freed, for any number of transmitting *)
(* tasks and any size of the queue, as long as the tasks do not overlap in *)
(* awdl_transmit, which with one transmitter that the esp_timer task       *)
(* cannot interrupt they never do.                                         *)
(***************************************************************************)
EXTENDS AwdlDisable, TLAPS

(* The transmit path alone: any number of tasks, no lock, any scheduling.  *)

WakeInv == TypeOK /\ NoLostWakeup

\* An index moves to an index.
LEMMA SuccType == \A i \in 0 .. Slots - 1 : Succ(i) \in 0 .. Slots - 1
  BY TxAssumption DEF Succ

\* The variables have their types at the start, and awdl_schedule has armed
\* both timers.
LEMMA WakeInit == Init => WakeInv
  <1> SUFFICES ASSUME Init PROVE WakeInv
    OBVIOUS
  <1>1. 0 \in 0 .. Slots - 1
    BY TxAssumption
  <1>2. TypeOK
    BY <1>1 DEF Init, TypeOK, Handle, SenderPc, TimerPc
  <1>3. NoLostWakeup
    BY DEF Init, NoLostWakeup
  <1>4. QED
    BY <1>2, <1>3 DEF WakeInv

\* No step of a transmitter or of a callback loses a wakeup.
LEMMA WakeStep == WakeInv /\ [Next]_vars => WakeInv'
  <1> SUFFICES ASSUME WakeInv, [Next]_vars PROVE WakeInv'
    OBVIOUS
  <1> USE DEF WakeInv
  <1>1. ASSUME NEW t \in Transmitters, Call(t)
        PROVE  WakeInv'
    <2>1. TypeOK'
      BY <1>1 DEF Call, Goto, TypeOK, Handle, SenderPc, target, queue, armed, sender, timer
    <2>2. NoLostWakeup'
      BY <1>1 DEF Call, Goto, NoLostWakeup, Empty, TypeOK, target, queue, armed, sender, timer
    <2>3. QED
      BY <2>1, <2>2
  <1>2. ASSUME NEW t \in Transmitters, CheckNext(t)
        PROVE  WakeInv'
    <2>1. TypeOK'
      BY <1>2 DEF CheckNext, Goto, TypeOK, Handle, SenderPc, target, queue, armed, sender, timer
    <2>2. NoLostWakeup'
      BY <1>2 DEF CheckNext, Goto, NoLostWakeup, Empty, TypeOK, target, queue, armed, sender, timer
    <2>3. QED
      BY <2>1, <2>2
  <1>3. ASSUME NEW t \in Transmitters, CheckFull(t)
        PROVE  WakeInv'
    <2>1. TypeOK'
      BY <1>3 DEF CheckFull, Goto, TypeOK, Handle, SenderPc, target, queue, armed, sender, timer
    <2>2. NoLostWakeup'
      BY <1>3 DEF CheckFull, Goto, NoLostWakeup, Empty, TypeOK, target, queue, armed, sender, timer
    <2>3. QED
      BY <2>1, <2>2
  <1>4. ASSUME NEW t \in Transmitters, Store(t)
        PROVE  WakeInv'
    <2>1. TypeOK'
      BY <1>4 DEF Store, Goto, TypeOK, Handle, SenderPc, target, queue, armed, sender, timer
    <2>2. NoLostWakeup'
      BY <1>4 DEF Store, Goto, NoLostWakeup, Empty, TypeOK, target, queue, armed, sender, timer
    <2>3. QED
      BY <2>1, <2>2
  <1>5. ASSUME NEW t \in Transmitters, StartTx(t)
        PROVE  WakeInv'
    <2>1. TypeOK'
      BY <1>5 DEF StartTx, Goto, TypeOK, Handle, SenderPc, target, queue, armed, sender, timer
    <2>2. NoLostWakeup'
      BY <1>5 DEF StartTx, Goto, NoLostWakeup, Empty, TypeOK, target, queue, armed, sender, timer
    <2>3. QED
      BY <2>1, <2>2
  <1>6. ASSUME NEW t \in Transmitters, Write(t)
        PROVE  WakeInv'
    <2>1. TypeOK'
      BY <1>6 DEF Write, Goto, TypeOK, Handle, SenderPc, target, queue, armed, sender, timer
    <2>2. NoLostWakeup'
      BY <1>6 DEF Write, Goto, NoLostWakeup, Empty, TypeOK, target, queue, armed, sender, timer
    <2>3. QED
      BY <2>1, <2>2
  <1>7. ASSUME NEW t \in Transmitters, Overwrite(t)
        PROVE  WakeInv'
    <2>1. TypeOK'
      BY <1>7, SuccType DEF Overwrite, Goto, TypeOK, Handle, SenderPc, target, queue, armed,
         sender, timer
    <2>2. NoLostWakeup'
      BY <1>7 DEF Overwrite, Goto, NoLostWakeup, Empty, TypeOK, target, queue, armed, sender, timer
    <2>3. QED
      BY <2>1, <2>2
  <1>8. ASSUME NEW t \in Transmitters, Advance(t)
        PROVE  WakeInv'
    <2>1. TypeOK'
      BY <1>8, SuccType DEF Advance, Goto, TypeOK, Handle, SenderPc, target, queue, armed,
         sender, timer
    <2>2. NoLostWakeup'
      BY <1>8 DEF Advance, Goto, NoLostWakeup, Empty, TypeOK, target, queue, armed, sender, timer
    <2>3. QED
      BY <2>1, <2>2
  <1>9. ASSUME NEW t \in Transmitters, Compare(t)
        PROVE  WakeInv'
    <2>1. TypeOK'
      BY <1>9 DEF Compare, Goto, TypeOK, Handle, SenderPc, target, queue, armed, sender, timer
    <2>2. NoLostWakeup'
      BY <1>9 DEF Compare, Goto, NoLostWakeup, Empty, TypeOK, target, queue, armed, sender, timer
    <2>3. QED
      BY <2>1, <2>2
  <1>10. ASSUME NEW t \in Transmitters, Mark(t)
        PROVE  WakeInv'
    <2>1. TypeOK'
      BY <1>10 DEF Mark, Goto, TypeOK, Handle, SenderPc, target, queue, armed, sender, timer
    <2>2. NoLostWakeup'
      BY <1>10 DEF Mark, Goto, NoLostWakeup, Empty, TypeOK, target, queue, armed, sender, timer
    <2>3. QED
      BY <2>1, <2>2
  <1>11. ASSUME NEW t \in Transmitters, StartMc(t)
        PROVE  WakeInv'
    <2>1. TypeOK'
      BY <1>11 DEF StartMc, Goto, TypeOK, Handle, SenderPc, target, queue, armed, sender, timer
    <2>2. NoLostWakeup'
      BY <1>11 DEF StartMc, Goto, NoLostWakeup, Empty, TypeOK, target, queue, armed, sender, timer
    <2>3. QED
      BY <2>1, <2>2
  <1>12. ASSUME NEW t \in Transmitters, NEW f \in Frame,
               NEW isMulticast \in BOOLEAN, Build(t, f, isMulticast)
        PROVE  WakeInv'
    <2>1. TypeOK'
      BY <1>12 DEF Build, Goto, TypeOK, Handle, SenderPc, target, queue, armed, sender, timer
    <2>2. NoLostWakeup'
      BY <1>12 DEF Build, Goto, NoLostWakeup, Empty, TypeOK, target, queue, armed, sender, timer
    <2>3. QED
      BY <2>1, <2>2
  <1>13. ASSUME FireTx
        PROVE  WakeInv'
    <2>1. TypeOK'
      BY <1>13 DEF FireTx, TimerGoto, TypeOK, Handle, TimerPc, target, queue, armed, sender, timer
    <2>2. NoLostWakeup'
      BY <1>13 DEF FireTx, TimerGoto, NoLostWakeup, Empty, TypeOK, target, queue, armed, sender,
         timer
    <2>3. QED
      BY <2>1, <2>2
  <1>14. ASSUME NothingToSend
        PROVE  WakeInv'
    <2>1. TypeOK'
      BY <1>14 DEF NothingToSend, TimerGoto, TypeOK, Handle, TimerPc, target, queue, armed,
         sender, timer
    <2>2. NoLostWakeup'
      BY <1>14 DEF NothingToSend, TimerGoto, NoLostWakeup, Empty, TypeOK, target, queue, armed,
         sender, timer
    <2>3. QED
      BY <2>1, <2>2
  <1>15. ASSUME SendNow
        PROVE  WakeInv'
    <2>1. TypeOK'
      BY <1>15 DEF SendNow, TimerGoto, TypeOK, Handle, TimerPc, target, queue, armed, sender, timer
    <2>2. NoLostWakeup'
      BY <1>15 DEF SendNow, TimerGoto, NoLostWakeup, Empty, TypeOK, target, queue, armed, sender,
         timer
    <2>3. QED
      BY <2>1, <2>2
  <1>16. ASSUME Drop
        PROVE  WakeInv'
    <2>1. TypeOK'
      BY <1>16 DEF Drop, TimerGoto, TypeOK, Handle, TimerPc, target, queue, armed, sender, timer
    <2>2. NoLostWakeup'
      BY <1>16 DEF Drop, TimerGoto, NoLostWakeup, Empty, TypeOK, target, queue, armed, sender, timer
    <2>3. QED
      BY <2>1, <2>2
  <1>17. ASSUME Later
        PROVE  WakeInv'
    <2>1. TypeOK'
      BY <1>17 DEF Later, TimerGoto, TypeOK, Handle, TimerPc, target, queue, armed, sender, timer
    <2>2. NoLostWakeup'
      BY <1>17 DEF Later, TimerGoto, NoLostWakeup, Empty, TypeOK, target, queue, armed, sender,
         timer
    <2>3. QED
      BY <2>1, <2>2
  <1>18. ASSUME TransmitNext
        PROVE  WakeInv'
    <2>1. TypeOK'
      BY <1>18 DEF TransmitNext, TimerGoto, TypeOK, Handle, TimerPc, target, queue, armed,
         sender, timer
    <2>2. NoLostWakeup'
      BY <1>18 DEF TransmitNext, TimerGoto, NoLostWakeup, Empty, TypeOK, target, queue, armed,
         sender, timer
    <2>3. QED
      BY <2>1, <2>2
  <1>19. ASSUME FreeNext
        PROVE  WakeInv'
    <2>1. TypeOK'
      BY <1>19 DEF FreeNext, TimerGoto, TypeOK, Handle, TimerPc, target, queue, armed, sender, timer
    <2>2. NoLostWakeup'
      BY <1>19 DEF FreeNext, TimerGoto, NoLostWakeup, Empty, TypeOK, target, queue, armed,
         sender, timer
    <2>3. QED
      BY <2>1, <2>2
  <1>20. ASSUME ClearNext
        PROVE  WakeInv'
    <2>1. TypeOK'
      BY <1>20 DEF ClearNext, TimerGoto, TypeOK, Handle, TimerPc, target, queue, armed, sender,
         timer
    <2>2. NoLostWakeup'
      BY <1>20 DEF ClearNext, TimerGoto, NoLostWakeup, Empty, TypeOK, target, queue, armed,
         sender, timer
    <2>3. QED
      BY <2>1, <2>2
  <1>21. ASSUME RearmTx
        PROVE  WakeInv'
    <2>1. TypeOK'
      BY <1>21 DEF RearmTx, TimerGoto, TypeOK, Handle, TimerPc, target, queue, armed, sender, timer
    <2>2. NoLostWakeup'
      BY <1>21 DEF RearmTx, TimerGoto, NoLostWakeup, Empty, TypeOK, target, queue, armed, sender,
         timer
    <2>3. QED
      BY <2>1, <2>2
  <1>22. ASSUME FireMc
        PROVE  WakeInv'
    <2>1. TypeOK'
      BY <1>22 DEF FireMc, TimerGoto, TypeOK, Handle, TimerPc, target, queue, armed, sender, timer
    <2>2. NoLostWakeup'
      BY <1>22 DEF FireMc, TimerGoto, NoLostWakeup, Empty, TypeOK, target, queue, armed, sender,
         timer
    <2>3. QED
      BY <2>1, <2>2
  <1>23. ASSUME NotNow
        PROVE  WakeInv'
    <2>1. TypeOK'
      BY <1>23 DEF NotNow, TimerGoto, TypeOK, Handle, TimerPc, target, queue, armed, sender, timer
    <2>2. NoLostWakeup'
      BY <1>23 DEF NotNow, TimerGoto, NoLostWakeup, Empty, TypeOK, target, queue, armed, sender,
         timer
    <2>3. QED
      BY <2>1, <2>2
  <1>24. ASSUME SomethingToSend
        PROVE  WakeInv'
    <2>1. TypeOK'
      BY <1>24 DEF SomethingToSend, TimerGoto, TypeOK, Handle, TimerPc, target, queue, armed,
         sender, timer
    <2>2. NoLostWakeup'
      BY <1>24 DEF SomethingToSend, TimerGoto, NoLostWakeup, Empty, TypeOK, target, queue, armed,
         sender, timer
    <2>3. QED
      BY <2>1, <2>2
  <1>25. ASSUME Fetch
        PROVE  WakeInv'
    <2>1. TypeOK'
      BY <1>25 DEF Fetch, TimerGoto, TypeOK, Handle, TimerPc, target, queue, armed, sender, timer
    <2>2. NoLostWakeup'
      BY <1>25 DEF Fetch, TimerGoto, NoLostWakeup, Empty, TypeOK, target, queue, armed, sender,
         timer
    <2>3. QED
      BY <2>1, <2>2
  <1>26. ASSUME Retreat
        PROVE  WakeInv'
    <2>1. TypeOK'
      BY <1>26, SuccType DEF Retreat, TimerGoto, TypeOK, Handle, TimerPc, target, queue, armed,
         sender, timer
    <2>2. NoLostWakeup'
      BY <1>26 DEF Retreat, TimerGoto, NoLostWakeup, Empty, TypeOK, target, queue, armed, sender,
         timer
    <2>3. QED
      BY <2>1, <2>2
  <1>27. ASSUME SendAndFree
        PROVE  WakeInv'
    <2>1. TypeOK'
      BY <1>27 DEF SendAndFree, TimerGoto, TypeOK, Handle, TimerPc, target, queue, armed, sender,
         timer
    <2>2. NoLostWakeup'
      BY <1>27 DEF SendAndFree, TimerGoto, NoLostWakeup, Empty, TypeOK, target, queue, armed,
         sender, timer
    <2>3. QED
      BY <2>1, <2>2
  <1>28. ASSUME RearmMc
        PROVE  WakeInv'
    <2>1. TypeOK'
      BY <1>28 DEF RearmMc, TimerGoto, TypeOK, Handle, TimerPc, target, queue, armed, sender, timer
    <2>2. NoLostWakeup'
      BY <1>28 DEF RearmMc, TimerGoto, NoLostWakeup, Empty, TypeOK, target, queue, armed, sender,
         timer
    <2>3. QED
      BY <2>1, <2>2
  <1>29. ASSUME ChangeSequence
        PROVE  WakeInv'
    <2>1. TypeOK'
      BY <1>29 DEF ChangeSequence, TypeOK, Handle, queue, armed, sender, timer
    <2>2. NoLostWakeup'
      BY <1>29 DEF ChangeSequence, NoLostWakeup, Empty, queue, armed, sender, timer
    <2>3. QED
      BY <2>1, <2>2
  <1>30. ASSUME UNCHANGED vars PROVE WakeInv'
    BY <1>30 DEF vars, target, queue, armed, sender, timer, TypeOK, NoLostWakeup, Empty
  <1>31. QED
    BY <1>1, <1>2, <1>3, <1>4, <1>5, <1>6, <1>7, <1>8, <1>9, <1>10, <1>11, <1>12, <1>13, <1>14,
       <1>15, <1>16, <1>17, <1>18, <1>19, <1>20, <1>21, <1>22, <1>23, <1>24, <1>25, <1>26, <1>27,
       <1>28, <1>29, <1>30
    DEF Next, Transmit, SendUnicast, SendMulticast

\* The variables keep their types, whatever the tasks do to each other.
THEOREM TxTypeCorrect == Spec => []TypeOK
  BY WakeInit, WakeStep, PTL DEF Spec, WakeInv

\* A frame in state->next, or in the queue, always has its timer armed or a
\* task on its way to arm it, for every number of unsynchronised transmitters.
THEOREM TxNoLostWakeup == Spec => []NoLostWakeup
  BY WakeInit, WakeStep, PTL DEF Spec, WakeInv

-----------------------------------------------------------------------------
(* The node that can be turned off.                                        *)

ConsolePc == { "idle", "delete_tx", "delete_mc", "disabled" }

NodeTypeOK ==
    /\ console \in ConsolePc
    /\ up \in BOOLEAN
    /\ deleted \subseteq {"tx", "mc"}

\* Timers are deleted under an interface that is down, and then no task is inside
\* awdl_transmit.
Quiet ==
    /\ console # "idle" => ~up
    /\ deleted # {} => ~up
    /\ ~up => \A t \in Transmitters : pc[t] = "idle"

NodeInv == WakeInv /\ NodeTypeOK /\ Quiet /\ DeadTimersUnneeded

\* A step of the node is a step of the transmit path, or leaves it alone.
LEMMA NodeRefines == NodeNext => [Next]_vars
  BY DEF NodeNext, Next, Callback, NodeTransmit, NodeChangeSequence, Disable, SetDown, DeleteTx,
     DeleteMc, ConsoleGoto

\* No timer is deleted at the start.
LEMMA NodeInitInv == NodeInit => NodeInv
  BY WakeInit DEF NodeInit, NodeInv, NodeTypeOK, ConsolePc, Quiet, DeadTimersUnneeded

\* A transmitter that moves finds the interface up, or is inside awdl_transmit:
\* either way nothing has been deleted.
LEMMA TransmitStep ==
  ASSUME NodeInv, NEW t \in Transmitters, NodeTransmit(t)
  PROVE  NodeTypeOK' /\ Quiet' /\ DeadTimersUnneeded'
  <1>1. pc[t] = "idle" => up
    BY DEF NodeTransmit
  <1>2. up
    BY <1>1 DEF NodeInv, Quiet
  <1>3. deleted = {}
    BY <1>2 DEF NodeInv, Quiet
  <1>4. UNCHANGED << console, up, deleted >>
    BY DEF NodeTransmit
  <1>5. QED
    BY <1>2, <1>3, <1>4 DEF NodeInv, NodeTypeOK, Quiet, DeadTimersUnneeded

\* A callback runs only for a timer that is armed, and arms it again only for
\* frames that a deleted timer does not have.
LEMMA CallbackStep ==
  ASSUME NodeInv, Callback
  PROVE  NodeTypeOK' /\ Quiet' /\ DeadTimersUnneeded'
  <1> USE DEF NodeInv
  <1>1. UNCHANGED << console, up, deleted >> /\ UNCHANGED pc
    BY DEF Callback, SendUnicast, SendMulticast, FireTx, NothingToSend, SendNow, Drop, Later,
           TransmitNext, FreeNext, ClearNext, RearmTx, FireMc, NotNow, SomethingToSend, Fetch,
           Retreat, SendAndFree, RearmMc, sender, target
  <1>2. NodeTypeOK' /\ Quiet'
    BY <1>1 DEF NodeTypeOK, Quiet
  <1>3. CASE SendUnicast
    <2> USE DEF SendUnicast, FireTx, NothingToSend, SendNow, Drop, Later, TransmitNext,
                FreeNext, ClearNext, RearmTx, TimerGoto, target, queue
    <2>1. ASSUME "tx" \in deleted PROVE FALSE
      BY <1>3, <2>1 DEF DeadTimersUnneeded
    <2>2. ASSUME "mc" \in deleted
          PROVE  /\ ~mcArmed' /\ Empty'
                 /\ timerPc' \notin {"mc", "fetch", "retreat", "send_mc", "rearm_mc", "crashed"}
      BY <1>3, <2>2 DEF DeadTimersUnneeded, Empty, armed
    <2>3. QED
      BY <1>1, <1>2, <2>1, <2>2 DEF DeadTimersUnneeded
  <1>4. CASE SendMulticast
    <2> USE DEF SendMulticast, FireMc, NotNow, SomethingToSend, Fetch, Retreat, SendAndFree,
                RearmMc, TimerGoto, target
    <2>1. ASSUME "mc" \in deleted PROVE FALSE
      BY <1>4, <2>1 DEF DeadTimersUnneeded
    <2>2. ASSUME "tx" \in deleted
          PROVE  /\ ~txArmed' /\ next' = None
                 /\ timerPc' \notin {"tx", "transmit", "free", "clear", "rearm_tx"}
      BY <1>4, <2>2 DEF DeadTimersUnneeded, armed
    <2>3. QED
      BY <1>1, <1>2, <2>1, <2>2 DEF DeadTimersUnneeded
  <1>5. QED
    BY <1>3, <1>4 DEF Callback

\* A timer is deleted while every task waits: if it is not armed, nothing waits
\* for it.
LEMMA DisableStep ==
  ASSUME NodeInv, Disable
  PROVE  NodeTypeOK' /\ Quiet' /\ DeadTimersUnneeded'
  <1> USE DEF NodeInv
  <1>1. /\ \A t \in Transmitters : pc[t] = "idle"
        /\ timerPc = "idle"
        /\ UNCHANGED vars
    BY DEF Disable, SetDown, DeleteTx, DeleteMc, ConsoleGoto
  <1>2. UNCHANGED << next, head, tail, full, txArmed, mcArmed, pc, timerPc >>
    BY <1>1 DEF vars, target, queue, armed, sender, timer
  <1>3. ~txArmed => next = None
    BY <1>1 DEF WakeInv, NoLostWakeup
  <1>4. ~mcArmed => Empty
    BY <1>1 DEF WakeInv, NoLostWakeup
  <1>5. CASE SetDown
    <2>1. console' = "delete_tx" /\ up' = FALSE /\ deleted' = deleted
      BY <1>5 DEF SetDown, ConsoleGoto
    <2>2. QED
      BY <1>1, <1>2, <2>1 DEF NodeTypeOK, ConsolePc, Quiet, DeadTimersUnneeded, Empty
  <1>6. CASE DeleteTx
    <2>1. /\ console = "delete_tx" /\ console' = "delete_mc" /\ up' = up
          /\ deleted' = IF txArmed THEN deleted ELSE deleted \cup {"tx"}
      BY <1>6 DEF DeleteTx, ConsoleGoto, Delete
    <2>2. NodeTypeOK' /\ Quiet'
      BY <1>2, <2>1 DEF NodeTypeOK, ConsolePc, Quiet
    <2>3. DeadTimersUnneeded'
      BY <1>1, <1>2, <1>3, <2>1 DEF DeadTimersUnneeded, Empty
    <2>4. QED
      BY <2>2, <2>3
  <1>7. CASE DeleteMc
    <2>1. /\ console = "delete_mc" /\ console' = "disabled" /\ up' = up
          /\ deleted' = IF mcArmed THEN deleted ELSE deleted \cup {"mc"}
      BY <1>7 DEF DeleteMc, ConsoleGoto, Delete
    <2>2. NodeTypeOK' /\ Quiet'
      BY <1>2, <2>1 DEF NodeTypeOK, ConsolePc, Quiet
    <2>3. DeadTimersUnneeded'
      BY <1>1, <1>2, <1>4, <2>1 DEF DeadTimersUnneeded, Empty
    <2>4. QED
      BY <2>2, <2>3
  <1>8. QED
    BY <1>5, <1>6, <1>7 DEF Disable

\* Every step of the node keeps the invariant.
LEMMA NodeStep == NodeInv /\ [NodeNext]_nodeVars => NodeInv'
  <1> SUFFICES ASSUME NodeInv, [NodeNext]_nodeVars PROVE NodeInv'
    OBVIOUS
  <1>1. CASE NodeNext
    <2>1. WakeInv'
      BY <1>1, NodeRefines, WakeStep DEF NodeInv
    <2>2. CASE NodeChangeSequence
      BY <2>1, <2>2 DEF NodeChangeSequence, ChangeSequence, queue, armed, sender, timer,
         NodeInv, NodeTypeOK, Quiet, DeadTimersUnneeded, Empty
    <2>3. CASE ~NodeChangeSequence
      BY <1>1, <2>1, <2>3, TransmitStep, CallbackStep, DisableStep DEF NodeNext, NodeInv
    <2>4. QED
      BY <2>2, <2>3
  <1>2. CASE UNCHANGED nodeVars
    <2>1. UNCHANGED vars /\ UNCHANGED << console, up, deleted >>
      BY <1>2 DEF nodeVars
    <2>2. WakeInv'
      BY <2>1, WakeStep DEF NodeInv
    <2>3. UNCHANGED << next, head, tail, full, txArmed, mcArmed, pc, timerPc >>
      BY <2>1 DEF vars, target, queue, armed, sender, timer
    <2>4. QED
      BY <2>1, <2>2, <2>3 DEF NodeInv, NodeTypeOK, Quiet, DeadTimersUnneeded, Empty
  <1>3. QED
    BY <1>1, <1>2

\* A timer that awdl_disable has deleted is not armed, no task is about to start it,
\* and no frame waits for it: for any set of tasks and any size of the queue.
THEOREM NodeDeadTimersUnneeded == NodeSpec => []DeadTimersUnneeded
  BY NodeInitInv, NodeStep, PTL DEF NodeSpec, NodeInv

\* The node turning AWDL off does not disturb what is proved of the transmit path.
THEOREM NodeNoLostWakeup == NodeSpec => []NoLostWakeup
  BY NodeInitInv, NodeStep, PTL DEF NodeSpec, NodeInv, WakeInv

-----------------------------------------------------------------------------
(***************************************************************************)
(* Who owns a frame, as long as no two tasks have been in awdl_transmit at *)
(* once and no callback has interrupted a put.  The pointers alone do not  *)
(* tell: what is left in a slot outside the queue, and in state->next between    *)
(* free and NULL, points to blocks that may be allocated again.  The       *)
(* invariant therefore says, for each place of either program, which of    *)
(* the pointers are to allocated blocks and which of them may be the same. *)
(***************************************************************************)

\* Places the transmitter only reaches when it has found state->next NULL, and
\* those where it has found the queue not full and not yet changed the flag.
PastNext == { "full?", "build", "store", "write", "overwrite", "advance", "compare", "mark",
              "start_mc" }
PastFull == { "build", "write", "overwrite", "advance", "compare", "mark" }

\* What awdl_transmit has seen of the shared places still holds, and the frame in
\* its hands, or half put, is nobody else's.
SenderInv ==
    \A t \in Transmitters :
        /\ pc[t] \in PastNext => next = None
        /\ pc[t] \in PastFull => ~full
        /\ pc[t] = "mark" => wrapped[t] = (head = tail)
        /\ pc[t] \notin {"store", "write"} => held[t] = None
        /\ pc[t] \in {"store", "write"} =>
              /\ held[t] \in heap
              /\ held[t] # taken
              /\ \A i \in Queued : buffer[i] # held[t]
        /\ pc[t] \in {"overwrite", "advance"} =>
              /\ buffer[head] \in heap
              /\ buffer[head] # taken
              /\ \A i \in Queued : i # head => buffer[i] # buffer[head]
              /\ timerPc = "retreat" /\ head = tail => overrun

\* The callbacks work on a frame that is there; the slot a get is about to leave
\* holds the frame it has taken, unless a put has overrun it.
TimerInv ==
    /\ timerPc # "crashed"
    /\ timerPc \in {"transmit", "free", "clear"} => next # None
    /\ timerPc \in {"retreat", "send_mc"} => taken \in heap
    /\ timerPc \notin {"retreat", "send_mc"} => taken = None
    /\ timerPc = "fetch" => ~Empty \/ \E t \in Transmitters : pc[t] \in {"compare", "mark"}
    /\ timerPc = "retreat" =>
          /\ full => head = tail
          /\ ~overrun => buffer[tail] = taken
          /\ Slots = 1 /\ (full \/ \E t \in Transmitters : pc[t] \in Uninterrupted \ {"full?"})
             => buffer[tail] # taken

NextInv ==
    /\ next # None => next # taken /\ \A i \in Queued : buffer[i] # next
    /\ next \in heap <=> next # None /\ timerPc # "clear"

QueueInv ==
    /\ \A i \in Queued : buffer[i] \in heap
    /\ \A i, j \in Queued : i # j => buffer[i] # buffer[j]
    /\ timerPc \in {"retreat", "send_mc"} =>
          \A i \in Queued : buffer[i] = taken => timerPc = "retreat" /\ i = tail

NoLeak == overrun \/ heap \subseteq Owned

Owners == overrun \in BOOLEAN /\ SenderInv /\ TimerInv /\ NextInv /\ QueueInv /\ NoLeak

\* The queue is the same as long as the indices are and it is as full.
LEMMA SameQueue ==
  ASSUME head' = head, tail' = tail, AllFull' <=> AllFull
  PROVE  Queued' = Queued
  BY DEF Queued

\* The slots of the queue are slots, and the head is one of them in a full queue only.
LEMMA QueueSlots ==
  ASSUME TypeOK
  PROVE  Queued \subseteq 0 .. Slots - 1 /\ (head \in Queued <=> AllFull)
  BY DEF TypeOK, Queued, AllFull

\* The head moves over the slot that has been written and no other.
LEMMA AdvanceQueue ==
  ASSUME TypeOK, NEW w \in Transmitters, ~Meets(w), pc[w] = "advance", ~full,
         head' = Succ(head), tail' = tail, pc' = [pc EXCEPT ![w] = "compare"]
  PROVE  /\ Queued' \subseteq Queued \cup {head}
         /\ \/ timerPc = "retreat" /\ head = tail
            \/ Queued' = Queued \cup {head}
  <1>1. /\ pc'[w] = "compare"
        /\ \A u \in Transmitters : u # w => pc[u] = "idle"
    BY DEF TypeOK, Meets
  <1>2. AllFull' <=> head' = tail
    BY <1>1 DEF AllFull
  <1>3. AllFull <=> head = tail /\ timerPc = "retreat"
    BY <1>1 DEF AllFull
  <1>4. CASE head + 1 = Slots
    BY <1>2, <1>3, <1>4, TxAssumption DEF Succ, Queued, TypeOK
  <1>5. CASE head + 1 # Slots
    BY <1>2, <1>3, <1>5, TxAssumption DEF Succ, Queued, TypeOK
  <1>6. QED
    BY <1>4, <1>5

\* The tail moves over the slot that has been taken and no other.
LEMMA RetreatQueue ==
  ASSUME TypeOK, ~Interrupts, timerPc = "retreat",
         full => head = tail, UNCHANGED << head, full, pc >>, timerPc' = "send_mc",
         tail' = Succ(tail)
  PROVE  /\ Queued' \subseteq Queued
         /\ Queued \subseteq Queued' \cup {tail}
         /\ tail \in Queued' => Slots = 1 /\ full
  <1>1. AllFull <=> head = tail
    BY DEF AllFull
  <1>2. AllFull' <=> head = tail' /\ full
    BY DEF AllFull, Interrupts, Uninterrupted
  <1>3. CASE tail + 1 = Slots
    BY <1>1, <1>2, <1>3, TxAssumption DEF Succ, Queued, TypeOK
  <1>4. CASE tail + 1 # Slots
    BY <1>1, <1>2, <1>4, TxAssumption DEF Succ, Queued, TypeOK
  <1>5. QED
    BY <1>3, <1>4

\* Nothing is allocated at the start.
LEMMA OwnersInit ==
  ASSUME NodeInit
  PROVE  Owners
  <1>1. Queued = {}
    BY TxAssumption DEF NodeInit, Init, Queued, AllFull
  <1>2. SenderInv
    BY <1>1 DEF NodeInit, Init, SenderInv, PastNext, PastFull
  <1>3. TimerInv
    BY DEF NodeInit, Init, TimerInv
  <1>4. NextInv /\ QueueInv /\ NoLeak
    BY <1>1 DEF NodeInit, Init, NextInv, QueueInv, NoLeak
  <1>5. QED
    BY <1>2, <1>3, <1>4 DEF NodeInit, Owners

\* The steps of the callbacks that move no pointer.
LEMMA TimerMoves ==
  ASSUME TypeOK, Owners, ~Interrupts,
         UNCHANGED << next, queue, heap, sender, taken, overrun >>,
         timerPc \notin {"retreat", "send_mc", "clear"},
         timerPc' \notin {"retreat", "send_mc", "clear", "crashed"},
         timerPc' \in {"transmit", "free"} => next # None,
         timerPc' = "fetch" => ~Empty
  PROVE  Owners'
  <1> USE DEF target, queue, sender
  <1>1. Queued' = Queued
    BY SameQueue DEF AllFull
  <1>2. SenderInv'
    BY <1>1 DEF Owners, SenderInv, Interrupts, Uninterrupted
  <1>3. TimerInv'
    BY DEF Owners, TimerInv, Empty
  <1>4. NextInv' /\ QueueInv'
    BY <1>1 DEF Owners, NextInv, QueueInv
  <1>5. NoLeak'
    BY <1>1 DEF Owners, NoLeak, Owned, BeingPut
  <1>6. QED
    BY <1>2, <1>3, <1>4, <1>5 DEF Owners

\* The steps of awdl_transmit that move no pointer and do not put.
LEMMA SenderMoves ==
  ASSUME TypeOK, Owners, NEW w \in Transmitters, ~Meets(w), NEW to \in SenderPc, Goto(w, pc[w], to),
         UNCHANGED << next, queue, heap, held, taken, timerPc, overrun >>,
         \A at \in {pc[w], to} :
            at \notin {"store", "write", "overwrite", "advance", "compare", "mark"},
         to \in PastNext => next = None,
         to \in PastFull => ~full
  PROVE  Owners'
  <1> USE DEF target, queue
  <1>1. /\ pc' = [pc EXCEPT ![w] = to] /\ pc'[w] = to
        /\ \A u \in Transmitters : u # w => pc[u] = "idle" /\ pc'[u] = "idle"
    BY DEF Goto, TypeOK, Meets
  <1>2. Queued' = Queued
    BY <1>1, SameQueue DEF AllFull
  <1>3. SenderInv'
    BY <1>1, <1>2 DEF Owners, SenderInv
  <1>4. TimerInv'
    BY <1>1 DEF Owners, TimerInv, Empty, Uninterrupted
  <1>5. NextInv' /\ QueueInv'
    BY <1>2 DEF Owners, NextInv, QueueInv
  <1>6. NoLeak'
    <2>1. BeingPut = {} /\ BeingPut' = {}
      BY <1>1 DEF BeingPut
    <2>2. QED
      BY <1>2, <2>1 DEF Owners, NoLeak, Owned
  <1>7. QED
    BY <1>3, <1>4, <1>5, <1>6 DEF Owners

\* The block a frame is copied into is free, so that no pointer in use is to it.
LEMMA BuildStep ==
  ASSUME TypeOK, Owners, NEW w \in Transmitters, ~Meets(w), NEW f \in Frame,
         NEW isMulticast \in BOOLEAN, Build(w, f, isMulticast), overrun' = overrun
  PROVE  Owners'
  <1> USE DEF target, queue, timer, armed
  <1>1. /\ pc[w] = "build" /\ pc'[w] \in {"store", "write"} /\ f \notin heap
        /\ heap' = heap \cup {f} /\ held' = [held EXCEPT ![w] = f] /\ held'[w] = f
        /\ UNCHANGED << next, buffer, head, tail, full, timerPc, taken, wrapped >>
        /\ \A u \in Transmitters : u # w => pc[u] = "idle" /\ pc'[u] = "idle"
    BY DEF Build, Goto, TypeOK, Meets
  <1>2. Queued' = Queued
    BY <1>1, SameQueue DEF AllFull
  <1>3. next = None /\ f # None /\ f # taken
    BY <1>1, TxAssumption DEF Owners, SenderInv, PastNext, TimerInv
  <1>4. SenderInv'
    BY <1>1, <1>2, <1>3 DEF Owners, SenderInv, PastNext, PastFull, QueueInv
  <1>5. TimerInv'
    BY <1>1 DEF Owners, TimerInv, Empty, Uninterrupted
  <1>6. NextInv' /\ QueueInv'
    BY <1>1, <1>2, <1>3 DEF Owners, NextInv, QueueInv
  <1>7. held[w] = None
    BY <1>1 DEF Owners, SenderInv
  <1>8. NoLeak'
    BY <1>1, <1>2, <1>3, <1>7 DEF Owners, NoLeak, Owned, BeingPut
  <1>9. QED
    BY <1>4, <1>5, <1>6, <1>8 DEF Owners

\* awdl.c:101: the frame passes from the transmitter to state->next.
LEMMA StoreStep ==
  ASSUME TypeOK, Owners, NEW w \in Transmitters, ~Meets(w), Store(w), overrun' = overrun
  PROVE  Owners'
  <1> USE DEF target, queue, timer, armed
  <1>1. /\ pc[w] = "store" /\ pc'[w] = "start_tx"
        /\ next' = held[w] /\ held' = [held EXCEPT ![w] = None] /\ held'[w] = None
        /\ UNCHANGED << heap, buffer, head, tail, full, timerPc, taken, wrapped >>
        /\ \A u \in Transmitters : u # w => pc[u] = "idle" /\ pc'[u] = "idle"
    BY DEF Store, Goto, TypeOK, Meets
  <1>2. Queued' = Queued
    BY <1>1, SameQueue DEF AllFull
  <1>3. /\ next = None /\ held[w] \in heap /\ held[w] # taken
        /\ \A i \in Queued : buffer[i] # held[w]
        /\ \A u \in Transmitters : u # w => held[u] = None /\ held'[u] = None
    BY <1>1 DEF TypeOK, Owners, SenderInv, PastNext
  <1>4. held[w] # None /\ timerPc # "clear"
    BY <1>3, TxAssumption DEF TypeOK, Owners, TimerInv
  <1>5. SenderInv'
    BY <1>1, <1>3 DEF SenderInv, PastNext, PastFull
  <1>6. TimerInv'
    BY <1>1, <1>3, <1>4 DEF Owners, TimerInv, Empty, Uninterrupted
  <1>7. NextInv' /\ QueueInv'
    BY <1>1, <1>2, <1>3, <1>4 DEF Owners, NextInv, QueueInv
  <1>8. NoLeak'
    BY <1>1, <1>2, <1>3 DEF Owners, NoLeak, Owned, BeingPut
  <1>9. QED
    BY <1>5, <1>6, <1>7, <1>8 DEF Owners

\* The slot that is written is outside the queue, unless a get is leaving it.
LEMMA WriteStep ==
  ASSUME TypeOK, Owners, NEW w \in Transmitters, ~Meets(w), Write(w),
         overrun' = (overrun \/ Overruns(w))
  PROVE  Owners'
  <1> USE DEF target, timer, armed
  <1>1. /\ pc[w] = "write" /\ pc'[w] = "overwrite"
        /\ buffer' = [buffer EXCEPT ![head] = held[w]]
        /\ held' = [held EXCEPT ![w] = None] /\ held'[w] = None
        /\ UNCHANGED << next, heap, head, tail, full, timerPc, taken, wrapped >>
        /\ \A u \in Transmitters : u # w => pc[u] = "idle" /\ pc'[u] = "idle"
    BY DEF Write, Goto, TypeOK, Meets
  <1>2. buffer'[head] = held[w] /\ \A i \in 0 .. Slots - 1 : i # head => buffer'[i] = buffer[i]
    BY <1>1 DEF TypeOK
  <1>3. Queued' = Queued
    BY <1>1, SameQueue DEF AllFull
  <1>4. Queued \subseteq 0 .. Slots - 1 /\ (head \in Queued => Overruns(w))
    BY <1>1, QueueSlots DEF AllFull, Overruns, Owners, SenderInv, PastFull
  <1>5. /\ next = None /\ held[w] \in heap /\ held[w] # taken
        /\ \A i \in Queued : buffer[i] # held[w]
        /\ \A u \in Transmitters : u # w => held[u] = None /\ held'[u] = None
    BY <1>1 DEF TypeOK, Owners, SenderInv, PastNext
  <1>6. held[w] # None
    BY <1>5, TxAssumption DEF TypeOK
  <1>7. head = tail /\ timerPc = "retreat" => overrun'
    BY <1>1 DEF Overruns
  <1>8. SenderInv'
    <2>1. \A i \in Queued' : i # head => buffer'[i] # held[w]
      BY <1>2, <1>3, <1>4, <1>5
    <2>2. ~full
      BY <1>1 DEF Owners, SenderInv, PastFull
    <2>3. QED
      BY <1>1, <1>2, <1>5, <1>7, <2>1, <2>2 DEF SenderInv
  <1>9. TimerInv'
    <2>1. timerPc = "retreat" => (~overrun' => buffer'[tail] = taken)
      BY <1>1, <1>2, <1>7 DEF Owners, TimerInv, TypeOK
    <2>2. Slots = 1 => tail = head
      BY DEF TypeOK
    <2>3. Slots = 1 => buffer'[tail] # taken
      BY <1>2, <1>5, <2>2
    <2>4. QED
      BY <1>1, <2>1, <2>3 DEF Owners, TimerInv, Empty
  <1>10. NextInv'
    BY <1>1, <1>5 DEF Owners, NextInv
  <1>11. QueueInv'
    BY <1>1, <1>2, <1>3, <1>4, <1>5 DEF Owners, QueueInv
  <1>12. NoLeak'
    <2>1. SUFFICES ASSUME ~overrun, ~Overruns(w), NEW f \in heap PROVE f \in Owned'
      BY <1>1 DEF NoLeak
    <2>2. f \in Owned /\ f # None
      BY <2>1 DEF Owners, NoLeak, Owned
    <2>3. head \notin Queued
      BY <1>4, <2>1
    <2>4. buffer'[head] \in BeingPut'
      BY <1>1 DEF BeingPut
    <2>5. BeingPut = {}
      BY <1>1 DEF BeingPut
    <2>6. CASE f = held[w]
      BY <1>2, <2>2, <2>4, <2>6 DEF Owned
    <2>7. CASE f # held[w]
      <3>1. f = next \/ f = taken \/ \E i \in Queued : f = buffer[i]
        BY <1>5, <2>2, <2>5, <2>7 DEF Owned
      <3>2. f = next' \/ f = taken' \/ \E i \in Queued' : f = buffer'[i]
        BY <1>1, <1>2, <1>3, <1>4, <2>3, <3>1
      <3>3. QED
        BY <2>2, <3>2 DEF Owned
    <2>8. QED
      BY <2>6, <2>7
  <1>13. QED
    BY <1>8, <1>9, <1>10, <1>11, <1>12 DEF Owners

\* The queue is not full: its oldest frame is not given up.
LEMMA OverwriteStep ==
  ASSUME TypeOK, Owners, NEW w \in Transmitters, ~Meets(w), Overwrite(w), overrun' = overrun
  PROVE  Owners'
  <1> USE DEF target, timer, armed
  <1>1. /\ pc[w] = "overwrite" /\ pc'[w] = "advance"
        /\ UNCHANGED << next, buffer, heap, head, full, timerPc, taken, held, wrapped >>
        /\ \A u \in Transmitters : u # w => pc[u] = "idle" /\ pc'[u] = "idle"
    BY DEF Overwrite, Goto, TypeOK, Meets
  <1>2. tail' = tail
    BY <1>1 DEF Overwrite, Owners, SenderInv, PastFull
  <1>3. Queued' = Queued
    BY <1>1, <1>2, SameQueue DEF AllFull
  <1>4. SenderInv'
    BY <1>1, <1>2, <1>3 DEF Owners, SenderInv, PastNext, PastFull
  <1>5. TimerInv'
    BY <1>1, <1>2 DEF Owners, TimerInv, Empty, Uninterrupted
  <1>6. NextInv' /\ QueueInv'
    BY <1>1, <1>2, <1>3 DEF Owners, NextInv, QueueInv
  <1>7. NoLeak'
    <2>1. BeingPut' = BeingPut
      BY <1>1 DEF BeingPut
    <2>2. QED
      BY <1>1, <1>3, <2>1 DEF Owners, NoLeak, Owned
  <1>8. QED
    BY <1>4, <1>5, <1>6, <1>7 DEF Owners

\* The slot that has been written joins the queue.
LEMMA AdvanceStep ==
  ASSUME TypeOK, Owners, NEW w \in Transmitters, ~Meets(w), Advance(w), overrun' = overrun
  PROVE  Owners'
  <1> USE DEF target, timer, armed
  <1>1. /\ pc[w] = "advance" /\ pc' = [pc EXCEPT ![w] = "compare"] /\ pc'[w] = "compare"
        /\ head' = Succ(head) /\ tail' = tail
        /\ UNCHANGED << next, buffer, heap, full, timerPc, taken, held, wrapped >>
        /\ \A u \in Transmitters : u # w => pc[u] = "idle" /\ pc'[u] = "idle"
    BY DEF Advance, Goto, TypeOK, Meets
  <1>2. /\ next = None /\ ~full /\ buffer[head] \in heap /\ buffer[head] # taken
        /\ \A i \in Queued : i # head => buffer[i] # buffer[head]
        /\ timerPc = "retreat" /\ head = tail => overrun
    BY <1>1 DEF Owners, SenderInv, PastNext, PastFull
  <1>3. /\ Queued' \subseteq Queued \cup {head}
        /\ \/ timerPc = "retreat" /\ head = tail
           \/ Queued' = Queued \cup {head}
    BY <1>1, <1>2, AdvanceQueue
  <1>4. SenderInv'
    BY <1>1, <1>2 DEF Owners, SenderInv, PastNext, PastFull
  <1>5. TimerInv'
    <2>1. Slots = 1 => tail = head
      BY DEF TypeOK
    <2>2. QED
      BY <1>1, <1>2, <2>1 DEF Owners, TimerInv
  <1>6. NextInv'
    BY <1>1, <1>2 DEF Owners, NextInv
  <1>7. QueueInv'
    BY <1>1, <1>2, <1>3 DEF Owners, QueueInv
  <1>8. NoLeak'
    <2>1. BeingPut = {buffer[head]} /\ BeingPut' = {}
      BY <1>1 DEF BeingPut
    <2>2. CASE overrun
      BY <2>2 DEF NoLeak
    <2>3. CASE ~overrun
      <3>1. Queued' = Queued \cup {head}
        BY <1>2, <1>3, <2>3
      <3>2. heap \subseteq Owned
        BY <2>3 DEF Owners, NoLeak
      <3>3. Owned \subseteq Owned'
        BY <1>1, <2>1, <3>1 DEF Owned
      <3>4. QED
        BY <1>1, <3>2, <3>3 DEF NoLeak
    <2>4. QED
      BY <2>2, <2>3
  <1>9. QED
    BY <1>4, <1>5, <1>6, <1>7, <1>8 DEF Owners

\* The comparison is still right when the flag is set from it.
LEMMA CompareStep ==
  ASSUME TypeOK, Owners, NEW w \in Transmitters, ~Meets(w), Compare(w), overrun' = overrun
  PROVE  Owners'
  <1> USE DEF target, queue, timer, armed
  <1>1. /\ pc[w] = "compare" /\ pc'[w] = "mark" /\ wrapped'[w] = (head = tail)
        /\ UNCHANGED << next, buffer, heap, head, tail, full, timerPc, taken, held >>
        /\ \A u \in Transmitters : u # w => pc[u] = "idle" /\ pc'[u] = "idle"
    BY DEF Compare, Goto, TypeOK, Meets
  <1>2. Queued' = Queued
    BY <1>1, SameQueue DEF AllFull
  <1>3. SenderInv'
    BY <1>1, <1>2 DEF Owners, SenderInv, PastNext, PastFull
  <1>4. TimerInv'
    BY <1>1 DEF Owners, TimerInv, Empty, Uninterrupted
  <1>5. NextInv' /\ QueueInv'
    BY <1>1, <1>2 DEF Owners, NextInv, QueueInv
  <1>6. NoLeak'
    <2>1. BeingPut = {} /\ BeingPut' = {}
      BY <1>1 DEF BeingPut
    <2>2. QED
      BY <1>1, <1>2, <2>1 DEF Owners, NoLeak, Owned
  <1>7. QED
    BY <1>3, <1>4, <1>5, <1>6 DEF Owners

\* The flag tells what the indices alone do not.
LEMMA MarkStep ==
  ASSUME TypeOK, Owners, NEW w \in Transmitters, ~Meets(w), Mark(w), overrun' = overrun
  PROVE  Owners'
  <1> USE DEF target, timer, armed
  <1>1. /\ pc[w] = "mark" /\ pc'[w] = "start_mc" /\ full' = wrapped[w]
        /\ UNCHANGED << next, buffer, heap, head, tail, timerPc, taken, held >>
        /\ \A u \in Transmitters : u # w => pc[u] = "idle" /\ pc'[u] = "idle"
    BY DEF Mark, Goto, TypeOK, Meets
  <1>2. next = None /\ wrapped[w] = (head = tail)
    BY <1>1 DEF Owners, SenderInv, PastNext
  <1>3. full' <=> head = tail
    BY <1>1, <1>2
  <1>4. Queued' = Queued
    BY <1>1, <1>3, SameQueue DEF AllFull
  <1>5. SenderInv'
    BY <1>1, <1>2 DEF Owners, SenderInv, PastFull
  <1>6. TimerInv'
    BY <1>1, <1>3 DEF Owners, TimerInv, Empty, Uninterrupted
  <1>7. NextInv' /\ QueueInv'
    BY <1>1, <1>4 DEF Owners, NextInv, QueueInv
  <1>8. NoLeak'
    <2>1. BeingPut = {} /\ BeingPut' = {}
      BY <1>1 DEF BeingPut
    <2>2. QED
      BY <1>1, <1>4, <2>1 DEF Owners, NoLeak, Owned
  <1>9. QED
    BY <1>5, <1>6, <1>7, <1>8 DEF Owners

\* core.c:370: nothing else holds the frame that is freed.
LEMMA FreeNextStep ==
  ASSUME TypeOK, Owners, FreeNext, overrun' = overrun
  PROVE  Owners'
  <1> USE DEF target, queue, sender, armed
  <1>1. /\ timerPc = "free" /\ timerPc' = "clear" /\ heap' = heap \ {next}
        /\ UNCHANGED << next, buffer, head, tail, full, pc, held, wrapped, taken >>
    BY DEF FreeNext, TimerGoto
  <1>2. Queued' = Queued
    BY <1>1, SameQueue DEF AllFull
  <1>3. next # None /\ \A i \in Queued : buffer[i] # next
    BY <1>1 DEF Owners, TimerInv, NextInv
  <1>4. \A t \in Transmitters : pc[t] \notin PastNext
    BY <1>3 DEF Owners, SenderInv
  <1>5. SenderInv'
    BY <1>1, <1>4 DEF Owners, SenderInv, PastNext, PastFull
  <1>6. TimerInv'
    BY <1>1, <1>3 DEF Owners, TimerInv
  <1>7. NextInv' /\ QueueInv'
    BY <1>1, <1>2, <1>3 DEF Owners, NextInv, QueueInv
  <1>8. NoLeak'
    BY <1>1, <1>2 DEF Owners, NoLeak, Owned, BeingPut
  <1>9. QED
    BY <1>5, <1>6, <1>7, <1>8 DEF Owners

\* core.c:371: the block has been freed, so that no frame is lost with the pointer.
LEMMA ClearNextStep ==
  ASSUME TypeOK, Owners, ClearNext, overrun' = overrun
  PROVE  Owners'
  <1> USE DEF target, queue, sender, armed
  <1>1. /\ timerPc = "clear" /\ timerPc' = "rearm_tx" /\ next' = None
        /\ UNCHANGED << heap, buffer, head, tail, full, pc, held, wrapped, taken >>
    BY DEF ClearNext, TimerGoto
  <1>2. Queued' = Queued
    BY <1>1, SameQueue DEF AllFull
  <1>3. next \notin heap /\ None \notin heap
    BY <1>1, TxAssumption DEF Owners, NextInv, TypeOK
  <1>4. SenderInv'
    BY <1>1, <1>2 DEF Owners, SenderInv
  <1>5. TimerInv'
    BY <1>1 DEF Owners, TimerInv
  <1>6. NextInv' /\ QueueInv'
    BY <1>1, <1>2, <1>3 DEF Owners, NextInv, QueueInv
  <1>7. NoLeak'
    <2>1. BeingPut' = BeingPut
      BY <1>1 DEF BeingPut
    <2>2. Owned \ {next} \subseteq Owned'
      BY <1>1, <1>2, <2>1 DEF Owned
    <2>3. QED
      BY <1>1, <1>3, <2>2 DEF Owners, NoLeak
  <1>8. QED
    BY <1>4, <1>5, <1>6, <1>7 DEF Owners

\* The test of awdl_send_multicast still holds in circular_buf_get: puts only add.
LEMMA FetchStep ==
  ASSUME TypeOK, Owners, ~Interrupts, Fetch, overrun' = overrun
  PROVE  Owners'
  <1> USE DEF target, sender, armed
  <1>1. timerPc = "fetch" /\ \A t \in Transmitters : pc[t] \notin Uninterrupted
    BY DEF Fetch, TimerGoto, Interrupts
  <1>2. ~Empty
    BY <1>1 DEF Owners, TimerInv, Uninterrupted
  <1>3. /\ timerPc' = "retreat" /\ taken' = buffer[tail] /\ full' = FALSE
        /\ UNCHANGED << next, heap, buffer, head, tail, pc, held, wrapped, overrun >>
    BY <1>2 DEF Fetch, TimerGoto
  <1>4. Queued' = Queued
    BY <1>1, <1>2, <1>3, SameQueue DEF AllFull, Empty
  <1>5. tail \in Queued
    BY <1>2, TxAssumption DEF Queued, AllFull, Empty, TypeOK
  <1>6. buffer[tail] \in heap /\ buffer[tail] # None /\ taken = None
    BY <1>1, <1>5, TxAssumption DEF Owners, QueueInv, TimerInv, TypeOK
  <1>7. SenderInv'
    BY <1>1, <1>3, <1>4, <1>5 DEF Owners, SenderInv, PastFull, Uninterrupted
  <1>8. TimerInv'
    BY <1>1, <1>3, <1>6 DEF Owners, TimerInv
  <1>9. NextInv' /\ QueueInv'
    BY <1>1, <1>3, <1>4, <1>5, <1>6 DEF Owners, NextInv, QueueInv
  <1>10. NoLeak'
    BY <1>3, <1>4, <1>6 DEF Owners, NoLeak, Owned, BeingPut
  <1>11. QED
    BY <1>7, <1>8, <1>9, <1>10 DEF Owners

\* The slot the tail leaves held the frame that has been taken, or one that a put has
\* overrun.
LEMMA RetreatStep ==
  ASSUME TypeOK, Owners, ~Interrupts, Retreat, overrun' = overrun
  PROVE  Owners'
  <1> USE DEF target, sender, armed
  <1>1. /\ timerPc = "retreat" /\ timerPc' = "send_mc" /\ tail' = Succ(tail)
        /\ UNCHANGED << next, heap, buffer, head, full, pc, held, wrapped, taken, overrun >>
        /\ \A t \in Transmitters : pc[t] \notin Uninterrupted
    BY DEF Retreat, TimerGoto, Interrupts
  <1>2. full => head = tail
    BY <1>1 DEF Owners, TimerInv
  <1>3. /\ Queued' \subseteq Queued
        /\ Queued \subseteq Queued' \cup {tail}
        /\ tail \in Queued' => Slots = 1 /\ full
    BY <1>1, <1>2, RetreatQueue
  <1>4. SenderInv'
    BY <1>1, <1>3 DEF Owners, SenderInv, PastFull, Uninterrupted
  <1>5. TimerInv'
    BY <1>1 DEF Owners, TimerInv
  <1>6. NextInv'
    BY <1>1, <1>3 DEF Owners, NextInv
  <1>7. QueueInv'
    <2>1. \A i \in Queued' : buffer[i] # taken
      BY <1>1, <1>3 DEF Owners, QueueInv, TimerInv
    <2>2. QED
      BY <1>1, <1>3, <2>1 DEF Owners, QueueInv
  <1>8. NoLeak'
    <2>1. BeingPut' = BeingPut
      BY <1>1 DEF BeingPut, Uninterrupted
    <2>2. ~overrun => buffer[tail] = taken
      BY <1>1 DEF Owners, TimerInv
    <2>3. ~overrun => Owned \subseteq Owned'
      BY <1>1, <1>3, <2>1, <2>2 DEF Owned
    <2>4. QED
      BY <1>1, <2>3 DEF Owners, NoLeak
  <1>9. QED
    BY <1>4, <1>5, <1>6, <1>7, <1>8 DEF Owners

\* core.c:399: nothing else holds the frame that is freed.
LEMMA SendAndFreeStep ==
  ASSUME TypeOK, Owners, SendAndFree, overrun' = overrun
  PROVE  Owners'
  <1> USE DEF target, queue, sender, armed
  <1>1. /\ timerPc = "send_mc" /\ timerPc' = "rearm_mc" /\ heap' = heap \ {taken} /\ taken' = None
        /\ UNCHANGED << next, buffer, head, tail, full, pc, held, wrapped, overrun >>
    BY DEF SendAndFree, TimerGoto
  <1>2. Queued' = Queued
    BY <1>1, SameQueue DEF AllFull
  <1>3. taken \in heap /\ None \notin heap
    BY <1>1, TxAssumption DEF Owners, TimerInv, TypeOK
  <1>4. \A i \in Queued : buffer[i] # taken
    BY <1>1 DEF Owners, QueueInv
  <1>5. SenderInv'
    BY <1>1, <1>2, <1>3 DEF Owners, SenderInv
  <1>6. TimerInv'
    BY <1>1 DEF Owners, TimerInv
  <1>7. NextInv'
    BY <1>1, <1>2 DEF Owners, NextInv
  <1>8. QueueInv'
    BY <1>1, <1>2, <1>4 DEF Owners, QueueInv
  <1>9. NoLeak'
    <2>1. BeingPut' = BeingPut
      BY <1>1 DEF BeingPut
    <2>2. Owned \ {taken} \subseteq Owned'
      BY <1>1, <1>2, <2>1 DEF Owned
    <2>3. QED
      BY <1>1, <2>2 DEF Owners, NoLeak
  <1>10. QED
    BY <1>5, <1>6, <1>7, <1>8, <1>9 DEF Owners

\* A step of the transmitter; only its put can overrun a get.
LEMMA OwnersTransmit ==
  ASSUME TypeOK, Owners, NEW w \in Transmitters, ~Meets(w), NodeTransmit(w)
  PROVE  Owners'
  <1> USE DEF target, queue, timer, armed
  <1>1. overrun' = (overrun \/ Overruns(w)) /\ Transmit(w)
    BY DEF NodeTransmit
  <1>2. CASE Write(w)
    BY <1>1, <1>2, WriteStep
  <1>3. CASE ~Write(w)
    <2>1. pc[w] # "write"
      BY <1>1, <1>3 DEF Transmit, Call, CheckNext, CheckFull, Build, Store, StartTx, Overwrite,
         Advance, Compare, Mark, StartMc, Goto
    <2>2. overrun' = overrun
      BY <1>1, <2>1 DEF Overruns, Owners
    <2>3. CASE Call(w)
      BY <2>2, <2>3, SenderMoves DEF Call, Goto, SenderPc, PastNext, PastFull
    <2>4. CASE CheckNext(w)
      BY <2>2, <2>4, SenderMoves DEF CheckNext, Goto, SenderPc, PastNext, PastFull
    <2>5. CASE CheckFull(w)
      <3>1. next = None
        BY <2>5 DEF CheckFull, Goto, Owners, SenderInv, PastNext
      <3>2. QED
        BY <2>2, <2>5, <3>1, SenderMoves DEF CheckFull, Goto, SenderPc, PastNext, PastFull
    <2>6. CASE StartTx(w)
      BY <2>2, <2>6, SenderMoves DEF StartTx, Goto, SenderPc, PastNext, PastFull
    <2>7. CASE StartMc(w)
      BY <2>2, <2>7, SenderMoves DEF StartMc, Goto, SenderPc, PastNext, PastFull
    <2>8. QED
      BY <1>1, <1>3, <2>2, <2>3, <2>4, <2>5, <2>6, <2>7, BuildStep, StoreStep, OverwriteStep,
         AdvanceStep, CompareStep, MarkStep DEF Transmit
  <1>4. QED
    BY <1>2, <1>3

\* A step of a callback, which the transmitter lets run only where it is not in the
\* middle of its test or of a put.
LEMMA OwnersCallback ==
  ASSUME TypeOK, Owners, ~Interrupts, Callback
  PROVE  Owners'
  <1> USE DEF target, armed, TimerGoto
  <1>1. overrun' = overrun
    BY DEF Callback
  <1>2. CASE FireTx \/ NothingToSend \/ SendNow \/ Drop \/ Later
    BY <1>1, <1>2, TimerMoves DEF FireTx, NothingToSend, SendNow, Drop, Later
  <1>3. CASE TransmitNext
    <2>1. next # None
      BY <1>3 DEF TransmitNext, Owners, TimerInv
    <2>2. QED
      BY <1>1, <1>3, <2>1, TimerMoves DEF TransmitNext
  <1>4. CASE RearmTx \/ FireMc \/ NotNow \/ SomethingToSend \/ RearmMc
    BY <1>1, <1>4, TimerMoves DEF RearmTx, FireMc, NotNow, SomethingToSend, RearmMc
  <1>5. QED
    BY <1>1, <1>2, <1>3, <1>4, FreeNextStep, ClearNextStep, FetchStep, RetreatStep,
       SendAndFreeStep DEF Callback, SendUnicast, SendMulticast

\* Every step of the node keeps the frames with their owners, as long as no tasks
\* have overlapped.
OwnersInv == overlap \in BOOLEAN /\ (~overlap => Owners)

LEMMA OwnersStep == WakeInv /\ OwnersInv /\ [NodeNext]_nodeVars => (WakeInv /\ OwnersInv)'
  <1> SUFFICES ASSUME WakeInv, OwnersInv, [NodeNext]_nodeVars PROVE (WakeInv /\ OwnersInv)'
    OBVIOUS
  <1> USE DEF OwnersInv
  <1>1. TypeOK
    BY DEF WakeInv
  <1>2. UNCHANGED nodeVars \/ Disable => UNCHANGED << vars, overrun, overlap >>
    BY DEF nodeVars, seen, Disable, SetDown, DeleteTx, DeleteMc, ConsoleGoto
  <1>3. NodeChangeSequence => UNCHANGED << next, queue, heap, sender, timer, overrun, overlap >>
    BY DEF NodeChangeSequence, ChangeSequence, seen
  <1>4. ASSUME UNCHANGED << next, queue, heap, sender, timer, overrun, overlap >>
        PROVE  OwnersInv'
    <2>1. UNCHANGED << next, buffer, head, tail, full, heap, pc, held, wrapped, timerPc, taken >>
      BY <1>4 DEF queue, sender, timer
    <2>2. Queued' = Queued
      BY <2>1, SameQueue DEF AllFull
    <2>3. Owners => SenderInv' /\ NextInv' /\ QueueInv'
      BY <1>4, <2>1, <2>2 DEF Owners, SenderInv, NextInv, QueueInv
    <2>4. Owners => TimerInv'
      BY <1>4, <2>1 DEF Owners, TimerInv, Empty
    <2>5. Owners => NoLeak'
      BY <1>4, <2>1, <2>2 DEF Owners, NoLeak, Owned, BeingPut
    <2>6. QED
      BY <1>4, <2>3, <2>4, <2>5 DEF Owners
  <1>5. ASSUME Callback PROVE OwnersInv'
    <2>1. overlap' = (overlap \/ Interrupts)
      BY <1>5 DEF Callback
    <2>2. ~overlap' => Owners'
      BY <1>1, <1>5, <2>1, OwnersCallback
    <2>3. QED
      BY <2>1, <2>2 DEF Interrupts
  <1>6. ASSUME NEW t \in Transmitters, NodeTransmit(t) PROVE OwnersInv'
    <2>1. overlap' = (overlap \/ Meets(t))
      BY <1>6 DEF NodeTransmit
    <2>2. ~overlap' => Owners'
      BY <1>1, <1>6, <2>1, OwnersTransmit
    <2>3. QED
      BY <2>1, <2>2 DEF Meets
  <1>7. OwnersInv'
    <2>1. CASE UNCHANGED nodeVars \/ Disable
      BY <1>2, <1>4, <2>1 DEF vars, target
    <2>2. CASE NodeChangeSequence
      BY <1>3, <1>4, <2>2
    <2>3. QED
      BY <1>5, <1>6, <2>1, <2>2 DEF NodeNext
  <1>8. WakeInv'
    <2>1. [Next]_vars
      BY <1>2, NodeRefines
    <2>2. QED
      BY <2>1, WakeStep
  <1>9. QED
    BY <1>7, <1>8

\* What the three properties say follows from what each pointer is to.
LEMMA OwnersImply ==
  ASSUME TypeOK, Owners
  PROVE  (overrun \/ InReach) /\ OneOwner /\ SomethingIsThere
  <1>1. OneOwner
    BY DEF Owners, QueueInv, NextInv, OneOwner
  <1>2. SomethingIsThere
    BY DEF Owners, TimerInv, SomethingIsThere
  <1>3. BeingPut \subseteq heap
    BY DEF Owners, SenderInv, BeingPut
  <1>4. \A t \in Transmitters : held[t] # None => held[t] \in heap
    BY DEF Owners, SenderInv
  <1>5. taken # None => taken \in heap
    BY DEF Owners, TimerInv
  <1>6. \A i \in Queued : buffer[i] \in heap
    BY DEF Owners, QueueInv
  <1>7. timerPc # "clear" => (next # None => next \in heap)
    BY DEF Owners, NextInv
  <1>8. timerPc # "clear" => Owned \subseteq heap
    BY <1>3, <1>4, <1>5, <1>6, <1>7 DEF Owned
  <1>9. overrun \/ InReach
    BY <1>8 DEF Owners, NoLeak, InReach
  <1>10. QED
    BY <1>1, <1>2, <1>9

\* The three are invariants of the node, up to the first overlap.
LEMMA NodeOwners == NodeSpec => [](Reachable /\ (overlap \/ (OneOwner /\ SomethingIsThere)))
  <1>1. NodeInit => WakeInv /\ OwnersInv
    BY WakeInit, OwnersInit DEF NodeInit, OwnersInv
  <1>2. WakeInv /\ OwnersInv /\ [NodeNext]_nodeVars => (WakeInv /\ OwnersInv)'
    BY OwnersStep
  <1>3. WakeInv /\ OwnersInv => Reachable /\ (overlap \/ (OneOwner /\ SomethingIsThere))
    BY OwnersImply DEF WakeInv, OwnersInv, Reachable
  <1>4. QED
    BY <1>1, <1>2, <1>3, PTL DEF NodeSpec

\* Every allocated frame can be reached by the task that will free it, and no pointer
\* dangles, for any set of transmitting tasks, whichever of them the esp_timer task
\* can interrupt, and any size of the queue; unless a put has overrun a full queue or
\* tasks have overlapped in awdl_transmit.
THEOREM NodeReachable == NodeSpec => []Reachable
  BY NodeOwners, PTL

\* Until tasks overlap in awdl_transmit no frame is queued twice, or queued and in
\* state->next: none is freed twice.  An overrun does not change that.
THEOREM NodeOneOwner == NodeSpec => [](overlap \/ OneOwner)
  BY NodeOwners, PTL

\* Until tasks overlap in awdl_transmit, what awdl_send_multicast fetches was there,
\* and it is allocated until it is freed, even if a put has overrun the queue.
THEOREM NodeSomethingIsThere == NodeSpec => [](overlap \/ SomethingIsThere)
  BY NodeOwners, PTL

\* With one transmitter, which the esp_timer task cannot interrupt, tasks never overlap:
\* then the three hold as the run checks them.
THEOREM NodeNoOverlap ==
  ASSUME NEW w, Transmitters = {w}, Above = {w}
  PROVE  NodeSpec => []~overlap
  <1>1. NodeInit => ~overlap
    BY DEF NodeInit
  <1>2. ~overlap /\ [NodeNext]_nodeVars => ~overlap'
    <2> SUFFICES ASSUME ~overlap, [NodeNext]_nodeVars PROVE ~overlap'
      OBVIOUS
    <2>1. CASE Callback
      <3>1. ~Interrupts
        BY <2>1 DEF Callback, SendUnicast, SendMulticast, FireTx, NothingToSend, SendNow, Drop,
           Later, TransmitNext, FreeNext, ClearNext, RearmTx, FireMc, NotNow, SomethingToSend,
           Fetch, Retreat, SendAndFree, RearmMc, TimerGoto, Interrupts
      <3>2. QED
        BY <2>1, <3>1 DEF Callback
    <2>2. ASSUME NEW t \in Transmitters, NodeTransmit(t) PROVE ~overlap'
      BY <2>2 DEF NodeTransmit, Meets
    <2>3. CASE UNCHANGED nodeVars \/ Disable \/ NodeChangeSequence
      BY <2>3 DEF nodeVars, seen, Disable, SetDown, DeleteTx, DeleteMc, ConsoleGoto,
         NodeChangeSequence
    <2>4. QED
      BY <2>1, <2>2, <2>3 DEF NodeNext
  <1>3. QED
    BY <1>1, <1>2, PTL DEF NodeSpec
=============================================================================
