--------------------------- MODULE CertStore_proof ---------------------------
(***************************************************************************)
(* For any number of test tasks and any number of generations: the state   *)
(* of the certificate store is well typed, nobody is forgotten and the     *)
(* buffers balance.  Each invariant is inductive given the ones before it. *)
(***************************************************************************)
EXTENDS CertStore, TLAPS

-----------------------------------------------------------------------------
(* Next, action by action: what each of the proofs below splits.           *)

LEMMA InitTyped == Init => TypeOK
BY CertAssumption DEF Init, TypeOK, NoPair, Stored, Pc, Requester, Blob

LEMMA CreateTyped ==
    ASSUME TypeOK, NEW r \in Requester, NEW what \in {"gen", "print"}, Create(r, what),
           notified' \subseteq Requester
    PROVE  TypeOK'
BY DEF TypeOK, Create, Pc, store, reader

LEMMA WorkTyped ==
    ASSUME TypeOK, NEW r \in Requester, Work(r)
    PROVE  TypeOK'
<1> USE DEF TypeOK, Goto, store, reader
<1>1. CASE TakeNotification(r)
  BY <1>1, CreateTyped DEF TakeNotification
<1>2. CASE Leave(r)
  BY <1>2 DEF Leave, Pc, Stored
<1>3. CASE InitNvs(r)
  BY <1>3 DEF InitNvs, Pc
<1>4. CASE Erase(r)
  BY <1>4 DEF Erase, Pc, NoPair, Stored
<1>5. CASE InitAgain(r)
  BY <1>5 DEF InitAgain, Pc
<1>6. CASE Open(r)
  BY <1>6 DEF Open, Pc
<1>7. CASE OpenFails(r)
  BY <1>7 DEF OpenFails, Pc
<1>8. CASE GenerateKey(r)
  BY <1>8 DEF GenerateKey, Pc, Fresh, Stored
<1>9. CASE GenerationFails(r)
  BY <1>9 DEF GenerationFails, Pc
<1>10. CASE SetKey(r)
  BY <1>10 DEF SetKey, Write, Pc, Blob
<1>11. CASE SetCert(r)
  BY <1>11 DEF SetCert, Write, Pc, Blob
<1>12. CASE Commit(r)
  BY <1>12 DEF Commit, Pc
<1>13. ASSUME NEW b \in Blob, Measure(r, b)
       PROVE  TypeOK'
  BY <1>13 DEF Measure, GiveUp, After, Pc, Blob
<1>14. ASSUME NEW b \in Blob, Read(r, b)
       PROVE  TypeOK'
  BY <1>14 DEF Read, GiveUp, After, Pc, Blob, Stored
<1>15. CASE Perform(r)
  BY <1>15 DEF Perform, Pc
<1>16. CASE Free(r)
  BY <1>16 DEF Free, Pc
<1>17. CASE Close(r)
  BY <1>17 DEF Close, Pc
<1> QED
  BY <1>1, <1>2, <1>3, <1>4, <1>5, <1>6, <1>7, <1>8, <1>9, <1>10, <1>11, <1>12,
     <1>13, <1>14, <1>15, <1>16, <1>17 DEF Work

LEMMA StepTyped == TypeOK /\ [Next]_vars => TypeOK'
<1> SUFFICES ASSUME TypeOK, [Next]_vars
             PROVE  TypeOK'
  OBVIOUS
<1> Console \in Requester /\ Test \subseteq Requester
  BY DEF Requester
<1>1. CASE Restart
  BY <1>1 DEF Restart, TypeOK, Stored, Pc
<1>2. ASSUME NEW r \in Requester, NEW what \in {"gen", "print"}, Call(r, what)
      PROVE  TypeOK'
  BY <1>2, CreateTyped DEF Call, TypeOK
<1>3. CASE HttpsRequest
  BY <1>3 DEF HttpsRequest, TypeOK, Pc, store, reader
<1>4. ASSUME NEW r \in Requester, Work(r)
      PROVE  TypeOK'
  BY <1>4, WorkTyped
<1>5. CASE UNCHANGED vars
  BY <1>5 DEF vars, store, reader, TypeOK
<1> QED
  BY <1>1, <1>2, <1>3, <1>4, <1>5 DEF Next

\* Every state of the certificate store is well typed: what drop/cert.c keeps in
\* flash, in its tasks and on the heap, for any number of test tasks.
THEOREM CertTypeCorrect == Spec => []TypeOK
<1> QED
  BY InitTyped, StepTyped, PTL DEF Spec

-----------------------------------------------------------------------------
(* Nobody is forgotten.                                                    *)

\* What a worker does between its creation and its end.
Inside(r) ==
    /\ pc[r] # "none"
    /\ \E at \in Pc \ {"none"} : pc' = [pc EXCEPT ![r] = at]
    /\ UNCHANGED << task, notified >>

LEMMA WorkInside ==
    ASSUME TypeOK, NEW r \in Requester, Work(r)
    PROVE  TakeNotification(r) \/ Leave(r) \/ Inside(r)
<1> USE DEF Goto, Inside, Pc
<1>1. InitNvs(r) \/ Erase(r) \/ InitAgain(r) \/ Open(r) \/ OpenFails(r) => Inside(r)
  BY DEF InitNvs, Erase, InitAgain, Open, OpenFails
<1>2. GenerateKey(r) \/ GenerationFails(r) \/ SetKey(r) \/ SetCert(r) \/ Commit(r)
      => Inside(r)
  BY DEF GenerateKey, GenerationFails, SetKey, SetCert, Commit
<1>3. ASSUME NEW b \in Blob
      PROVE  Measure(r, b) \/ Read(r, b) => Inside(r)
  BY DEF Measure, Read, GiveUp, After
<1>4. Perform(r) \/ Free(r) \/ Close(r) => Inside(r)
  BY DEF Perform, Free, Close
<1> QED
  BY <1>1, <1>2, <1>3, <1>4 DEF Work

LEMMA StepNobodyForgotten == TypeOK /\ NobodyForgotten /\ [Next]_vars => NobodyForgotten'
<1> SUFFICES ASSUME TypeOK, NobodyForgotten, [Next]_vars
             PROVE  NobodyForgotten'
  OBVIOUS
<1> Console \in Requester /\ Test \subseteq Requester
  BY DEF Requester
<1> USE DEF TypeOK, NobodyForgotten
<1>1. CASE Restart
  BY <1>1 DEF Restart
<1>2. ASSUME NEW r \in Requester, NEW what \in {"gen", "print"}, Call(r, what)
      PROVE  NobodyForgotten'
  BY <1>2 DEF Call, Create
<1>3. CASE HttpsRequest
  BY <1>3 DEF HttpsRequest
<1>4. ASSUME NEW r \in Requester, Work(r)
      PROVE  NobodyForgotten'
  <2>1. CASE TakeNotification(r)
    BY <2>1 DEF TakeNotification, Create
  <2>2. CASE Leave(r)
    BY <2>2 DEF Leave, Goto
  <2>3. CASE Inside(r)
    BY <2>3 DEF Inside
  <2> QED
    BY <1>4, <2>1, <2>2, <2>3, WorkInside
<1>5. CASE UNCHANGED vars
  BY <1>5 DEF vars
<1> QED
  BY <1>1, <1>2, <1>3, <1>4, <1>5 DEF Next

\* A task in ulTaskNotifyTake (cert.c:292, 369) has a worker, a notification pending
\* or a worker that could not be created, and just one of them.
THEOREM CertNobodyForgotten == Spec => []NobodyForgotten
<1>1. Init => NobodyForgotten
  BY DEF Init, NobodyForgotten
<1> QED
  BY <1>1, InitTyped, StepTyped, StepNobodyForgotten, PTL DEF Spec

-----------------------------------------------------------------------------
(* The buffers balance.                                                    *)

\* Where a worker holds no buffer.
Bufferless == Pc \ { "key_read", "cert_size", "cert_read", "perform", "free" }

\* A step from one such place to another allocates nothing and frees nothing.
LEMMA BufferlessBalanced ==
    ASSUME TypeOK, BuffersBalanced, NEW r \in Requester,
           pc[r] \in Bufferless, NEW to \in Bufferless,
           pc' = [pc EXCEPT ![r] = to],
           heap' = heap,
           \A q \in Requester \ {r} : task'[q] = task[q]
    PROVE  BuffersBalanced'
<1> SUFFICES ASSUME NEW q \in Requester, NEW b \in Blob
             PROVE  << q, b >> \in heap' <=> Holds(q, b)'
  BY DEF BuffersBalanced
<1>1. pc'[r] = to /\ \A p \in Requester \ {r} : pc'[p] = pc[p]
  BY DEF TypeOK
<1>2. << q, b >> \in heap <=> Holds(q, b)
  BY DEF BuffersBalanced
<1>3. CASE q = r
  <2>1. ~Holds(q, b)
    BY <1>3 DEF Holds, Bufferless
  <2>2. ~Holds(q, b)'
    BY <1>1, <1>3 DEF Holds, Bufferless
  <2> QED
    BY <1>2, <2>1, <2>2
<1>4. CASE q # r
  BY <1>1, <1>2, <1>4 DEF Holds
<1> QED
  BY <1>3, <1>4

LEMMA CreateBalanced ==
    ASSUME TypeOK, BuffersBalanced, NEW r \in Requester, pc[r] = "none",
           NEW what \in {"gen", "print"}, Create(r, what)
    PROVE  BuffersBalanced'
<1>1. heap' = heap /\ \A q \in Requester \ {r} : task'[q] = task[q]
  BY DEF Create, reader, TypeOK
<1>2. PICK to \in {"keygen", "init", "denied"} : pc' = [pc EXCEPT ![r] = to]
  BY DEF Create
<1>3. to \in Bufferless /\ pc[r] \in Bufferless
  BY DEF Bufferless, Pc
<1> QED
  BY <1>1, <1>2, <1>3, BufferlessBalanced

\* The steps of a worker that leave its buffers alone begin and end where it has none.
LEMMA StepBalanced ==
    TypeOK /\ NobodyForgotten /\ BuffersBalanced /\ [Next]_vars => BuffersBalanced'
<1> SUFFICES ASSUME TypeOK, NobodyForgotten, BuffersBalanced, [Next]_vars
             PROVE  BuffersBalanced'
  OBVIOUS
<1> Console \in Requester /\ Test \subseteq Requester
  BY DEF Requester
<1> USE DEF TypeOK, BuffersBalanced, Holds, Goto, store, reader
<1>1. CASE Restart
  BY <1>1 DEF Restart
<1>2. ASSUME NEW r \in Requester, NEW what \in {"gen", "print"}, Call(r, what)
      PROVE  BuffersBalanced'
  BY <1>2, CreateBalanced DEF Call, NobodyForgotten
<1>3. CASE HttpsRequest
  BY <1>3 DEF HttpsRequest, NobodyForgotten
<1>4. ASSUME NEW r \in Requester, Work(r)
      PROVE  BuffersBalanced'
  <2>1. CASE TakeNotification(r)
    <3>1. pc[r] = "none"
      BY <2>1 DEF TakeNotification, NobodyForgotten
    <3> QED
      BY <2>1, <3>1, CreateBalanced DEF TakeNotification
  <2>2. CASE Leave(r)
    <3>1. pc[r] = "leave" /\ pc' = [pc EXCEPT ![r] = "none"] /\ heap' = heap
      BY <2>2 DEF Leave
    <3>2. \A q \in Requester \ {r} : task'[q] = task[q]
      BY <2>2 DEF Leave
    <3> QED
      BY <3>1, <3>2, BufferlessBalanced DEF Bufferless, Pc
  <2>3. CASE InitNvs(r) \/ Erase(r) \/ InitAgain(r) \/ Open(r) \/ OpenFails(r)
    <3>1. pc[r] \in {"init", "erase", "init_again", "open"}
      BY <2>3 DEF InitNvs, Erase, InitAgain, Open, OpenFails
    <3>2. PICK to \in {"erase", "init_again", "open", "set_key", "key_size", "leave"} :
             pc' = [pc EXCEPT ![r] = to]
      BY <2>3 DEF InitNvs, Erase, InitAgain, Open, OpenFails
    <3>3. heap' = heap /\ task' = task
      BY <2>3 DEF InitNvs, Erase, InitAgain, Open, OpenFails
    <3> QED
      BY <3>1, <3>2, <3>3, BufferlessBalanced DEF Bufferless, Pc
  <2>4. CASE GenerateKey(r) \/ GenerationFails(r) \/ SetKey(r) \/ SetCert(r) \/ Commit(r)
    <3>1. pc[r] \in {"keygen", "set_key", "set_cert", "commit"}
      BY <2>4 DEF GenerateKey, GenerationFails, SetKey, SetCert, Commit
    <3>2. PICK to \in {"init", "set_cert", "commit", "leave"} : pc' = [pc EXCEPT ![r] = to]
      BY <2>4 DEF GenerateKey, GenerationFails, SetKey, SetCert, Commit
    <3>3. heap' = heap /\ task' = task
      BY <2>4 DEF GenerateKey, GenerationFails, SetKey, SetCert, Commit
    <3> QED
      BY <3>1, <3>2, <3>3, BufferlessBalanced DEF Bufferless, Pc
  <2>5. ASSUME NEW b \in Blob, Measure(r, b)
        PROVE  BuffersBalanced'
    <3> SUFFICES ASSUME NEW q \in Requester, NEW c \in Blob
                 PROVE  << q, c >> \in heap' <=> Holds(q, c)'
      OBVIOUS
    <3>1. CASE q # r
      BY <2>5, <3>1 DEF Measure, GiveUp
    <3>2. CASE q = r
      BY <2>5, <3>2 DEF Measure, GiveUp, After, Blob
    <3> QED
      BY <3>1, <3>2
  <2>6. ASSUME NEW b \in Blob, Read(r, b)
        PROVE  BuffersBalanced'
    <3> SUFFICES ASSUME NEW q \in Requester, NEW c \in Blob
                 PROVE  << q, c >> \in heap' <=> Holds(q, c)'
      OBVIOUS
    <3>1. CASE q # r
      BY <2>6, <3>1 DEF Read, GiveUp
    <3>2. CASE q = r
      BY <2>6, <3>2 DEF Read, GiveUp, After, Blob
    <3> QED
      BY <3>1, <3>2
  <2>7. CASE Perform(r) \/ Close(r)
    BY <2>7 DEF Perform, Close
  <2>8. CASE Free(r)
    BY <2>8 DEF Free
  <2> QED
    BY <1>4, <2>1, <2>2, <2>3, <2>4, <2>5, <2>6, <2>7, <2>8 DEF Work
<1>5. CASE UNCHANGED vars
  BY <1>5 DEF vars
<1> QED
  BY <1>1, <1>2, <1>3, <1>4, <1>5 DEF Next

\* Every path through retrieve_cert_and_key and the printing task (cert.c:50-102,
\* 314-351) holds the buffers it should, and gives back what it has allocated.
THEOREM CertBuffersBalanced == Spec => []BuffersBalanced
<1>1. Init => NobodyForgotten /\ BuffersBalanced
  BY DEF Init, NobodyForgotten, BuffersBalanced, Holds
<1> QED
  BY <1>1, InitTyped, StepTyped, StepNobodyForgotten, StepBalanced, PTL DEF Spec

=============================================================================
