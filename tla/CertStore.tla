------------------------------ MODULE CertStore ------------------------------
(***************************************************************************)
(* The key and the certificate of the AirDrop client in flash              *)
(* (drop/cert.c), and the commands that work on them (cli/command.c).      *)
(*                                                                         *)
(* `drop cert gen` and `drop cert print` each create a task of their own   *)
(* and make the console wait for its notification; `drop dis` reads the    *)
(* pair in the console itself; `ble` creates a task that does the first    *)
(* two in turn while the console goes on.  Key and certificate are two     *)
(* blobs, written and read one after the other, and nothing locks them:    *)
(* that they match is not promised by the code, and not stated here.       *)
(*                                                                         *)
(* A step is one call of the NVS library or one decision on its result.    *)
(* What the library may answer is external and taken from what the code    *)
(* is prepared for.  The button, Ctrl+R and every failed ESP_ERROR_CHECK   *)
(* restart the node; so does _print_stored_cert_and_key when it returns    *)
(* because the storage does not open (sdkconfig wraps task functions).     *)
(***************************************************************************)
EXTENDS FiniteSets

CONSTANTS
    Console,        \* uart_event_task
    Test,           \* the tasks `ble` can create
    Generation,     \* the pairs that can be generated: a bound for TLC
    Long,           \* those with longer blobs than the others
    None            \* no blob

ASSUME CertAssumption ==
    /\ Console \notin Test
    /\ Long \subseteq Generation
    /\ None \notin Generation

Requester == {Console} \cup Test
Blob == {"key", "cert"}

VARIABLES
    flash,          \* flash[b]: the generation of blob b, as nvs_get_blob finds it
    saved,          \* what of it a restart cannot lose
    ready,          \* whether the NVS partition is initialised
    task,           \* task[r]: what r has called and waits for
    pc,             \* pc[r]: where the worker of r is, or r itself in https_request
    opened,         \* the requesters whose nvs_handle is open
    made,           \* made[r]: the generation in key_buf and cert_buf
    size,           \* size[r]: the generation whose size was read
    heap,           \* the allocated buffers
    notified        \* the requesters with a notification pending

store == << flash, saved, ready >>
reader == << size, heap >>
vars == << store, task, pc, opened, made, reader, notified >>

NoPair == [b \in Blob |-> None]

\* The result of nvs_flash_init at the start-up is ignored (capture.c:271).
Init ==
    /\ flash = NoPair
    /\ saved = NoPair
    /\ ready \in BOOLEAN
    /\ task = [r \in Requester |-> "idle"]
    /\ pc = [r \in Requester |-> "none"]
    /\ opened = {}
    /\ made = [r \in Requester |-> None]
    /\ size = [r \in Requester |-> None]
    /\ heap = {}
    /\ notified = {}

\* What was not committed may be lost, each blob for itself.
Restart ==
    /\ \E kept \in SUBSET Blob :
          flash' = [b \in Blob |-> IF b \in kept THEN flash[b] ELSE saved[b]]
    /\ saved' = flash'
    /\ ready' \in BOOLEAN
    /\ task' = [r \in Requester |-> "idle"]
    /\ pc' = [r \in Requester |-> "none"]
    /\ opened' = {}
    /\ made' = [r \in Requester |-> None]
    /\ size' = [r \in Requester |-> None]
    /\ heap' = {}
    /\ notified' = {}

Goto(r, from, to) == pc[r] = from /\ pc' = [pc EXCEPT ![r] = to]

-----------------------------------------------------------------------------
(* The commands, and what waits for the worker.                            *)

\* The result of xTaskCreate is ignored: a worker that could not be created leaves
\* its requester in ulTaskNotifyTake.
Create(r, what) ==
    /\ task' = [task EXCEPT ![r] = what]
    /\ \/ pc' = [pc EXCEPT ![r] = IF what = "gen" THEN "keygen" ELSE "init"]
       \/ pc' = [pc EXCEPT ![r] = "denied"]
    /\ UNCHANGED << store, opened, made, reader >>

\* handle_opendrop_command, or the start of test_cert.
Call(r, what) ==
    /\ task[r] = "idle"
    /\ Create(r, what)
    /\ UNCHANGED notified

HttpsRequest ==
    /\ task[Console] = "idle"
    /\ task' = [task EXCEPT ![Console] = "request"]
    /\ pc' = [pc EXCEPT ![Console] = "init"]
    /\ UNCHANGED << store, opened, made, reader, notified >>

\* ulTaskNotifyTake returns.  test_cert prints what it has generated.
TakeNotification(r) ==
    /\ r \in notified
    /\ notified' = notified \ {r}
    /\ IF r \in Test /\ task[r] = "gen"
       THEN Create(r, "print")
       ELSE /\ task' = [task EXCEPT ![r] = "idle"]
            /\ UNCHANGED << store, pc, opened, made, reader >>

\* Wrong on purpose: the worker deletes itself without a word.
LeaveSilently(r) ==
    /\ Goto(r, "leave", "none")
    /\ made' = [made EXCEPT ![r] = None]
    /\ task' = [task EXCEPT ![r] = IF @ = "request" THEN "idle" ELSE @]
    /\ UNCHANGED << store, opened, reader, notified >>

\* xTaskNotifyGive and vTaskDelete, or the return from https_request.
Leave(r) ==
    /\ Goto(r, "leave", "none")
    /\ made' = [made EXCEPT ![r] = None]
    /\ IF task[r] = "request"
       THEN /\ task' = [task EXCEPT ![r] = "idle"]
            /\ UNCHANGED notified
       ELSE /\ notified' = notified \cup {r}
            /\ UNCHANGED task
    /\ UNCHANGED << store, opened, reader >>

-----------------------------------------------------------------------------
(* The storage is initialised and opened, with each use again.             *)

InitNvs(r) ==
    /\ Goto(r, "init", IF ready THEN "open" ELSE "erase")
    /\ UNCHANGED << store, task, opened, made, reader, notified >>

\* Every handle becomes invalid.
Erase(r) ==
    /\ Goto(r, "erase", "init_again")
    /\ flash' = NoPair
    /\ saved' = NoPair
    /\ ready' = FALSE
    /\ opened' = {}
    /\ UNCHANGED << task, made, reader, notified >>

InitAgain(r) ==
    /\ Goto(r, "init_again", "open")
    /\ ready' = TRUE
    /\ UNCHANGED << flash, saved, task, opened, made, reader, notified >>

Open(r) ==
    /\ ready
    /\ Goto(r, "open", IF task[r] = "gen" THEN "set_key" ELSE "key_size")
    /\ opened' = opened \cup {r}
    /\ UNCHANGED << store, task, made, reader, notified >>

\* The printing task returns, which is a Restart.  A store without the namespace
\* cannot be opened for reading only.
OpenFails(r) ==
    /\ task[r] # "print"
    /\ Goto(r, "open", "leave")
    /\ UNCHANGED << store, task, opened, made, reader, notified >>

-----------------------------------------------------------------------------
(* _generate_and_store_cert_key                                            *)

\* A generation that is nowhere any more can be made again.
Fresh ==
    Generation \ ({ flash[b] : b \in Blob } \cup { saved[b] : b \in Blob }
                    \cup { made[r] : r \in Requester } \cup { size[r] : r \in Requester })

GenerateKey(r) ==
    /\ Goto(r, "keygen", "init")
    /\ \E g \in Fresh : made' = [made EXCEPT ![r] = g]
    /\ UNCHANGED << store, task, opened, reader, notified >>

GenerationFails(r) ==
    /\ Goto(r, "keygen", "leave")
    /\ UNCHANGED << store, task, opened, made, reader, notified >>

\* nvs_set_blob; a failure is logged and nothing else.
Write(r, b) ==
    \/ r \in opened /\ flash' = [flash EXCEPT ![b] = made[r]]
    \/ UNCHANGED flash

SetKey(r) ==
    /\ Goto(r, "set_key", "set_cert")
    /\ Write(r, "key")
    /\ UNCHANGED << saved, ready, task, opened, made, reader, notified >>

SetCert(r) ==
    /\ Goto(r, "set_cert", "commit")
    /\ Write(r, "cert")
    /\ UNCHANGED << saved, ready, task, opened, made, reader, notified >>

Commit(r) ==
    /\ Goto(r, "commit", "leave")
    /\ \/ r \in opened /\ saved' = flash
       \/ UNCHANGED saved
    /\ opened' = opened \ {r}
    /\ UNCHANGED << flash, ready, task, made, reader, notified >>

-----------------------------------------------------------------------------
(* retrieve_cert_and_key and _print_stored_cert_and_key                    *)

Fits(g, h) == g = h \/ g \notin Long \/ h \in Long

\* Wrong on purpose: the printing task tries until it has the key.
AfterRetry(r, b) == IF task[r] = "print" /\ b = "key" THEN "key_size" ELSE "close"

\* What the readers do next when blob b cannot be had: the printing task goes on,
\* the request gives up what it has and closes.
After(r, b) == IF task[r] = "print" /\ b = "key" THEN "cert_size" ELSE "close"

\* Wrong on purpose: the key is not given back on the way out.
GiveUpKeepingKey(r, b) ==
    /\ pc' = [pc EXCEPT ![r] = After(r, b)]
    /\ heap' = heap \ {<< r, b >>}

GiveUp(r, b) ==
    /\ pc' = [pc EXCEPT ![r] = After(r, b)]
    /\ heap' = heap \ (IF task[r] = "print" THEN {<< r, b >>} ELSE {r} \X Blob)

\* The size is read and a buffer of that size allocated.
Measure(r, b) ==
    /\ pc[r] = (IF b = "key" THEN "key_size" ELSE "cert_size")
    /\ \/ /\ r \in opened /\ flash[b] # None
          /\ size' = [size EXCEPT ![r] = flash[b]]
          /\ heap' = heap \cup {<< r, b >>}
          /\ pc' = [pc EXCEPT ![r] = IF b = "key" THEN "key_read" ELSE "cert_read"]
       \/ GiveUp(r, b) /\ UNCHANGED size
    /\ UNCHANGED << store, task, opened, made, notified >>

\* The blob is read, if it still fits.  What is printed is freed at once.
Read(r, b) ==
    /\ pc[r] = (IF b = "key" THEN "key_read" ELSE "cert_read")
    /\ size' = [size EXCEPT ![r] = None]
    /\ \/ GiveUp(r, b)
       \/ /\ r \in opened /\ flash[b] # None /\ Fits(flash[b], size[r])
          /\ task[r] = "request"
          /\ pc' = [pc EXCEPT ![r] = IF b = "key" THEN "cert_size" ELSE "perform"]
          /\ UNCHANGED heap
    /\ UNCHANGED << store, task, opened, made, notified >>

\* nvs_close, then the request itself, then the buffers.
Perform(r) ==
    /\ Goto(r, "perform", "free")
    /\ opened' = opened \ {r}
    /\ UNCHANGED << store, task, made, reader, notified >>

Free(r) ==
    /\ Goto(r, "free", "leave")
    /\ heap' = heap \ ({r} \X Blob)
    /\ UNCHANGED << store, task, opened, made, size, notified >>

Close(r) ==
    /\ Goto(r, "close", "leave")
    /\ opened' = opened \ {r}
    /\ UNCHANGED << store, task, made, reader, notified >>

-----------------------------------------------------------------------------
Work(r) ==
    \/ TakeNotification(r) \/ Leave(r)
    \/ InitNvs(r) \/ Erase(r) \/ InitAgain(r) \/ Open(r) \/ OpenFails(r)
    \/ GenerateKey(r) \/ GenerationFails(r) \/ SetKey(r) \/ SetCert(r) \/ Commit(r)
    \/ \E b \in Blob : Measure(r, b) \/ Read(r, b)
    \/ Perform(r) \/ Free(r) \/ Close(r)

Next ==
    \/ Restart
    \/ \E what \in {"gen", "print"} : Call(Console, what)
    \/ HttpsRequest
    \/ \E r \in Test : Call(r, "gen")
    \/ \E r \in Requester : Work(r)

Spec == Init /\ [][Next]_vars

\* The tasks are scheduled, and the calls of the libraries return.
FairSpec == Spec /\ \A r \in Requester : WF_vars(Work(r))

-----------------------------------------------------------------------------
Pc ==
    { "none", "denied", "keygen", "init", "erase", "init_again", "open",
      "set_key", "set_cert", "commit",
      "key_size", "key_read", "cert_size", "cert_read", "perform", "free",
      "close", "leave" }

Stored == Generation \cup {None}

\* Type invariant.
TypeOK ==
    /\ flash \in [Blob -> Stored]
    /\ saved \in [Blob -> Stored]
    /\ ready \in BOOLEAN
    /\ task \in [Requester -> {"idle", "gen", "print", "request"}]
    /\ pc \in [Requester -> Pc]
    /\ opened \subseteq Requester
    /\ made \in [Requester -> Stored]
    /\ size \in [Requester -> Stored]
    /\ heap \subseteq Requester \X Blob
    /\ notified \subseteq Requester

\* The buffers each path through the readers (cert.c:50-102, 314-351) holds, and no
\* other: the five error returns of retrieve_cert_and_key and the branches of the
\* printing task give back what they have allocated, and nothing else.
Holds(r, b) ==
    \/ pc[r] \in {"perform", "free"}
    \/ pc[r] = "cert_read" /\ (b = "cert" \/ task[r] = "request")
    \/ pc[r] = "key_read" /\ b = "key"
    \/ pc[r] = "cert_size" /\ b = "key" /\ task[r] = "request"

BuffersBalanced ==
    \A r \in Requester, b \in Blob : << r, b >> \in heap <=> Holds(r, b)

\* A task that waits for a notification without a timeout (cert.c:290, 363) has a
\* worker under way or the notification pending, and never both: none is given twice,
\* none is left over to answer the next call before its worker has run.  The one task
\* that waits in vain is the one whose worker could not be created.
NobodyForgotten ==
    \A r \in Requester :
        /\ task[r] \in {"gen", "print"} => (pc[r] = "none") = (r \in notified)
        /\ task[r] \in {"idle", "request"} => r \notin notified
        /\ task[r] = "idle" <=> pc[r] = "none" /\ r \notin notified

\* Every command comes to an end, whatever fails and however the tasks overlap, but
\* for a worker that could not be created: that console is lost until a restart.
CommandsEnd ==
    \A r \in Requester : task[r] # "idle" ~> task[r] = "idle" \/ pc[r] = "denied"
=============================================================================
