# A verification project for ESP-OWL

ESP-OWL (`src/`) is firmware for the ESP32 that speaks Apple Wireless Direct Link
(AWDL): it joins the AWDL network around it, keeps a table of its peers, elects a
master, keeps its clock with it, and carries IPv6 frames between the AWDL network and
the lwIP stack.  The protocol core in `src/main/owl` comes from the OWL project; the
code in `src/main/wifi` drives it with FreeRTOS tasks and `esp_timer` callbacks in the
place of OWL's single event loop.  Most of what can go wrong here comes from that
change, and most of this project is about it.

- [How the firmware is put together](#how-the-firmware-is-put-together)
- [Inventory](#inventory)
- [The modules](#the-modules)
- [The runs](#the-runs)
- [Fairness](#fairness)
- [The proofs](#the-proofs)
- [Findings](#findings)
- [What is not modelled](#what-is-not-modelled)
- [Plan](#plan)

## How the firmware is put together

Six kinds of context run the code.  No lock protects anything they share.

| context | priority | what it runs |
|---|---|---|
| WiFi task | 23 | `wifi_sniffer_packet_handler` -> `awdl_receive_frame` -> `awdl_rx` -> `awdl_rx_action` or `awdl_rx_data`; a data frame goes on to `awdl_netif_input` and `ip_input`, and the reply it causes to `awdl_transmit` |
| `esp_timer` task | 22 | six callbacks, one after the other: `awdl_switch_channel`, `awdl_clean_peers`, `awdl_send_psf`, `awdl_send_mif`, `awdl_send_unicast`, `awdl_send_multicast` |
| lwIP thread | 18 | `linkoutput` -> `awdl_transmit` |
| UART event task | 11 | the console: `uart_event_task` -> `main_cmd` |
| workers of `drop` and `ble` | 5 | generate, store or print the certificate, while the console waits |
| main task | 1 | start-up |

They share `struct daemon_state`: the election state, the synchronisation state, the
channel state, the peer table, the pointer `next` to the one unicast frame that waits,
and `tx_queue_multicast`.  `src/sdkconfig` describes an ESP32-C6 with one core
(`CONFIG_FREERTOS_UNICORE`, line 1382); `src/README.md:3` and the build workflow name
the ESP32-S3, which has two.  On one core a task of a higher priority interrupts one of
a lower and never the other way round; on two cores every interleaving is possible.
TxPath takes this apart with the constant `Above`; PeerTable is of one core, and
ElectionLoop and SyncTree let the WiFi task write at any time, as on two.

## Inventory

What each component keeps, what it does, what is hard about it and what makes it right.
`PROJECT.json` lists the same components with the modules that model them, and under
`hazards` each point at its line.

| component | state | operations | what is hard | what makes it right |
|---|---|---|---|---|
| master election (`owl/election.c`) | `election`: master, sync master, height, metric, counter | `awdl_election_run` and the comparisons it uses | order of iteration; a height announced a while ago; local rules with a global outcome | the result is the best eligible peer in every order; the network's tree is well formed and recovers |
| peer table (`owl/peers.c`) | map of address -> heap record | add, get, remove old ones, print | records freed by one task and used by another; ages | no use after free, no leak, silent peers leave |
| hash map (`owl/hashmap.c`) | open addressing, bounded chains | put, get, remove, iterate, rehash | holes, collisions, nested growth | it is a map |
| circular buffer (`owl/circular_buffer.c`) | array, two indices, one flag | put, overwrite, get, peek, reset | full and empty look alike | it is a bounded queue |
| synchronisation (`owl/sync.c`) and schedule (`owl/schedule.c`) | `aw_counter`, `last_update` | take over the master's count; reckon slot and time to the next window | wraps, rounding, guards | nodes agree on slots up to the guard |
| transmit path (`wifi/awdl.c:62-114`, `wifi/core.c:328-424`) | `next`, `tx_queue_multicast`, two timers | hand over, send, drop, re-arm | unlocked hand-over, preemption, retries | each frame has one owner, is sent or dropped once and freed |
| action frames (`owl/tx.c`, `owl/rx.c`, `owl/frame.h`) | none | build and parse TLVs | widths, order, truncation | what is built is parsed back |
| receive path (`wifi/capture.c:420-511`, `owl/rx.c:334-515`, `wifi/awdl_netif.c`) | the frame buffers of one call | filter, strip the headers, deliver | A-MSDUs, early returns, ownership | each buffer is freed once |
| sniffer and start-up (`main.c`, `wifi/capture.c`, `wifi/core.c`) | `running`, interface, timers | init, start | order, uninitialised fields | nothing is used before it is there |
| disabling AWDL (`wifi/core.c:438-455`) | the timers | stop and delete | callbacks and transmitters still use them | a timer that is deleted is needed by nobody; then silence |
| channel switching (`wifi/core.c:196-225`, `owl/channel.c`) | current channel | switch at each window | calls the radio; the sequence is static | the radio is where the schedule says |
| neighbour list (`wifi/core.c:268-312`) | list of addresses | add, remove | given the address of a pointer | list = valid peers |
| console (`cli/`) | line buffer, history | edit a line, run a command | 8-bit lengths, waiting for other tasks | every command ends |
| certificate store (`drop/cert.c`) | two blobs in flash | generate, save, read, print, use | failure, another task or a restart between the two; waiting without a timeout | buffers given back, every command ends, no waiting task forgotten |
| restart button (`btn/restart.c`) | none | `esp_restart` | a node comes back without state | neighbours cope |
| others | | coexistence with Bluetooth, mDNS and the AirDrop client, wire helpers, checksums, logging | | |

How they interact: a received action frame writes the peer table and, if it comes from
the sync master, the clock; the peer timer cleans the table and runs the election over
it; the election state and the clock go out in the next PSF or MIF; the clock decides
when the two transmit callbacks may send what `awdl_transmit` handed over.  The console
takes the interface down and deletes the transmit timers under them; its other commands
work on the certificate in flash through tasks of their own.

## The modules

Modules named `MC...` give the constants of a component values for TLC, modules named
`..._proof` hold its theorems: Election_proof those of ElectionLoop and SyncTree,
AwdlDisable_proof also those of TxPath, the others those of the module they are named
after.  Definitions that begin with the words "Wrong on purpose"
are variants of the definition below them with a plausible bug; `PROJECT.json` lists
which property each of them breaks.  They are used nowhere in the models.

**AwdlElection** - `owl/election.c` and `compare.c` as operators on election states:
`Eligible` (the three reasons for which a peer is passed over), `Beats` (counter, then
metric, then address), `Adopt`, and `ElectionRun`, the set of possible outcomes for a
set of peers.  `HeightWord` is the width of the height.  `TornRun` is the set of
outcomes when each test and each assignment may read another version of the record.

**ElectionLoop** - the loop of `awdl_election_run`, one read of a peer's record at a
time: `Visit`, `TestLimit` (`election.c:82`), `TestCycle` (87), `Compare` (95-106), and
the five assignments of 109-113, one `AdoptField` each.  Between any two of them
`WriteField` may overwrite the next field of any peer, in the order in which the TLVs of
a frame are stored (`rx.c:133-143`).  Without such a write the loop computes
`ElectionRun` (`OrderIrrelevant`), with them a member of `TornRun` (`TornAtMost`): the
larger models take these sets as one step.  A field is one write here.  The six bytes
of an address are copied by `memcpy`, which could itself be interrupted; that an address
of two halves is nobody's is left out.

**SyncTree** - a network of nodes, each with its election state and the valid peers it
remembers.  `HearFrom` is the reception of an action frame between two elections, `Clean`
the run of `awdl_clean_peers` (`core.c:314-326`), `TornElection` a run that frames come
in the middle of, with the outcomes that ElectionLoop establishes, `Restart` the restart
of a node, `Blackout` the loss of every frame of some neighbours for the length of the
timeout.  External devices, for instance phones, come and go; they win by their metric.
`torn` counts the torn elections, up to `MaxTorn`: after one a node may announce a master
with another's rank, or a height one above the limit, and others may follow it.
`MasterIsReal` and `OwnTreesAreStars` therefore speak of networks with none,
`DepthBounded` grants each of them one level, and `Settles` says that the network gets
rid of what they mixed.
The ages of peers are left out: a peer that is off the air may be dropped at any clean-up.

**Fifo** and **CircularBuffer** - the promise of `circular_buffer.h` and the code that
keeps it, one action per function of the header; CircularBuffer implements Fifo through
`Contents`, the values between `tail` and `head`.

**TxPath** - the hand-over of frames.  Each step is one access to a shared variable.
`Transmit(t)` is `awdl_transmit` in task `t`: it looks for a free place (`CheckNext`,
`CheckFull`), builds the frame (`Build`), and stores it in `next` or puts it into the
queue, step by step as `circular_buffer.c` does; `SendUnicast` and `SendMulticast` are
the two callbacks with their early returns and their re-arming.  The queue here is the
same code as in CircularBuffer, with its assignments taken apart.  `apart` says that the
frame in `next` is for a peer without a channel in common with this node
(`schedule.c:77`): a peer that has announced none yet (`peers.c:72`), one whose sequence is
misread (`schedule.c:38`), or one on other channels.  Such a frame is not sent, and not
dropped while the peer is in the table.  `ChangeSequence` is the peer announcing another
sequence.

**AwdlDisable** - TxPath together with the console command `awdl disable`
(`core.c:438-455`), one step per call.  `NodeTransmit` is `Transmit` while the interface
is up; `Delete` is `esp_timer_delete`, which refuses an armed timer, a refusal the code
ignores.  The console has a lower priority than every other task here, so `ConsoleGoto`
moves only while they wait.  An observer, `overrun`, records that a put has gone into a
full queue between the two assignments of a get (finding 1); the properties of reach and
of liveness except what follows it, and no action reads it.  Another, `overlap`, records
that two tasks have been in `awdl_transmit` at once, or that a callback has run while one
was between the two halves of its test or in a put.  In the run, with the WiFi task
alone, that never happens (`NodeNoOverlap`); the theorems of ownership hold until it does.  `psf_timer`, the flag `running` and `mif_timer` are not
state of the model: its head comment says why.  A second `awdl disable`, which would delete deleted
timers again, is left out.

**PeerTable** - the peer table of one node under its two users, on one core.  `RxAction` is the
reception of an action frame in the WiFi task: add, get, each TLV (the write goes through the
pointer into the heap), add again, with both failures of an add (`PeerAddFails`);
`CleanPeers` is the callback in the `esp_timer` task:
the walk through the table (age read, log, remove, free), then the election over the
same table, then the re-arming.  The callback moves only
while the WiFi task is idle, since the WiFi task has the higher priority, and the WiFi task can start at any of
its points.  `hashmap_it_remove` is the writes of `hashmap.c:280-285`: `Remove` sets
`in_use = 0`, `ClearData` and `ClearKey` clear whatever is in the slot then.  A put may
take the slot in between (`TakesSlot`): `hollow` and `keyless` are the slots in use that
have lost their data or their key.  A put may also move the slots under the iterator
(`Moved`, a rehash), after which the clean-up goes on anywhere, and `PeerAddFails` may
lose some (`hashmap.c:126`).  The observer `upset` records these three; the
properties hold until it is set.  What follows is modelled as far as the next use of NULL or of a freed block,
which is where the node panics or is not followed any further (`Restart`); this
includes a failing `malloc` in `awdl_peer_new`, whose result is not checked.

**SyncClock** - a tree of devices with their counters of availability windows.
`SendAction` fills in the synchronisation parameters (`tx.c:103-128`),
`HandleSyncParams` takes them over (`rx.c:46-51`, `sync.c:67-72`); `CanSend` and
`SendsUnicast` are the tests of `schedule.c`, with the guard of each kind of frame
(`schedule.h:28-29`).  The counter and the microsecond clock
wrap at `CounterWord` and `UsecWord`.  The tree may be of any depth; the lag of a device
grows with its depth, and `Within` says for which depths a guard makes up for it.

**KeyMap** and **HashMap** - the promise of `hashmap.h` and the open-addressing table
of `hashmap.c`: linear probing over at most `MaxChain` places, growth when half full
or when no place is found, removal that leaves holes, and an iteration that removes.
The hash of each key is an arbitrary value of `HashValues`, chosen at the start, so
that a run covers every pattern of collisions.  Any call can come while an iterator
is at work.  A rehash under it leaves it at its old index in the new array, `astray`:
`EachOnce` speaks of the keys that are in the map all the while and that no rehash has
moved, and KeyMap lets an iterator that is astray stand anywhere after a put, since
`hashmap.h:81` forbids to modify the map while iterating and says no more.  `hashmap_put` and `hashmap_rehash` call
each other: `pending` is what all the calls on the stack have still to put, innermost
first, and each step (`Store`, `Skip`, `Rehash`) deals with its head, so that the states
in the middle of a nested rehash are states of the model.  `RehashNoMemory` is a `calloc` that
fails: all calls return, and the elements not yet moved are in no table.  `hashmap.h`
does not say what `MAP_OMEM` means for them; `PutNoMemory` of KeyMap lets some be lost,
none changed, and none while an iterator stands where it should.

**ActionFrame** - what `tx.c` builds: each TLV as the fields of its packed struct in
`frame.h`, with their widths, and `FullActionFrame`, the PSF or MIF as the sequence of
its TLVs.  `Place` reckons where a field begins.

**RxFrame** - the reception of one frame after another (`awdl_rx`, `awdl_receive_frame`).
The state is the view of the loops (`stripped`, `left`), the record of each peer, the
packets made and the packet delivered.  `Receive` applies the filters, one step of
`HandleTlv` is one round of the loop at `rx.c:299` and one of `Subframe` one round at
`rx.c:409`; `Deliver` is the end of `awdl_receive_frame`.  The handlers read at the
literal offsets of `rx.c`, in the value of the TLV found at the place the loop has
reached; a read at a place or of a width where the sender has no field gives garbage.
`RxAssumption` says what the frames around may be (`ActionFrameOf`, `DataFrameOf`,
`TrailerOf`), well formed but of any number of subframes and any length; TLC and the
proofs take the same.  The index into `data_arr` is not checked (`rx.c:401`, `409`,
`capture.c:424`): the packet after the sixteenth takes the model to `overrun`, where it
stays, for what is overwritten on the stack then is not known.  A payload that has no
room in a packet is not copied (`rx.c:399`): the packet then is of the heap, `copied` is
false.  A channel sequence of a configuration the firmware does not know (`Sane`,
`rx.c:71-87`) ends the frame with what was stored before it.
`live` is the set of blocks allocated for the frame: the
frame, the view of a subframe, and the packets made of it (`wire.c:32-58`).
Frames come from this firmware (`FullActionFrame`) and from a device of another make
(other TLVs in another order, the simple and the legacy encoding, election version 1
alone), and end in a checksum, in a checksum that looks like a TLV, or in the one byte
the ESP adds.

**CertStore** - `drop/cert.c` and the commands that reach it.  A requester is the
console or the task of `ble`; `task` is what it has called and waits for, `pc` where
the worker created for it is, a step is one call of the NVS library or one decision on
its result.  `flash` is what `nvs_get_blob` finds, `saved` what a restart cannot lose.
`Create` may fail (`cert.c:289`, `362` ignore the result), every library call may fail
where the code looks at the result, and `Restart` (the button, a failed
`ESP_ERROR_CHECK`, or the printing task that returns from its function at `cert.c:310`)
can come anywhere.  Nothing is claimed of the match of key and certificate: a failed
write, a second generator and a restart between the two writes part them, and beyond
these three, two writes in a row cannot fail to match.

## The runs

Each run answers one question.  Numbers are distinct states.

| run | states | question and answer |
|---|---|---|
| `election_loop` | 654 thousand | Does the election depend on the order of the hash map, and what may it adopt when frames change the records under it?  Every order ends with the one outcome that the order on election states defines (`OrderIrrelevant`), over every pair of peers in a small range of heights, metrics, counters, addresses and `is_valid`, and triples of a smaller one; with frames between any two reads, the fields are of one peer, each as it was at some time (`TornAtMost`). |
| `sync_tree` | 62 thousand | Does the network forget a master that left, and come to rest, even if an election has adopted a mixture?  Yes, thanks to the height limit: claims to follow an absent master only move away from the root (`GhostsOnlyRecede`), so they reach the limit and vanish (`GhostsVanish`, `Settles`). |
| `sync_tree_cycle` | - | Does `election.c:87` prevent cycles, as its comment says?  Only those of two nodes: three nodes with one-way links close one. |
| `circular_buffer` | 1 thousand | Is the circular buffer a queue?  Yes, call by call. |
| `tx_one_task` | 60 thousand | Is each frame owned by one place, in reach, and freed once, and may the console turn AWDL off at any moment?  Yes for a transmitting task that the timer task cannot interrupt inside a put, as the WiFi task on one core, but for the overrun of finding 1, after which frames may be out of reach, and for a frame that waits in `next` for a peer on other channels, which is freed only when that changes or AWDL is off (`EveryFrameFreed`).  No deleted timer is needed by anybody (`DeadTimersUnneeded`), since `esp_timer_delete` refuses the armed ones, and after that nothing is left (`DisabledIsQuiet`). |
| `tx_lwip_thread` | - | And if the transmitting task is the lwIP thread, of lower priority than the timer task?  Then a frame can be taken in the middle of its put, which marks the empty queue as full, and a frame freed before is sent and freed again. |
| `tx_full` | - | Is the queue empty when it says so?  Not after a put that preempts a get of a full queue. |
| `peer_table` | 3.1 million | On one core, does the interrupted clean-up use a freed record, leak one, keep a silent peer or follow a master that is gone?  No, until a put takes the slot that a removal is emptying, moves the slots under the iterator, or fails in a rehash: after each of these it may. |
| `sync_clock` | 760 thousand | Does the clock error build up, and is a frame sent in a slot its receiver is in?  The error is at most a time unit less one microsecond, and the delay, per hop (`LagBounded`); frames meet their receivers as deep as the guard makes up for that. |
| `hash_map` | 387 thousand | Is the hash map a map under every pattern of collisions, with holes, and with growth that nests, fails, or comes under an iterator?  Yes, at every step of a rehash, but that a failed `calloc` loses the elements not yet moved and that an iterator may miss or repeat those that were moved. |
| `rx_frame` | 174 thousand | Do builders and parsers agree, byte for byte, and do the loops stay in step and end?  Yes (`InStep`, `Understood`, `FramesEnd`), also when a checksum looks like a TLV; three limits are part of the properties: channels of the legacy encoding are not understood; a payload is delivered whole only below 256 bytes, and bytes of the heap are in place of one that has no room (`Delivered`); more than 16 subframes overrun the array, and nothing else does (`OverrunOnlyBeyond`); of the blocks made for a frame only the packets that the code forgets are left (`BlocksFreed`). |
| `cert_store` | 236 thousand | Can failures, restarts or two users at once leak a buffer or strand a waiting task?  Every buffer is given back (`BuffersBalanced`), and only a requester whose worker could not be created waits for ever (`NobodyForgotten`, `CommandsEnd`). |

### Bounds, and why they are enough

- *Network.*  Three nodes are the fewest that can close a cycle the code does not
  reject; the ring of one-way links is the topology in which they do.  The height limit
  is 3 where the run must exhaust the states and the firmware's own 10 in the run that looks for a
  cycle.  `MaxDisturb` (2) bounds arrivals, departures, restarts and blackouts together:
  a master can come and leave, or leave while a node restarts.  One torn election
  (`MaxTorn`) is enough for a claim that nobody made and a height above the limit; the
  proofs are of any number.
- *Election.*  Two peers beside the node decide every comparison; a few tables of three
  are added, for the order.  Tables of two are rewritten by a frame of each peer, at any
  points of the loop: a run takes far less time than there is between two frames of a
  device.  The proofs take over from there.
- *Queue.*  A buffer of three slots, and one of two in `tx_one_task` and `tx_full`, has
  an empty, a full and partly filled shapes in each rotation.  `Frame` bounds the heap: with one frame more than slots the
  full queue, the occupied `next` and the rejected frame all occur; `tx_lwip_thread` needs
  no full queue and has one frame less.
- *Certificates.*  The console and one task of `ble` are the two that can be at work at
  once.  Three generations, one of them longer: one stored, one under way, and one for
  the other task, so that a blob can grow between the reading of its size and of its
  contents.  A generation that is nowhere any more is used again.
- *Peers.*  `Timeout` is two clean intervals, as in the firmware (2 s and 1 s).  Ages
  saturate at `MaxAge`, past which nothing depends on them.  Three heap blocks serve
  two peers, so that a freed block is reused while a pointer to it may be left.  A node
  whose map is upset is followed (`MCWhileUpset`) to the end of the clean-up or to the next
  frame: the properties are silent from there, and a step that breaks them without a
  put having upset the map lies before.
- *Clock.*  `MaxTime` (136) lets the microsecond clock (128 values) wrap and the
  window counter (16 values) go round more than once.  The scaled
  constants keep the ratios that matter: a whole number of slots per counter cycle and
  room for a guard at either end (`ClockAssumption`).  Both guards are 3 here, the lag
  of a hop is below one time unit and the delay; with two hops the run goes as deep as
  they reach.  In the firmware the guards are 3 and 4 units of 1024 us: as long as the delay
  stays below half a unit that is two hops for a unicast frame, and below a third, three
  for a multicast frame.  The height limit is ten.
- *Hash map.*  Four keys in a table of six with chains of two force growth both by
  fill and by collision, holes in front of a key, and wrapping probes.  The hash values
  0, 5, 6 and 17 are chosen so that the table of twelve, too, has a chain too many: the
  rehash into it is itself interrupted by a rehash.
- *Frames.*  Payloads of 0, 3, 60, 1280, 1503, 1504 and 1600 bytes are empty, below the size of a
  checksum, within a byte, beyond it, and beyond the room in a packet; one frame of 17
  subframes overruns the array; A-MSDUs of three subframes have a first, a
  middle and a last one with every padding that occurs.  A channel sequence of four
  entries stands for one of sixteen, since the loop treats them alike; heights of 0 and 300
  lie on both sides of the byte that election version 1 has for them.

The cfgs that say `CHECK_DEADLOCK FALSE` say why: the election loop ends, the clock ends
at its bound, and the transmit path comes to rest once AWDL is off, or when the bounded heap is used up.

## Fairness

- SyncTree: weak fairness of `Hear` on each link, since the PSF timer is periodic and
  not every frame of a device that stays in range is lost; weak fairness of
  `CleanPeers` with every peer that is gone, since the peer timer re-arms itself at the
  end of each run (`core.c:322`) and no peer stays in the table beyond the timeout.
- AwdlDisable (and `Fairness` of TxPath): strong fairness of the `esp_timer` task, since the WiFi task above it waits
  for work after every frame and the timer task then runs; weak fairness of a
  transmitter in the middle of `awdl_transmit`; strong fairness of the two timers and of the
  outcomes "now" and "something to send".  The schedule has a slot for every kind of frame in each
  cycle and the retry comes at once (the delay in seconds is passed as microseconds),
  so a suitable moment is met again and again.  For a unicast frame this is assumed only
  of a destination that is not `apart`: that is sent to, or, once it has left the
  table, its frame dropped.  Nothing makes a peer that is `apart` and stays in the table
  come to a common channel, so that its frame may wait for ever.  Once AWDL is disabled
  `running` is false and no frame is received (`capture.c:508`): the clean-up then removes
  every peer within the timeout, and from there a frame that is tried is dropped; this is the
  strong fairness of `Drop` in `NodeFairness`.  No fairness is assumed of the start of a transmission,
  none of `ChangeSequence`, and none of the console, which need never turn AWDL off.
- RxFrame: weak fairness of `Process`: the WiFi task has the highest priority and goes on
  with the frame it has begun.
- CertStore: weak fairness of each worker and requester in the middle of its work: the
  tasks are scheduled and the calls of the libraries return.  None of the start of a command
  or of a restart, so that no property rests on one.

## The proofs

TLAPS checks every theorem below for all values of the constants that satisfy the named
assumptions of the module, which restate what the code or its headers fix (distinct
addresses, a positive size, finite ranges).

| theorem | what it says | argument |
|---|---|---|
| `LoopTypeCorrect`, `LoopBestSoFar`, `LoopComputesElection`, `LoopTornAtMost` | for any table and order the candidate is always the best of those seen, and the loop computes `ElectionRun`; with frames between any two reads, a member of `TornRun` | `LoopInv`: the candidate is the node itself with nothing eligible seen, or a winner among those seen.  It needs `Beats` to be transitive and total on candidates, which are lemmas over the integers.  Under it lies what each test passed says of some version of the record, and each field copied. |
| `TreeTypeCorrect`, `TreeMasterIsReal`, `TreeDepthBounded`, `TreeOwnStars` | in a network of any size and topology claims are real, and trees without an external master are stars, until frames come in the middle of an election; heights are bounded by the limit and one for each time they do | `TreeInv`: every claim held or remembered is `Sound`.  The properties speak of states held; the strengthening adds the ones remembered, for a node adopts what a peer said some time ago. |
| `TreeGhostsOnlyRecede` | no step but a torn election brings a claim whose master is away, or never was, nearer to the root | `GhostStep`, by the same invariant: a new claim is one above a remembered one. |
| `BufferSound`, `BufferImplementsFifo` | the buffer is a queue for any size and data | `BufInv` ties the length to the indices and the flag; each call maps to one Fifo step or a stutter. |
| `TxTypeCorrect`, `TxNoLostWakeup` | for any number of tasks without a lock, indices stay in range and no frame is left without a timer | `WakeInv`: an occupied place has its timer armed, a task about to arm it, or the callback still to come to its test. |
| `NodeNoLostWakeup`, `NodeDeadTimersUnneeded` | for any number of tasks and any queue, the same while AWDL is turned off, and a timer is deleted only when nobody needs it | `NodeInv` adds `Quiet` to `WakeInv`: timers are deleted under an interface that is down, and then no task is inside `awdl_transmit`.  By `WakeInv` a timer found unarmed at that moment has no frame. |
| `NodeReachable`, `NodeOneOwner`, `NodeSomethingIsThere`, `NodeNoOverlap` | for any transmitting tasks, any queue size and any number of frames, a frame is in one place, in reach, and what a callback takes from the queue is a frame, until tasks overlap in `awdl_transmit`; with one task that the timer task cannot interrupt in a put (`Above = {w}`) they never do | `Owners`: which slots of the queue hold frames at each point of a put, of a get, and of a put inside a get, and that these slots, `next`, and the locals of the task and of the callback hold different frames.  The properties alone are not inductive: in the middle of a call the indices do not tell which slots are in use. |
| `PeerTypeCorrect`, `PeerNoUseAfterFree`, `PeerNoOrphan`, `PeerKnownAreRecent`, `PeerFollowsKnown` | for any peers, claims, frames, timeout and heap, until a put upsets the map | `PeerInv`: the map leads to allocated blocks, one each (`Mapped`); what the pointers of the two contexts lead to at each of their points (`Receiving`, `Cleaning`); what the election has left (`Followed`); and that a record is no older than the silence of its peer, with those the clean-up has been past below the timeout (`Timely`).  A frame may come between any two steps of the clean-up, also between the writes of a removal, so each part says what a frame cannot change. |
| `CertTypeCorrect`, `CertNobodyForgotten`, `CertBuffersBalanced` | the properties of the run, for any number of tasks and of generations | Each is inductive given those before it. |
| `ClockLagBounded`, `ClockMulticastMeets`, `ClockUnicastMeets`, `ClockSlotsInOrder` | in a tree of any size and depth errors do not build up and slots follow each other; frames that are sent are met between devices whose lag the guard makes up for | `ClockInv` states the clock of each device, and the one each frame under way carries, without wraps, as a difference to the root's; the modular counters of the code are then remainders of it.  `ClockAssumption` has what this needs of the constants: the words are multiples of the periods they count, and a window has room for both guards.  It does not bound the depth. |
| `MapWellFormed`, `MapEachOnce`, `MapImplementsKeyMap` | for any keys, hash values and sizes, `hashmap.c` implements the map of `hashmap.h`, at each step of a nested or failing rehash, under an iterator too | `MapInv`: every key is within its probe and in one place, `size` counts them; what is still to be put is not in the table and not twice on the stack (`Apart`); under an iterator each steady key keeps its place (`Iterating`).  The refinement takes the elements in the table and those still to be moved together, so that a rehash is a stutter. |
| `RxTypeCorrect`, `RxInStep`, `RxUnderstood`, `RxDelivered`, `RxOverrunOnlyBeyond`, `RxBlocksFreed` | the invariants of the run, for any stations and well-formed frames: TLVs in any order, repeated or not, of either make; any number of subframes of any length; every trailer | `RxInv`: the frame is one on the air, the view stands at the beginning of a part, packets are beginnings of the parts passed (`InvOut`), blocks are those of the point in the code (`InvLive`), and a record says what the TLVs passed so far tell, and keeps saying it when others follow (`InvKnown`).  Under it lies that places in a packed struct are sums of widths: one lemma per TLV says that a read at the literal offset of `rx.c` finds the field `tx.c` packed there, for a name and a channel sequence of any length. |
| `OwnFrameUnderstood` | the PSF and the MIF of `tx.c:274-313` satisfy what `RxAssumption` asks of an action frame, so the theorems above hold of a network of such nodes | The two frames, TLV by TLV. |

Some theorems hold up to an event that the code does not prevent, which is then part of
their statement: a put that upsets the map (PeerTable), an overlap in `awdl_transmit` and
an overrun of the queue (AwdlDisable), a torn election (SyncTree), the seventeenth packet
(RxFrame), a device further from the root than the guard reaches (SyncClock).  What comes
of each is among the findings.  PeerTable is of one core, and so are its proofs.

Only model-checked: the liveness properties (`GhostsVanish`, `Settles`,
`EveryFrameFreed`, `DisabledIsQuiet`, `FramesEnd`, `CommandsEnd`), which are outside
what the prover does.  No safety property of a passing run is without a theorem.  The
three properties that runs refute are not theorems, of course.

## Findings

1. `circular_buffer.c:36`: `get` clears `full` before it moves `tail`.  A `put` that
   preempts it there leaves `head = tail` with the flag clear: the queue seems empty
   (`tx_full`).  On the single core this takes nothing but the two priorities.
2. `election.c:88`: the comment promises more than the test does (`sync_tree_cycle`).
   The height limit ends such cycles, as `sync_tree` shows.
3. `circular_buffer.c:29`: a `put` moves `head` and then compares it with `tail`.  The
   `esp_timer` task can preempt the lwIP thread in between and take the frame: the
   empty queue is marked as full, and `awdl_send_multicast`, which finds it not empty
   (`core.c:394`, "we have something to send"), sends and frees what lies in a stale
   slot (`tx_lwip_thread`).  One task and one core suffice.

Seen and not made into a run:

- *Election.*  Between `election.c:82` and `113` the WiFi task may write to the winner's
  record, so a node can announce a height above the limit, or a master with another's
  rank, for one interval (`DepthBounded` and `MasterIsReal` count this as `torn`).
- *Peer table.*  A put of the WiFi task between `in_use = 0` and `data = NULL` or
  `key = NULL` (`hashmap.c:280-284`) takes a slot whose pointers are then cleared: its
  block is lost, and the next probe or iteration that meets the slot dereferences NULL.
  A rehash between `hashmap_it_next` and `hashmap_it_remove`, for which one full probe
  chain suffices (`hashmap.c:83-93`), can make the clean-up remove another peer and free
  the stale one under the table.  A `hashmap_put` that fails in a nested rehash has
  replaced the old table by then (`hashmap.c:112`, `126`): the elements not yet moved are
  lost, and the old table is not freed.  A peer updated between `peers.c:180` and `186` is
  removed although it is fresh, and is valid again after its next MIF.  The unsigned
  cutoff of `core.c:316` wraps in the first two seconds after boot, so every peer is
  stale; on two cores the clean-up can then remove a peer between `awdl_peer_add` and
  `awdl_peer_get`, which may be what the FIXME of `rx.c:294` is about.
- *Transmit path.*  With two transmitting tasks the test of `awdl.c:69` protects nothing
  and ownership is lost; what still holds for any number of them, `NoLostWakeup`, is
  proved.  A unicast frame for a peer without a common channel blocks `next` for as long
  as the peer is in the table, and the timer retries at once and without end
  (`schedule.c:77`, `core.c:383`).  `is_multicast` (`awdl.c:77`) is read uninitialised for
  unicast destinations; TxPath takes the value as arbitrary, and its properties hold for
  both.  A second `awdl disable` hands deleted timers to `esp_timer` again.
- *Receive path.*  The length of a packet is one byte (`rx.c:397`), so longer payloads are
  cut short although `rx.h:76` speaks of the converted Ethernet frame; a payload of more
  than 1503 bytes is not copied at all (`rx.c:399`), and lwIP gets uninitialised bytes of
  the heap; nothing stops the packets of one frame at the end of `data_arr` (`rx.c:401`,
  `capture.c:424`).  `buf_take` at `rx.c:388` takes four bytes from each subframe of an
  A-MSDU, and of its subframes only the first is delivered.  A repeated plain frame is
  dropped and a repeated QoS frame delivered again (`rx.c:471`).  A channel sequence that
  is refused (`rx.c:71-87`) ends the frame with the TLVs before it already stored.  The
  channels of a peer are read with the node's own encoding (`schedule.c:38`).
- *Clock.*  The guards make up for the lag of two or three hops, while the height limit
  allows ten: further down a frame may be sent in a slot its receiver is not in.
- *Certificate.*  `cert.c:274` reports success also after a store that failed; two
  generators at once (`ble`, then `drop cert gen`) can mix their pairs, and so can a
  restart between the two writes.  A worker that could not be created leaves the console
  waiting for ever (`cert.c:290`), and a printing task that cannot open the storage
  returns from its function (`cert.c:310`), which FreeRTOS answers with an abort.
- *Console.*  It works through a pointer to a local variable of `app_main` (`main.c:18`),
  which has returned by then.

## What is not modelled

Logging, formatting and diagnostics; checksums (HashMap takes the hash as arbitrary);
cryptography; drivers and the ESP-IDF libraries, of which a model contains what the
code relies on: `esp_timer_start_once` does nothing when the timer is armed, callbacks
run one at a time, tasks are preempted by priority.  The mDNS query task is never created; the request of the AirDrop client is a
blocking library call inside `https_request`, which CertStore has.  The console's line
editor and history belong to one task, and what is wrong there is a missing check on
one path (`uart.c:120`).  The neighbour list works on a copy of the wrong object
(`core.c:281`) and keeps no state.  The rest of the start-up is one task calling drivers
in a fixed order.  Leaks that are a single missing `free` on every path (`awdl.c:73`,
`election.c:72`, `command.c:68`) are listed as hazards without a property: no
interleaving is needed to see them.  Frames whose lengths do not agree with what they
enclose are not modelled, so that nothing is said of how the parsers end on them, and the clocks
of SyncClock run at the same rate.

What the models take from outside the repository, and why: lwIP hands no packet to an
interface that is down; `esp_timer_delete` refuses an armed timer; NVS may fail in any
call, reports a blob that no longer fits the buffer, keeps uncommitted blobs each for
itself over a restart or not, and invalidates its handles when it is erased; a task
function that returns aborts.  These are the documented behaviours of the libraries the
code calls; the definitions that stand for them alone are marked external in `PROJECT.json`.

## Plan

Done: AwdlElection, ElectionLoop and SyncTree; Fifo, CircularBuffer and TxPath;
PeerTable and SyncClock with their proofs; KeyMap and HashMap, with the proof that the one
implements the other; ActionFrame and RxFrame with the buffers
of the receive path, with their proofs; CertStore and AwdlDisable with their proofs.

Next, in order of importance:

1. PeerTable over HashMap instead of a function, so that the exact slots a rehash moves
   under the clean-up are known (`hashmap.c:112`); PeerTable lets them be any.
2. The two stores of `sync_update_last` taken apart (`sync.c:70`), with the callbacks
   that read them.
3. *LifeCycle*: the order of the start-up, and `running` read before it is set.
