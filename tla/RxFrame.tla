------------------------------- MODULE RxFrame -------------------------------
(***************************************************************************)
(* The reception of one frame after another in the WiFi task: the filters  *)
(* of awdl_rx (owl/rx.c), the loop over the TLVs of an action frame, the   *)
(* loop over the subframes of an A-MSDU, and the delivery to lwIP at the   *)
(* end of awdl_receive_frame (wifi/capture.c).                             *)
(*                                                                         *)
(* A frame is a sequence of parts, TLVs or subframes, and a trailer.  The  *)
(* view is the struct buf of the loop: how many bytes it has stripped and  *)
(* how many are left.  The parser knows only the view; that it stands      *)
(* where the sender began a part is a property and not assumed.  Nothing   *)
(* interrupts the task here: PeerTable has the interleavings.  The frames  *)
(* are those that passed wifi_sniffer_packet_handler, with whole headers   *)
(* and lengths that agree with what they enclose; how many subframes there *)
(* are and how long a payload is, nobody limits.                           *)
(***************************************************************************)
EXTENDS ActionFrame, FiniteSets

CONSTANTS
    Self,           \* state->self_address
    Master,         \* state->election.sync_addr
    Station,        \* the devices that send
    Frames,         \* the frames they send: a sequence
    HostNameMax,    \* HOST_NAME_LENGTH_MAX
    EtherMax,       \* ETHER_MAX_LEN
    MaxOut,         \* MAX_NUM_AMPDU
    None            \* no record, no packet

\* Of another make: a device joined to the network `infra_addr`, which says so.
InfraTlv(s) ==
    Tlv("data_path",
        << Field(2, {"country_code", "social", "infra_info", "infra_addr", "awdl_addr"}),
           Field(3, s.country_code), Field(2, 0), Field(6, 0), Field(2, 0),
           Field(6, s.infra_addr), Field(6, s.election.self_addr), Field(2, 0) >>)

\* Of another make: a channel sequence c of a configuration the firmware does not know.
OddChanseqTlv(c) ==
    Tlv("chanseq",
        << Field(1, c.count), Field(1, c.enc), Field(1, c.duplicate_count),
           Field(1, c.step_count), Field(2, c.fill_channel), Field(c.size, 0) >>)

\* The TLV of each type of a device that announces s.
TlvOf(s, type) ==
    CASE type = "sync" -> SyncParamsTlv(s)
      [] type = "election" -> ElectionParamsTlv(s)
      [] type = "chanseq" -> IF s.chanseq = None THEN ChanseqTlv(s) ELSE OddChanseqTlv(s.chanseq)
      [] type = "election_v2" -> ElectionParamsV2Tlv(s)
      [] type = "service" -> ServiceParamsTlv
      [] type = "ht" -> HtCapabilitiesTlv
      [] type = "arpa" -> ArpaTlv(s)
      [] type = "data_path" -> IF s.infra_addr = None THEN DataPathStateTlv(s) ELSE InfraTlv(s)
      [] type = "version" -> VersionTlv(s)

TlvTypes == { "sync", "election", "chanseq", "election_v2", "service", "ht", "arpa",
              "data_path", "version" }

Has(parts, type) == \E i \in DOMAIN parts : parts[i].type = type

\* awdl_chan_encoding_size; any other encoding is unknown.
EncodingSize(enc) == CASE enc = "simple" -> 1
                       [] enc \in { "legacy", "opclass" } -> 2
                       [] OTHER -> -1

\* state->sync.presence_mode
PresenceMode == 4

\* The sanity check of awdl_handle_chanseq_tlv: no other configuration is supported.
Sane(count, enc, duplicate_count, step_count, fill_channel) ==
    /\ count + 1 = SeqLength
    /\ duplicate_count = 0
    /\ step_count + 1 = PresenceMode
    /\ fill_channel = FillChannel
    /\ EncodingSize(enc) >= 1

\* What a device may announce of itself.
Announceable(s) ==
    /\ s.election = [ self_addr |-> s.election.self_addr,
                      master_addr |-> s.election.master_addr,
                      sync_addr |-> s.election.sync_addr,
                      height |-> s.election.height,
                      master_metric |-> s.election.master_metric,
                      self_metric |-> s.election.self_metric,
                      master_counter |-> s.election.master_counter,
                      self_counter |-> s.election.self_counter ]
    /\ s.enc \in { "simple", "legacy", "opclass" }
    /\ \A i \in 1 .. SeqLength : s.sequence[i] = << s.sequence[i][1], s.sequence[i][2] >>
    /\ s.chanseq # None =>
          LET c == s.chanseq IN
          /\ ~Sane(c.count, c.enc, c.duplicate_count, c.step_count, c.fill_channel)
          /\ c.size \in Nat \ {0}
    /\ s.name.length \in 0 .. HostNameMax
    /\ s.version # 0 /\ s.devclass # 0

\* An action frame has the TLVs of one device, in any order.
ActionFrameOf(f) ==
    /\ Announceable(f.meant)
    /\ f.meant.election.self_addr = f.from
    /\ \A i \in DOMAIN f.parts : /\ f.parts[i].type \in TlvTypes
                                 /\ f.parts[i] = TlvOf(f.meant, f.parts[i].type)
    /\ \A type \in { "sync", "chanseq", "data_path", "version" } : Has(f.parts, type)
    /\ IF f.v2 THEN Has(f.parts, "election_v2")
       ELSE Has(f.parts, "election") /\ ~Has(f.parts, "election_v2")
    /\ f.mif => Has(f.parts, "arpa")

SubHeaderSize == 14
FcsSize == 4

Padding(len) == (4 - ((SubHeaderSize + len) % 4)) % 4

\* Two addresses, a type and the length come before the payload of a packet.
PacketHeader == 6 + 6 + 2 + 1

\* The length of a subframe has two bytes.
SubLengthWord == 65536

\* A data frame has one part, an A-MSDU subframes that are padded, but for the last.
DataFrameOf(f) ==
    /\ f.trailer.size = FcsSize
    /\ \A i \in DOMAIN f.parts : LET p == f.parts[i] IN
          /\ p.payload \in Nat
          /\ p.length = LlcSize + DataSize + p.payload
          /\ f.kind = "amsdu" => p.length < SubLengthWord
          /\ p.llc \in BOOLEAN
          /\ p.src \in Station
          /\ p.size = IF f.kind # "amsdu" THEN p.length
                      ELSE SubHeaderSize + p.length
                           + IF i = Len(f.parts) THEN 0 ELSE Padding(p.length)
    /\ f.kind # "amsdu" => Len(f.parts) = 1 /\ f.parts[1].src = f.from

\* What follows the parts: a checksum, the byte the ESP adds in its place, or a
\* checksum that happens to look like a TLV.
TrailerOf(t) ==
    /\ t.size \in { 1, FcsSize }
    /\ t.tlv # None => /\ t.tlv.fields = << >>
                       /\ t.tlv.length \in Nat
                       /\ TL + t.tlv.length <= t.size

\* A frame is for this node, for a group of nodes, or for another node.
ASSUME RxAssumption ==
    /\ SeqLength \in Nat
    /\ HostNameMax \in 0 .. ByteWord - 1
    /\ EtherMax \in Nat /\ MaxOut \in Nat \ {0}
    /\ Self \notin Station
    /\ Master \in Station \cup {Self}
    /\ None \notin Station \cup [ part : Nat, len : 0 .. ByteWord - 1, copied : BOOLEAN ]
    /\ \A n \in DOMAIN Frames : LET f == Frames[n] IN
          /\ f # None
          /\ f.kind \in {"action", "data", "qos", "amsdu", "other"}
          /\ f.from \in Station \cup {Self}
          /\ f.to \in {"self", "group", "other"}
          /\ f.retry \in BOOLEAN /\ f.mif \in BOOLEAN
          /\ f.parts \in Seq({ f.parts[i] : i \in DOMAIN f.parts })
          /\ f.parts # << >>
          /\ TrailerOf(f.trailer)
          /\ IF f.kind = "action" THEN ActionFrameOf(f) ELSE DataFrameOf(f)

VARIABLES
    pc,             \* where awdl_receive_frame is
    frame,          \* the frame it works on, or None
    start,          \* where the parts of the frame begin, and where the last ends
    stripped,       \* the view: the bytes stripped at the front
    left,           \* and those left
    peer,           \* peer[s]: what is known of s, or None
    sync,           \* the last pair of fields the node has synchronised to
    out,            \* data_arr, up to data
    netif,          \* whether the interface AWDL_DEF exists
    packet,         \* what the last frame has delivered
    result,         \* what awdl_rx has returned
    live            \* the struct bufs allocated for the frame and not yet freed

vars == << pc, frame, start, stripped, left, peer, sync, out, netif, packet, result, live >>

\* The frames on the air, with the places of their parts.
OnAir ==
    [n \in DOMAIN Frames |->
        [frame |-> Frames[n],
         start |-> Place([i \in DOMAIN Frames[n].parts |->
                             Field(Frames[n].parts[i].size, 0)])]]

End == start[Len(start)]

\* The part that begins where the view does; a parser elsewhere reads bytes of others.
PartHere == { i \in DOMAIN frame.parts : start[i] = stripped }

\* awdl_peer_new.  It leaves infra_addr as the heap had it; None stands for that.
NewPeer(s) ==
    [ election |-> [ self_addr |-> s, master_addr |-> s, sync_addr |-> s, height |-> 0,
                     master_metric |-> 60, self_metric |-> 60,
                     master_counter |-> 0, self_counter |-> 0 ],
      sequence |-> [i \in 1 .. SeqLength |-> << 0, 0 >>],
      name |-> None, country_code |-> "NA", infra_addr |-> None,
      version |-> 0, devclass |-> 0,
      supports_v2 |-> FALSE, sent_mif |-> FALSE, is_valid |-> FALSE ]

Init ==
    /\ pc = "idle"
    /\ frame = None
    /\ start = << >>
    /\ stripped = 0
    /\ left = 0
    /\ peer = [s \in Station |-> None]
    /\ sync = None
    /\ out = << >>
    /\ netif = FALSE
    /\ packet = None
    /\ result = "ok"
    /\ live = {}

-----------------------------------------------------------------------------
(* awdl_rx: the filters.                                                   *)

\* The retry flag is part of the type: only a QoS frame may have it.
Kind(f) ==
    CASE f.kind = "action" /\ ~f.retry -> "action"
      [] f.kind = "data" /\ ~f.retry -> "data"
      [] f.kind = "qos" -> "data"
      [] f.kind = "amsdu" -> "amsdu"
      [] OTHER -> "unexpected"

Refusal(f) ==
    CASE f.from = Self -> "ignore_from_self"
      [] f.from # Self /\ f.to = "other" -> "ignore_nopromisc"
      [] f.from # Self /\ f.to # "other" /\ Kind(f) = "unexpected" -> "unexpected_type"
      [] OTHER -> "none"

\* The blocks: the view of the frame, that of a subframe, and data_arr[i - 1].
TheFrame == << "frame", 0 >>
TheSubframe == << "subframe", 0 >>
TheData(i) == << "data", i >>

Receive(n) ==
    /\ pc = "idle"
    /\ \E air \in { OnAir[n] } :
          /\ frame' = air.frame
          /\ start' = air.start
    /\ out' = << >>
    /\ packet' = None
    /\ stripped' = 0
    /\ left' = End' + frame'.trailer.size
    /\ live' = {TheFrame}
    /\ LET refusal == Refusal(frame') IN
       /\ pc' = IF refusal = "none" THEN Kind(frame') ELSE "deliver"
       /\ result' = refusal
    /\ UNCHANGED << peer, sync, netif >>

Return(r) == pc' = "deliver" /\ result' = r

Strip(n) == stripped' = stripped + n /\ left' = left - n

-----------------------------------------------------------------------------
(* awdl_rx_action.                                                         *)

\* The result of READ_x(val, at, ...), for a read inside the value.
Read(t, at, width) ==
    LET found == { i \in DOMAIN t.fields : t.fields[i].at = at /\ t.fields[i].width = width }
    IN  IF found = {} THEN "garbage" ELSE t.fields[CHOOSE i \in found : TRUE].is

\* A string is cut to the room there is for it.
ReadIntString(t, at, max) ==
    LET n == Read(t, at, 1)
        s == Read(t, at + 1, n)
    IN  IF n > max THEN [s EXCEPT !.length = max] ELSE s

\* What awdl_handle_chanseq_tlv reads before the list of channels.
SaneChanseq(t) ==
    Sane(Read(t, 0, 1), Read(t, 1, 1), Read(t, 2, 1), Read(t, 3, 1), Read(t, 4, 2))

\* The second byte of a channel of one byte is whatever was on the stack, and nothing
\* depends on it: 0 stands for it.
HandleChanseq(p, t) ==
    LET size == EncodingSize(Read(t, 1, 1)) IN
    [p EXCEPT !.sequence =
        [i \in 1 .. SeqLength |->
            LET c == Read(t, 6 + size * (i - 1), size)
            IN  IF size = 1 THEN << c[1], 0 >> ELSE c]]

HandleElectionParams(p, t) ==
    IF p.supports_v2 THEN p
    ELSE [p EXCEPT !.election.height = Read(t, 3, 1),
                   !.election.master_addr = Read(t, 5, 6),
                   !.election.master_metric = Read(t, 11, 4),
                   !.election.self_metric = Read(t, 15, 4)]

HandleElectionParamsV2(p, t) ==
    [p EXCEPT !.election = [ @ EXCEPT !.height = Read(t, 16, 4),
                                      !.master_addr = Read(t, 0, 6),
                                      !.sync_addr = Read(t, 6, 6),
                                      !.master_counter = Read(t, 12, 4),
                                      !.master_metric = Read(t, 20, 4),
                                      !.self_metric = Read(t, 24, 4),
                                      !.self_counter = Read(t, 36, 4) ],
              !.supports_v2 = TRUE]

\* The parts of the data path state are there only if their flags are.
InfraAddrPlace(flags) ==
    2 + (IF "country_code" \in flags THEN 3 ELSE 0)
      + (IF "social" \in flags THEN 2 ELSE 0)
      + (IF "infra_info" \in flags THEN 8 ELSE 0)

HandleDataPathState(p, t) ==
    LET flags == Read(t, 0, 2) IN
    [p EXCEPT !.country_code =
                  IF "country_code" \in flags THEN Read(t, 2, 3) ELSE @,
              !.infra_addr =
                  IF "infra_addr" \in flags
                  THEN Read(t, InfraAddrPlace(flags), 6) ELSE @]

\* awdl_handle_tlv: what a complete TLV writes to the record of its sender.
Written(p, t) ==
    CASE t.type = "chanseq" -> HandleChanseq(p, t)
      [] t.type = "election" -> HandleElectionParams(p, t)
      [] t.type = "election_v2" -> HandleElectionParamsV2(p, t)
      [] t.type = "arpa" -> [p EXCEPT !.name = ReadIntString(t, 1, HostNameMax)]
      [] t.type = "data_path" -> HandleDataPathState(p, t)
      [] t.type = "version" -> [p EXCEPT !.version = Read(t, 0, 1), !.devclass = Read(t, 1, 1)]
      [] OTHER -> p

\* A handler's result is negative.  A checksum can look like a TLV with a value of at
\* most one byte: none of the handlers that read it finds what it needs.  And a channel
\* sequence may be of another configuration.  Nothing is written before that.
Fails(p, t) ==
    \/ /\ t.fields = << >>
       /\ \/ t.type \in {"chanseq", "election_v2", "arpa", "data_path", "version"}
          \/ t.type = "election" /\ ~p.supports_v2
          \/ t.type = "sync" /\ frame.from = Master
    \/ t.fields # << >> /\ t.type = "chanseq" /\ ~SaneChanseq(t)

\* The end of awdl_peer_add.
Updated(p) ==
    [p EXCEPT !.is_valid = @ \/ (p.sent_mif /\ p.version # 0 /\ p.devclass # 0)]

\* awdl_peer_add and awdl_peer_get, before the TLVs.
FirstAdd ==
    /\ pc = "action"
    /\ peer' = [peer EXCEPT ![frame.from] =
                  Updated(IF @ = None THEN NewPeer(frame.from) ELSE @)]
    /\ pc' = "tlvs"
    /\ UNCHANGED << frame, start, stripped, left, sync, out, netif, packet, result, live >>

\* What read_tlv can find at the front of the view: a TLV the sender began there, or
\* a checksum that looks like one.  A parser that stands elsewhere has gone astray.
FrontTlv ==
    { frame.parts[i] : i \in PartHere }
    \cup { t \in {frame.trailer.tlv} : stripped = End /\ t # None }

Complete(t) == TL + t.length <= left

\* Wrong on purpose: the loop looks at the same TLV again.
StripTlvNot(t) == UNCHANGED << stripped, left >>

StripTlv(t) == Strip(TL + t.length)

HandleTlv ==
    /\ pc = "tlvs"
    /\ \E t \in FrontTlv :
          /\ Complete(t)
          /\ IF Fails(peer[frame.from], t)
             THEN Return("unexpected_format") /\ UNCHANGED << peer, sync, stripped, left >>
             ELSE /\ StripTlv(t)
                  /\ peer' = [peer EXCEPT ![frame.from] = Written(@, t)]
                  /\ sync' = IF t.type = "sync" /\ frame.from = Master
                             THEN << Read(t, 1, 2), Read(t, 29, 2) >> ELSE sync
                  /\ UNCHANGED << pc, result >>
    /\ UNCHANGED << frame, start, out, netif, packet, live >>

\* read_tlv finds none: only a checksum or the byte the ESP adds may be left.
EndOfTlvs ==
    /\ pc = "tlvs"
    /\ ~\E t \in FrontTlv : Complete(t)
    /\ IF left > 4
       THEN Return("unexpected_format") /\ UNCHANGED peer
       ELSE /\ Return("ok")
            /\ LET p == peer[frame.from]
               IN  peer' = [peer EXCEPT ![frame.from] =
                              Updated([p EXCEPT !.sent_mif = p.sent_mif \/ frame.mif])]
    /\ UNCHANGED << frame, start, stripped, left, sync, out, netif, packet, live >>

-----------------------------------------------------------------------------
(* awdl_rx_data and awdl_rx_data_amsdu.                                    *)

\* Wrong on purpose: the checksum is left in place.
KeptWithFcs(n) == n - LlcSize - DataSize

\* What awdl_rx_data makes of n bytes: the bytes it keeps are those after the two
\* headers, without the last four.
Kept(n) ==
    LET payload == n - LlcSize - DataSize IN
    IF payload >= FcsSize THEN payload - FcsSize ELSE payload

DataResult(i, n) ==
    LET p == frame.parts[i] IN
    CASE peer[p.src] = None -> "ignore_peer"
      [] peer[p.src] # None /\ (n < LlcSize \/ ~p.llc) -> "unexpected_format"
      [] peer[p.src] # None /\ n >= LlcSize /\ p.llc /\ n < LlcSize + DataSize -> "too_short"
      [] OTHER -> "ok"

\* A payload that has no room behind the header is not copied (wire.c:134): the packet
\* is what malloc has left there.
Copied(n) == PacketHeader + Kept(n) <= EtherMax

\* Wrong on purpose: the length is as wide as it should be.
PacketWide(i, n) ==
    [ part |-> i, len |-> Kept(n), copied |-> Copied(n) ]

\* The length of a packet is a byte.
Packet(i, n) ==
    [ part |-> i, len |-> Kept(n) % ByteWord, copied |-> Copied(n) ]

RxData ==
    /\ pc = "data"
    /\ LET r == DataResult(1, left) IN
       /\ Return(r)
       /\ out' = IF r = "ok" THEN << Packet(1, left) >> ELSE out
       /\ live' = IF r = "ok" THEN live \cup {TheData(1)} ELSE live
    /\ UNCHANGED << frame, start, stripped, left, peer, sync, netif, packet >>

\* Wrong on purpose: the view of a subframe is freed at the end of a good round.
SubframeFreedLast(blocks, r) ==
    IF r \in {"unexpected_format", "too_short"} THEN blocks ELSE blocks \ {TheSubframe}

\* The view of a subframe is freed before the result is looked at.
SubframeFreed(blocks, r) == blocks \ {TheSubframe}

\* Wrong on purpose: a subframe from a stranger takes an entry as well.
StoredAnyway(r) == r \in {"ok", "ignore_peer"}

\* The results with which awdl_rx_data has stored a packet and moved on in data_arr.
Stored(r) == r = "ok"

\* One round of the loop over the subframes.  Nothing compares `out` with the end of
\* data_arr: one packet more is written over the stack of awdl_receive_frame, and what
\* the task does after that the model does not say.
Subframe ==
    /\ pc = "amsdu"
    /\ left >= SubHeaderSize
    /\ \E i \in PartHere :
          LET n == frame.parts[i].length
              r == DataResult(i, n)
              rest == left - SubHeaderSize - n
          IN  IF rest < 0
              THEN Return("too_short") /\ UNCHANGED << out, stripped, left, live >>
              ELSE IF Stored(r) /\ Len(out) = MaxOut
              THEN pc' = "overrun" /\ UNCHANGED << out, stripped, left, result, live >>
              ELSE /\ out' = IF Stored(r) THEN Append(out, Packet(i, n)) ELSE out
                   /\ live' = SubframeFreed(live \cup {TheSubframe}
                                 \cup { TheData(j) : j \in DOMAIN out' }, r)
                   /\ IF r \in {"unexpected_format", "too_short"}
                      THEN Return(r) /\ UNCHANGED << stripped, left >>
                      ELSE IF rest > 0 /\ Padding(n) > rest
                      THEN Return("too_short") /\ UNCHANGED << stripped, left >>
                      ELSE /\ Strip(SubHeaderSize + n + IF rest > 0 THEN Padding(n) ELSE 0)
                           /\ UNCHANGED << pc, result >>
    /\ UNCHANGED << frame, start, peer, sync, netif, packet >>

EndOfSubframes ==
    /\ pc = "amsdu"
    /\ left < SubHeaderSize
    /\ Return(IF left = 0 THEN "ok" ELSE "too_short")
    /\ UNCHANGED << frame, start, stripped, left, peer, sync, out, netif, packet, live >>

-----------------------------------------------------------------------------
(* The end of awdl_receive_frame, and awdl_netif_input.                    *)

Deliver ==
    /\ pc = "deliver"
    /\ packet' = IF out # << >> /\ netif THEN Head(out) ELSE None
    /\ live' = live \ IF netif THEN {TheFrame, TheData(1)} ELSE {TheFrame}
    /\ pc' = "done"
    /\ UNCHANGED << frame, start, stripped, left, peer, sync, out, netif, result >>

Done ==
    /\ pc = "done"
    /\ pc' = "idle"
    /\ frame' = None
    /\ start' = << >>
    /\ stripped' = 0
    /\ left' = 0
    /\ out' = << >>
    /\ packet' = None
    /\ live' = {}
    /\ UNCHANGED << peer, sync, netif, result >>

\* A stack that has been written over.
Overrun == pc = "overrun" /\ UNCHANGED vars

\* The interface is made after the reception has begun (capture.c:312, 324).
CreateNetif ==
    /\ pc = "idle"
    /\ ~netif
    /\ netif' = TRUE
    /\ UNCHANGED << pc, frame, start, stripped, left, peer, sync, out, packet, result, live >>

\* The clean-up removes a peer that has been silent.
Forget(s) ==
    /\ pc = "idle"
    /\ peer[s] # None
    /\ peer' = [peer EXCEPT ![s] = None]
    /\ UNCHANGED << pc, frame, start, stripped, left, sync, out, netif, packet, result, live >>

Process ==
    \/ FirstAdd \/ HandleTlv \/ EndOfTlvs
    \/ RxData \/ Subframe \/ EndOfSubframes
    \/ Deliver \/ Done

Next ==
    \/ \E n \in DOMAIN OnAir : Receive(n)
    \/ Process
    \/ Overrun
    \/ CreateNetif
    \/ \E s \in Station : Forget(s)

\* The task has the highest priority and finishes what it has begun.
Spec == Init /\ [][Next]_vars /\ WF_vars(Process)

-----------------------------------------------------------------------------
\* Type invariant.
TypeOK ==
    /\ pc \in {"idle", "action", "tlvs", "data", "amsdu", "overrun", "deliver", "done"}
    /\ pc # "idle" <=> frame # None
    /\ stripped \in Nat /\ left \in Nat
    /\ \A s \in Station : peer[s] # None => peer[s].election.self_addr = s
    /\ \A i \in DOMAIN out : out[i].len \in 0 .. ByteWord - 1
    /\ netif \in BOOLEAN
    /\ live \subseteq {TheFrame, TheSubframe} \cup { TheData(i) : i \in 1 .. MaxOut }

\* Each round of the two loops (rx.c:299 and rx.c:409) begins where the sender has
\* begun a TLV or a subframe, or behind the last of them: the lengths in the frame
\* (tx.c), the paddings and what the loops strip agree over the whole frame.
InStep ==
    /\ pc = "tlvs" => \/ PartHere # {}
                      \/ stripped = End
                      \/ stripped > End /\ frame.trailer.tlv # None
    /\ pc = "amsdu" /\ left >= SubHeaderSize => PartHere # {}

\* awdl_chan_num
ChanNum(c, enc) == IF enc = "legacy" THEN c[2] ELSE c[1]

\* What a device announces, its peers know once they have been through its frame
\* (tx.c:103-272 against rx.c:31-201): each literal offset of the parsers is where
\* the packed struct has the field, whichever TLVs the frame carries.  A device that
\* speaks only version 1 is known by what version 1 tells, its height by a byte.
\* The channels are read with the node's own encoding (schedule.c:37), and those of
\* the legacy encoding are not understood.  A frame with a channel sequence of another
\* configuration (rx.c:70) is never accepted, although what came before it is stored.
Understood ==
    pc = "done" /\ frame.kind = "action" /\ result \in {"ok", "unexpected_format"} =>
        LET p == peer[frame.from]
            s == frame.meant
        IN  IF s.chanseq # None THEN result # "ok" ELSE
            /\ frame.v2 => p.supports_v2 /\ p.election = s.election
            /\ ~p.supports_v2 =>
                  /\ p.election.height = s.election.height % ByteWord
                  /\ p.election.master_addr = s.election.master_addr
                  /\ p.election.master_metric = s.election.master_metric
            /\ s.enc # "legacy" =>
                  \A i \in 1 .. SeqLength :
                      ChanNum(p.sequence[i], "opclass") = ChanNum(s.sequence[i], s.enc)
            /\ p.country_code = s.country_code
            /\ s.infra_addr # None => p.infra_addr = s.infra_addr
            /\ p.version = s.version /\ p.devclass = s.devclass
            /\ frame.mif => p.name = s.name
            /\ frame.mif /\ result = "ok" => p.is_valid
            /\ frame.from = Master => sync = << s.tx_down_counter, s.next_aw_seq >>

\* rx.h:76 promises the converted frame.  What reaches lwIP (capture.c:446-466) is of
\* one part from a peer the node knows, and no longer than its payload; bytes that are
\* not of it are delivered only where the payload has no room in a packet.  Of a frame
\* that is not an A-MSDU it is exactly the first payload % 256 bytes (rx.c:397), so all
\* of a payload below 256 bytes, none of it dropped but its checksum; above, the rest is
\* lost, and of one beyond 1503 bytes everything (rx.c:399).
Delivered ==
    pc = "done" =>
        /\ packet # None =>
              LET p == frame.parts[packet.part] IN
              /\ peer[p.src] # None
              /\ packet.len <= p.payload
              /\ packet.copied \/ PacketHeader + p.payload > EtherMax
        /\ /\ Refusal(frame) = "none" /\ Kind(frame) = "data" /\ netif
           /\ peer[frame.from] # None /\ frame.parts[1].llc
           => LET payload == frame.parts[1].payload IN
              /\ packet # None
              /\ packet.len = payload % ByteWord
              /\ packet.copied <=> PacketHeader + payload <= EtherMax

\* The subframes of the frame at hand that make a packet.
Welcome == { i \in DOMAIN frame.parts : peer[frame.parts[i].src] # None /\ frame.parts[i].llc }

\* data_arr (capture.c:424) is written past its end only by a frame that has more than
\* MAX_NUM_AMPDU subframes from peers the node knows: one entry is taken for each of
\* them and none for a subframe that is ignored (rx.c:373, 401).
OverrunOnlyBeyond == pc = "overrun" => Cardinality(Welcome) > MaxOut

\* The packet that is delivered is read from a block that is still allocated, and
\* whichever way a frame is left every block made for it has been freed, but for the
\* packets after the first (capture.c:446) and, without an interface, the first one
\* as well (capture.c:458).
BlocksFreed ==
    /\ pc = "deliver" /\ out # << >> => TheData(1) \in live
    /\ pc = "done" =>
          live = { TheData(i) : i \in { j \in DOMAIN out : j > 1 \/ packet = None } }

\* The loops over TLVs and subframes end (rx.c:299, 409) for every frame whose lengths
\* agree with what they enclose: the task is ready for the next frame, unless this one
\* has run over data_arr.
FramesEnd == pc # "idle" ~> pc \in {"idle", "overrun"}
=============================================================================
