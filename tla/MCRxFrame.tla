----------------------------- MODULE MCRxFrame -----------------------------
(* Two devices that send all kinds of frames, and a third that sends none. *)
EXTENDS RxFrame, FiniteSetsExt, TLC

CONSTANTS
    a1, a2          \* address 1 runs this firmware, 2 is of another make

\* What the two devices announce.
State(s, height, enc, name) ==
    [ election |-> [ self_addr |-> s, master_addr |-> a2, sync_addr |-> a1, height |-> height,
                     master_metric |-> 501, self_metric |-> 61,
                     master_counter |-> 7, self_counter |-> 3 ],
      enc |-> enc,
      sequence |-> [i \in 1 .. SeqLength |->
                       IF enc = "legacy" THEN << 80 + i, 5 + i >> ELSE << 5 + i, 80 + i >>],
      name |-> name, country_code |-> "X0", infra_addr |-> None, chanseq |-> None,
      version |-> 52, devclass |-> 1, tx_down_counter |-> 9, next_aw_seq |-> 40 ]

Short == [length |-> 4, text |-> "test"]
Long == [length |-> 64, text |-> "long"]

\* What follows the TLVs: a checksum, the byte the ESP adds in its place, or a
\* checksum that happens to look like a TLV.
Trailer ==
    [t \in {"fcs", "esp", "other", "election", "sync", "version"} |->
        CASE t = "fcs" -> [size |-> 4, tlv |-> None]
          [] t = "esp" -> [size |-> 1, tlv |-> None]
          [] OTHER -> [size |-> 4, tlv |-> [type |-> t, fields |-> << >>, length |-> 1]]]

Action(s, tlvs, mif, v2, trailer) ==
    AwdlHdr("action", s.election.self_addr, "group") @@ InitAction(mif)
    @@ [parts |-> tlvs, v2 |-> v2, meant |-> s, trailer |-> Trailer[trailer]]

Own(height, name, mif, trailer) ==
    LET s == State(a1, height, "opclass", name)
    IN  Action(s, FullActionFrame(s, mif), mif, TRUE, trailer)

\* Of another make: version 1 alone, another encoding, or what this firmware does
\* not say of the network it is joined to.
Foreign1(trailer) ==
    LET s == State(a2, 300, "simple", Short)
    IN  Action(s, << ElectionParamsTlv(s), ArpaTlv(s), ChanseqTlv(s), SyncParamsTlv(s),
                     DataPathStateTlv(s), VersionTlv(s) >>, TRUE, FALSE, trailer)

Foreign2(trailer) ==
    LET s == [State(a2, 1, "legacy", Short) EXCEPT !.infra_addr = "infra"]
    IN  Action(s, << SyncParamsTlv(s), ElectionParamsV2Tlv(s), ChanseqTlv(s), InfraTlv(s),
                     VersionTlv(s) >>, FALSE, TRUE, trailer)

\* A configuration of the channel sequence that differs in one value.
OddChanseq(odd) ==
    [ count |-> IF odd = "count" THEN SeqLength ELSE SeqLength - 1,
      enc |-> IF odd = "enc" THEN "other" ELSE "opclass",
      duplicate_count |-> IF odd = "duplicate_count" THEN 1 ELSE 0,
      step_count |-> IF odd = "step_count" THEN PresenceMode ELSE PresenceMode - 1,
      fill_channel |-> IF odd = "fill_channel" THEN 0 ELSE FillChannel,
      size |-> 2 * SeqLength + 3 ]

Foreign3(odd) ==
    LET s == [State(a2, 2, "opclass", Short) EXCEPT !.chanseq = OddChanseq(odd)]
    IN  Action(s, << SyncParamsTlv(s), VersionTlv(s), OddChanseqTlv(s.chanseq),
                     ElectionParamsV2Tlv(s), DataPathStateTlv(s) >>, FALSE, TRUE, "fcs")

-----------------------------------------------------------------------------
Plain(llc, payload) == [FullDataFrame(a1, payload) EXCEPT !.llc = llc]

\* A subframe that is not the last is padded to a multiple of four bytes.
Sub(src, llc, payload, last) ==
    LET size == SubHeaderSize + LlcSize + DataSize + payload
        pad == IF last THEN 0 ELSE (4 - (size % 4)) % 4
    IN  [FullDataFrame(src, payload) EXCEPT !.llc = llc, !.size = size + pad]

Data(kind, retry, to, parts) ==
    [AwdlHdr(kind, a1, to) EXCEPT !.retry = retry]
    @@ [mif |-> FALSE, v2 |-> FALSE, meant |-> None, parts |-> parts, trailer |-> Trailer["fcs"]]

\* The frames by name: a name is what the frames of one kind differ in.
Name ==
    ({"own"} \X {0, 300} \X BOOLEAN \X DOMAIN Trailer)
    \cup ({"foreign1", "foreign2"} \X DOMAIN Trailer)
    \cup ({"filtered"} \X {"data", "qos", "other"} \X {"self", "group", "other"} \X BOOLEAN \X {60})
    \cup ({"foreign3"} \X {"count", "enc", "duplicate_count", "step_count", "fill_channel"})
    \cup ({"plain"} \X {0, 3, 60, 1280, 1503, 1504} \X BOOLEAN)
    \cup ({"amsdu"} \X Station \X {0, 3, 60, 1280, 1600} \X {0, 3} \X BOOLEAN \X {60})
    \cup ({"long"} \X Station \X {MaxOut, MaxOut + 1})

Frame(n) ==
    CASE n[1] = "own" -> Own(n[2], IF n[2] = 0 THEN Short ELSE Long, n[3], n[4])
      [] n[1] = "foreign1" -> Foreign1(n[2])
      [] n[1] = "foreign2" -> Foreign2(n[2])
      [] n[1] = "foreign3" -> Foreign3(n[2])
      [] n[1] = "filtered" -> Data(n[2], n[4], n[3], << Plain(TRUE, n[5]) >>)
      [] n[1] = "plain" -> Data("data", FALSE, "self", << Plain(n[3], n[2]) >>)
      [] n[1] = "amsdu" -> Data("amsdu", FALSE, "self",
            << Sub(n[2], TRUE, n[3], FALSE), Sub(a1, n[5], n[4], FALSE),
               Sub(a2, TRUE, n[6], TRUE) >>)
      [] n[1] = "long" -> Data("amsdu", FALSE, "self",
            [i \in 1 .. n[3] |-> Sub(IF i = 2 THEN n[2] ELSE a1, TRUE, 0, i = n[3])])

MCFrames == FoldSet(LAMBDA n, frames : Append(frames, Frame(n)), << >>, Name)
=============================================================================
