---------------------------- MODULE ActionFrame ----------------------------
(***************************************************************************)
(* The frames a node builds (owl/tx.c).  An action frame is a sequence of  *)
(* TLVs whose values are the packed structs of owl/frame.h.  A struct is a *)
(* sequence of fields with a width in bytes; a field of one value that     *)
(* nothing reads has the value 0.                                          *)
(***************************************************************************)
EXTENDS Integers, Sequences, Functions

CONSTANTS
    SeqLength       \* AWDL_CHANSEQ_LENGTH

\* sizeof(struct tl)
TL == 3

ByteWord == 256

Field(width, is) == [width |-> width, is |-> is]

Widths(fields) == [i \in DOMAIN fields |-> fields[i].width]

Width(fields) == SumFunction(Widths(fields))

\* How many bytes of a packed struct come before each field, and before its end.
Place(fields) ==
    [i \in 1 .. Len(fields) + 1 |-> SumFunctionOnSet(Widths(fields), 1 .. i - 1)]

\* The fields with their places.
Packed(fields) ==
    LET at == Place(fields) IN
    [i \in DOMAIN fields |-> [at |-> at[i], width |-> fields[i].width, is |-> fields[i].is]]

\* Wrong on purpose: the length counts the header as well.
TlvCountsHeader(type, fields) ==
    [type |-> type, fields |-> Packed(fields), length |-> TL + Width(fields),
     size |-> TL + Width(fields)]

\* size is by how much the function that builds the TLV moves on.
Tlv(type, fields) ==
    [type |-> type, fields |-> Packed(fields), length |-> Width(fields),
     size |-> TL + Width(fields)]

\* awdl_chan_encoding_length
EncodingLength(enc) == IF enc = "simple" THEN 1 ELSE 2

\* The two bytes of fill_channel: repeat the current one.
FillChannel == 65535

\* awdl_init_chanseq copies as many of a channel's two bytes as the encoding has.
Chanseq(s) ==
    << Field(1, SeqLength - 1), Field(1, s.enc), Field(1, 0), Field(1, 3), Field(2, FillChannel) >>
    \o [i \in 1 .. SeqLength |->
          Field(EncodingLength(s.enc), SubSeq(s.sequence[i], 1, EncodingLength(s.enc)))]

SyncParamsTlv(s) ==
    Tlv("sync",
        << Field(1, 0), Field(2, s.tx_down_counter),   \* next_aw_channel
           Field(1, 0), Field(1, 0), Field(2, 0),      \* master_channel .. aw_period
           Field(2, 0), Field(2, 0), Field(2, 0),      \* af_period .. aw_ext_length
           Field(2, 0), Field(2, 0),                   \* aw_com_length, remaining_aw_length
           Field(1, 0), Field(1, 0), Field(1, 0), Field(1, 0),
           Field(6, s.election.master_addr),
           Field(1, 0), Field(1, 0),                   \* presence_mode, reserved
           Field(2, s.next_aw_seq), Field(2, s.next_aw_seq) >>
        \o Chanseq(s) \o << Field(1, 0), Field(1, 0) >>)

ChanseqTlv(s) ==
    Tlv("chanseq", Chanseq(s) \o << Field(1, 0), Field(1, 0), Field(1, 0) >>)

\* distancetop is a byte.
ElectionParamsTlv(s) ==
    Tlv("election",
        << Field(1, 0), Field(2, 0), Field(1, s.election.height % ByteWord), Field(1, 0),
           Field(6, s.election.master_addr), Field(4, s.election.master_metric),
           Field(4, s.election.self_metric), Field(2, 0) >>)

\* Wrong on purpose: the addresses are swapped.
ElectionParamsV2Swapped(s) ==
    Tlv("election_v2",
        << Field(6, s.election.sync_addr), Field(6, s.election.master_addr),
           Field(4, s.election.master_counter), Field(4, s.election.height),
           Field(4, s.election.master_metric), Field(4, s.election.self_metric),
           Field(4, 0), Field(4, 0), Field(4, s.election.self_counter) >>)

ElectionParamsV2Tlv(s) ==
    Tlv("election_v2",
        << Field(6, s.election.master_addr), Field(6, s.election.sync_addr),
           Field(4, s.election.master_counter), Field(4, s.election.height),
           Field(4, s.election.master_metric), Field(4, s.election.self_metric),
           Field(4, 0), Field(4, 0), Field(4, s.election.self_counter) >>)

ServiceParamsTlv == Tlv("service", << Field(3, 0), Field(2, 0), Field(4, 0) >>)

HtCapabilitiesTlv ==
    Tlv("ht", << Field(2, 0), Field(2, 0), Field(1, 0), Field(1, 0), Field(2, 0) >>)

\* 0x8f24: of the parts a parser knows, the country code, the social channels and
\* the address.
DataPathStateTlv(s) ==
    Tlv("data_path",
        << Field(2, {"country_code", "social", "awdl_addr"}),
           Field(3, s.country_code), Field(2, 0), Field(6, s.election.self_addr), Field(2, 0) >>)

\* The struct ends with the first byte of the name; a name of n bytes and two
\* bytes of suffix follow the two bytes in front of it.
ArpaTlv(s) ==
    LET n == s.name.length
        length == 3 + n + 1
    IN  [type |-> "arpa", length |-> length, size |-> TL + length,
         fields |-> Packed(<< Field(1, 3), Field(1, n % ByteWord), Field(n, s.name),
                              Field(2, 0) >>)]

VersionTlv(s) == Tlv("version", << Field(1, s.version), Field(1, s.devclass) >>)

\* The driver sets the retry flag when it repeats a frame.
AwdlHdr(kind, src, dst) == [kind |-> kind, retry |-> FALSE, from |-> src, to |-> dst]

\* PSF or MIF; nothing reads the two times.
InitAction(mif) == [mif |-> mif]

\* awdl_init_full_action_frame, from the TLVs on.
FullActionFrame(s, mif) ==
    << SyncParamsTlv(s), ElectionParamsTlv(s), ChanseqTlv(s), ElectionParamsV2Tlv(s),
       ServiceParamsTlv >>
    \o (IF mif THEN << HtCapabilitiesTlv, ArpaTlv(s) >> ELSE << >>)
    \o << DataPathStateTlv(s), VersionTlv(s) >>

-----------------------------------------------------------------------------
(* The data frames.                                                        *)

\* struct llc_hdr
LlcSize == Width(<< Field(1, 170), Field(1, 170), Field(1, 3), Field(3, 0), Field(2, 0) >>)

\* struct awdl_data
DataSize == Width(<< Field(2, 0), Field(2, 0), Field(2, 0), Field(2, 0) >>)

\* awdl_init_full_data_frame, behind the header: the one part of the frame.
FullDataFrame(src, payload) ==
    LET size == LlcSize + DataSize + payload
    IN  [src |-> src, llc |-> TRUE, payload |-> payload, length |-> size, size |-> size]
=============================================================================
