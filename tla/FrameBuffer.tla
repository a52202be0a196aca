---------------------------- MODULE FrameBuffer ----------------------------
(***************************************************************************)
(* The bytes of a frame: how an uplink is put together in tx_buf out of a  *)
(* payload in several parts, how long it is on the air, and how the        *)
(* commands of a downlink are read.                                        *)
(*                                                                         *)
(* The two loops of the code, over the parts of a payload and over the     *)
(* options of a frame, are taken step by step; while one runs no other     *)
(* handler does.  Of the bytes only places and lengths are kept.  How a    *)
(* payload is cut into parts is found out as the loop goes.                *)
(***************************************************************************)
EXTENDS DataRates

CONSTANTS
    PayloadSizes,            \* bytes of a payload
    PartSizes,               \* bytes of a part that is not the rest of a payload
    FoptsSizes, BodySizes    \* of a downlink: bytes of options; bytes between them and the MIC

ASSUME SizesAssumption ==
    /\ PayloadSizes \subseteq Nat /\ PartSizes \subseteq Nat
    /\ FoptsSizes \subseteq 0 .. 15 /\ BodySizes \subseteq 0 .. 243

HDR_SIZE == 8                            \* sizeof(lorawan_hdr_t), the MHDR with the FHDR
MIC_SIZE == 4
JOIN_REQUEST_SIZE == 23
GNRC_LORAWAN_CID_SIZE == 1
GNRC_LORAWAN_FOPT_LINK_ANS_SIZE == 3

UInt8 == 0 .. 255                        \* index and size of lorawan_buffer_t

VARIABLES
    step,            \* "idle", or the loop that runs: "copy" or "options"
    link_check,      \* the link check bit of mlme.pending_mlme_opts
    last_dr,         \* mac->last_dr
    size,            \* bytes of the last frame sent; 0: none, or one is being built
    index,           \* buf.index of the loop that runs
    pl, psize,       \* where the payload begins, and the bytes of it copied
    left,            \* the bytes of the payload that are not copied yet
    before,          \* psize before the last part was copied
    in_place,        \* each part, and the MIC, was put right behind what precedes it
    length,          \* buf.size of the options
    answers, answer_first,  \* complete link check answers among them, one behind the
                            \* other; the first byte is that of such an answer
    confirms         \* link checks confirmed out of these options

uplink_vars == <<last_dr, size, pl, psize, left, before, in_place>>
options_vars == <<length, answers, answer_first, confirms>>
vars == <<step, link_check, index, uplink_vars, options_vars>>

\* The options are forgotten with the frame they came in.
NoOptions == length' = 0 /\ answers' = 0 /\ answer_first' = FALSE /\ confirms' = 0

Init ==
    /\ step = "idle" /\ link_check = FALSE
    /\ last_dr = 0 /\ size = 0
    /\ index = 0 /\ pl = 0 /\ psize = 0 /\ left = 0 /\ before = 0
    /\ in_place = TRUE
    /\ length = 0 /\ answers = 0 /\ answer_first = FALSE /\ confirms = 0

-----------------------------------------------------------------------------
(* Uplinks *)

\* gnrc_lorawan_build_options: the bytes of the options of an uplink.
BuildOptions == IF link_check THEN GNRC_LORAWAN_CID_SIZE ELSE 0

\* Mutated form of FitsRegion: the options are left out.
FitsRegionNoOptions(payload, dr) == HDR_SIZE + payload <= PayloadMax(dr)

\* The test of gnrc_lorawan_mcps_request: it counts the MHDR, but not the port.
FitsRegion(payload, dr) == HDR_SIZE + BuildOptions + payload <= PayloadMax(dr)

\* gnrc_lorawan_mcps_request, accepted: gnrc_lorawan_build_uplink up to its
\* loop.  A request refused with EMSGSIZE leaves the frame alone.
DataRequest(payload, dr) ==
    /\ step = "idle"
    /\ ValidateDr(dr) /\ FitsRegion(payload, dr)
    /\ step' = "copy"
    /\ last_dr' = dr
    /\ pl' = HDR_SIZE + BuildOptions + 1
    /\ index' = pl'
    /\ left' = payload
    /\ psize' = 0 /\ before' = 0 /\ in_place' = TRUE
    /\ size' = 0
    /\ NoOptions
    /\ UNCHANGED link_check

InPlace == in_place /\ index = pl + psize

\* Mutated form of CopyPart: the index moves before the part is counted.
CopyPartLate(n) ==
    /\ step = "copy" /\ n <= left
    /\ in_place' = InPlace
    /\ psize' = psize + n /\ before' = psize /\ left' = left - n
    /\ index' = (index + psize) % 256
    /\ UNCHANGED <<step, link_check, last_dr, size, pl, options_vars>>

\* A turn of the loop of gnrc_lorawan_build_uplink: memcpy, psize += iol_len,
\* index += psize.
CopyPart(n) ==
    /\ step = "copy" /\ n <= left
    /\ in_place' = InPlace
    /\ psize' = psize + n /\ before' = psize /\ left' = left - n
    /\ index' = (index + psize') % 256
    /\ UNCHANGED <<step, link_check, last_dr, size, pl, options_vars>>

\* gnrc_lorawan_send_pkt; the time on air it works out is AirTime.
SendPkt(bytes, dr) == size' = bytes /\ last_dr' = dr

\* mac->toa, at the coding rate LORA_CR_4_5 + 4.
AirTime == TimeOnAir(size, last_dr, 5)

\* gnrc_lorawan_build_uplink behind its loop, and the sending.
SendUplink ==
    /\ step = "copy" /\ left = 0
    /\ step' = "idle" /\ index' = 0
    /\ in_place' = InPlace
    /\ SendPkt((index + MIC_SIZE) % 256, last_dr)
    /\ UNCHANGED <<link_check, pl, psize, left, before, options_vars>>

\* gnrc_lorawan_send_join_request, at a rate that is not validated.
JoinRequest(dr) ==
    /\ step = "idle"
    /\ SendPkt(JOIN_REQUEST_SIZE, dr)
    /\ pl' = JOIN_REQUEST_SIZE - MIC_SIZE
    /\ psize' = 0 /\ before' = 0 /\ in_place' = TRUE
    /\ NoOptions
    /\ UNCHANGED <<step, link_check, index, left>>

\* gnrc_lorawan_mlme_request of MLME_LINK_CHECK, and gnrc_lorawan_mlme_no_rx.
LinkCheck ==
    /\ step = "idle"
    /\ link_check' \in BOOLEAN
    /\ UNCHANGED <<step, index, uplink_vars, options_vars>>

-----------------------------------------------------------------------------
(* Downlinks *)

\* gnrc_lorawan_parse_dl of a frame with these bytes of options and of port
\* and payload.  Commands are in the options or in a payload for port 0.
HasPayload(body) == body > 1
Drops(fopts, body, port) == HasPayload(body) /\ port = 0 /\ fopts # 0
CommandBytes(fopts, body, port) == IF HasPayload(body) /\ port = 0 THEN body - 1 ELSE fopts

\* gnrc_lorawan_mcps_process_downlink of an accepted frame, and
\* gnrc_lorawan_process_fopts up to its loop.  The network has put n link check
\* answers at the head of the options, or behind another command.
ProcessFopts(fopts, body, port, n) ==
    /\ step = "idle"
    /\ ~Drops(fopts, body, port)
    /\ length' = CommandBytes(fopts, body, port)
    /\ length' > 0
    /\ answers' = n
    /\ answer_first' \in BOOLEAN
    /\ answer_first' /\ n = 0 => length' < GNRC_LORAWAN_FOPT_LINK_ANS_SIZE
    /\ ~answer_first' => length' > GNRC_LORAWAN_FOPT_LINK_ANS_SIZE * n
    /\ step' = "options" /\ index' = 0 /\ confirms' = 0
    /\ UNCHANGED <<link_check, uplink_vars>>

\* Mutated form of AnswerFits: one byte of an answer is enough.
AnswerFitsLoose == index < length

\* The test of _mlme_link_check_ans
AnswerFits == index + GNRC_LORAWAN_FOPT_LINK_ANS_SIZE <= length

\* A turn of the loop of gnrc_lorawan_process_fopts, which looks at the first
\* byte of the options each time: _mlme_link_check_ans.
LinkCheckAns ==
    /\ step = "options" /\ index < length /\ answer_first /\ AnswerFits
    /\ index' = index + GNRC_LORAWAN_FOPT_LINK_ANS_SIZE
    /\ confirms' = confirms + 1
    /\ link_check' = FALSE
    /\ UNCHANGED <<step, uplink_vars, length, answers, answer_first>>

\* Mutated form of ShortAnswer: its error is ignored.
ShortAnswerIgnored ==
    /\ step = "options" /\ index < length /\ answer_first /\ ~AnswerFits
    /\ UNCHANGED vars

\* The answer is cut short: -EINVAL.
ShortAnswer ==
    /\ step = "options" /\ index < length /\ answer_first /\ ~AnswerFits
    /\ step' = "idle" /\ index' = 0
    /\ UNCHANGED <<link_check, uplink_vars, options_vars>>

\* The loop ends, or meets a command it does not know.
EndOfOptions ==
    /\ step = "options" /\ (index >= length \/ ~answer_first)
    /\ step' = "idle" /\ index' = 0
    /\ UNCHANGED <<link_check, uplink_vars, options_vars>>

Uplink ==
    \/ \E payload \in PayloadSizes, dr \in 0 .. 5 : DataRequest(payload, dr)
    \/ \E n \in PartSizes \cup {left} : CopyPart(n)
    \/ SendUplink
    \/ \E dr \in 0 .. 6 : JoinRequest(dr)
    \/ LinkCheck

ReadOptions == LinkCheckAns \/ ShortAnswer \/ EndOfOptions

Downlink ==
    \/ \E fopts \in FoptsSizes, body \in BodySizes, port \in 0 .. 1 :
          \E n \in 0 .. CommandBytes(fopts, body, port) \div GNRC_LORAWAN_FOPT_LINK_ANS_SIZE :
              ProcessFopts(fopts, body, port, n)
    \/ ReadOptions

Next == Uplink \/ Downlink

\* A handler that was called runs to its end.
Spec == Init /\ [][Next]_vars /\ WF_vars(ReadOptions)

-----------------------------------------------------------------------------
TypeOK ==
    /\ step \in {"idle", "copy", "options"} /\ link_check \in BOOLEAN
    /\ last_dr \in 0 .. 6 /\ size \in UInt8 /\ index \in UInt8
    /\ pl \in 0 .. 19 /\ psize \in Nat /\ left \in Nat /\ before \in Nat
    /\ in_place \in BOOLEAN
    /\ length \in UInt8 /\ answers \in Nat /\ answer_first \in BOOLEAN /\ confirms \in Nat

\* The parts of a payload and the MIC are put one behind the other exactly if
\* all parts but the last are empty.  With two parts the MIC stands too far
\* back, with three the third part does: the index advances by the whole
\* payload so far.  That it wraps at 256 puts nothing right.
LaidOut == step # "copy" => (in_place <=> before = 0)

\* A frame laid out like that carries the payload of the request and no more
\* than the region allows behind the MHDR, at every rate, with and without
\* options: the size test leaves out the port and counts the MHDR instead.
FrameFits ==
    in_place /\ size # 0 =>
        /\ size = pl + psize + MIC_SIZE
        /\ size - 1 - MIC_SIZE <= PayloadMax(last_dr)

\* The time on air as the modem's data sheet has it, in microseconds.
SpreadingFactor(dr) == IF dr = 6 THEN 7 ELSE 12 - dr
LowRate(dr) == IF dr <= 1 THEN 1 ELSE 0                     \* low data rate optimisation
PayloadBits(bytes, dr) == 8 * bytes - 4 * SpreadingFactor(dr) + 28 + 16
BlockBits(dr) == 4 * (SpreadingFactor(dr) - 2 * LowRate(dr))
Blocks(bytes, dr) ==
    IF PayloadBits(bytes, dr) <= 0 THEN 0
    ELSE (PayloadBits(bytes, dr) + BlockBits(dr) - 1) \div BlockBits(dr)
QuarterSymbols(bytes, dr) == 4 * 8 + 17 + 4 * (8 + 5 * Blocks(bytes, dr))

\* The time on air the join is charged for is that of the data sheet: the
\* table gives the same number of symbols at every rate and for every size.
AirTimeRight ==
    size # 0 => 4 * AirTime = QuarterSymbols(size, last_dr) * TSym[last_dr + 1]

\* Answers are missed exactly if another command is in front of them.  As many
\* are confirmed as were sent only if not enough bytes are behind those at the
\* head for one more: such bytes are taken for answers, whatever they are.
OptionsRead ==
    step # "options" =>
        /\ answers <= confirms <=> answers = 0 \/ answer_first
        /\ confirms = answers <=>
              \/ answers = 0
              \/ /\ answer_first
                 /\ length - GNRC_LORAWAN_FOPT_LINK_ANS_SIZE * answers
                        < GNRC_LORAWAN_FOPT_LINK_ANS_SIZE

\* The options of every frame come to an end, cut short or not.
OptionsEnd == step = "options" ~> step = "idle"
=============================================================================
