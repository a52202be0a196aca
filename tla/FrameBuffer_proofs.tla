------------------------- MODULE FrameBuffer_proofs -------------------------
(***************************************************************************)
(* Proofs about the bytes of a frame, for every payload and every way to   *)
(* cut it into parts, and for every downlink.                              *)
(***************************************************************************)
EXTENDS FrameBuffer, TLAPS

-----------------------------------------------------------------------------
(* The inductive invariant *)

\* While an uplink is put together it is in place as long as nothing was copied
\* before the last part, and what is left of the payload still fits.
CopyInv ==
    step = "copy" =>
        /\ InPlace <=> before = 0
        /\ before <= psize
        /\ pl + psize + left - 1 <= PayloadMax(last_dr)
        /\ size = 0

\* While options are read, three bytes are behind each confirm.
ReadInv ==
    step = "options" =>
        /\ index = 3 * confirms /\ index <= length
        /\ 3 * answers <= length
        /\ answer_first /\ answers = 0 => length < 3
        /\ ~answer_first => confirms = 0

IInv == TypeOK /\ CopyInv /\ ReadInv /\ LaidOut /\ FrameFits /\ OptionsRead

LEMMA PayloadMaxType ==
    ASSUME NEW dr \in 0 .. 6
    PROVE  PayloadMax(dr) \in 59 .. 250
BY DEF PayloadMax

LEMMA InitHolds == Init => IInv
<1> SUFFICES ASSUME Init PROVE IInv
  OBVIOUS
<1>1. link_check \in BOOLEAN /\ in_place \in BOOLEAN /\ answer_first \in BOOLEAN
  BY Zenon DEF Init
<1>2. TypeOK  BY <1>1 DEF Init, TypeOK, UInt8
<1>3. CopyInv /\ ReadInv /\ LaidOut /\ FrameFits
  BY DEF Init, CopyInv, ReadInv, LaidOut, FrameFits
<1>4. OptionsRead  BY DEF Init, OptionsRead, GNRC_LORAWAN_FOPT_LINK_ANS_SIZE
<1>5. QED  BY <1>2, <1>3, <1>4 DEF IInv

-----------------------------------------------------------------------------
(* Uplinks *)

\* A step that leaves the options alone, or forgets them.
LEMMA OptionsKept ==
    ASSUME OptionsRead, step # "options", step' # "options",
           NoOptions \/ UNCHANGED options_vars
    PROVE  OptionsRead' /\ ReadInv'
BY DEF OptionsRead, ReadInv, NoOptions, options_vars, GNRC_LORAWAN_FOPT_LINK_ANS_SIZE

LEMMA DataRequestKeeps ==
    ASSUME IInv, NEW payload \in PayloadSizes, NEW dr \in 0 .. 5, DataRequest(payload, dr)
    PROVE  IInv'
<1> USE DEF IInv
<1>1. payload \in Nat /\ BuildOptions \in 0 .. 1
  BY SizesAssumption DEF BuildOptions, GNRC_LORAWAN_CID_SIZE
<1>2. /\ step = "idle" /\ step' = "copy" /\ last_dr' = dr /\ link_check' = link_check
      /\ pl' = 9 + BuildOptions /\ index' = pl' /\ left' = payload
      /\ psize' = 0 /\ before' = 0 /\ in_place' = TRUE /\ size' = 0 /\ NoOptions
      /\ 8 + BuildOptions + payload <= PayloadMax(dr)
  BY <1>1 DEF DataRequest, FitsRegion, HDR_SIZE
<1>3. TypeOK'
  <2>1. link_check' \in BOOLEAN /\ in_place' \in BOOLEAN /\ answer_first' \in BOOLEAN
    BY <1>2, Zenon DEF TypeOK, NoOptions
  <2>2. QED  BY <1>1, <1>2, <2>1 DEF TypeOK, UInt8, NoOptions
<1>4. CopyInv'
  <2>1. PayloadMax(dr) \in Nat  BY PayloadMaxType
  <2>2. QED  BY <1>1, <1>2, <2>1 DEF CopyInv, InPlace
<1>5. LaidOut' /\ FrameFits'  BY <1>2 DEF LaidOut, FrameFits
<1>6. OptionsRead' /\ ReadInv'  BY <1>2, OptionsKept
<1>7. QED  BY <1>3, <1>4, <1>5, <1>6

\* A second part with something before it never comes to its place, the wrap at
\* 256 included.
LEMMA Wrap ==
    ASSUME NEW a \in 0 .. 251, NEW p \in 0 .. a
    PROVE  (a + p) % 256 = a <=> p = 0
OBVIOUS

LEMMA CopyPartKeeps ==
    ASSUME IInv, NEW n \in Nat, CopyPart(n)
    PROVE  IInv'
<1> USE DEF IInv
<1>1. /\ step = "copy" /\ step' = "copy" /\ n <= left
      /\ in_place' = InPlace /\ psize' = psize + n /\ before' = psize /\ left' = left - n
      /\ index' = (index + psize + n) % 256
      /\ UNCHANGED <<link_check, last_dr, size, pl, options_vars>>
  BY DEF CopyPart, TypeOK, UInt8
<1>2. /\ pl \in 0 .. 19 /\ psize \in Nat /\ left \in Nat /\ before \in Nat /\ index \in 0 .. 255
      /\ last_dr \in 0 .. 6
  BY DEF TypeOK, UInt8
<1>3. TypeOK'
  <2>1. index' \in 0 .. 255  BY <1>1, <1>2
  <2>2. left' \in Nat /\ psize' \in Nat /\ before' \in Nat /\ in_place' \in BOOLEAN
    BY <1>1, <1>2 DEF InPlace, TypeOK
  <2>3. QED  BY <1>1, <2>1, <2>2 DEF TypeOK, UInt8, options_vars
<1>4. CopyInv'
  <2>1. PayloadMax(last_dr) \in 59 .. 250  BY <1>2, PayloadMaxType
  <2>2. pl' + psize' + left' - 1 <= PayloadMax(last_dr') /\ before' <= psize' /\ size' = 0
    BY <1>1, <1>2, <2>1 DEF CopyInv
  <2>3. InPlace' <=> before' = 0
    <3>1. CASE before = 0
      <4>1. in_place' /\ index = pl + psize  BY <1>1, <3>1 DEF CopyInv, InPlace
      <4>2. pl + psize + n \in 0 .. 251 /\ psize \in 0 .. pl + psize + n
        BY <1>1, <1>2, <2>1 DEF CopyInv
      <4>3. index' = ((pl + psize + n) + psize) % 256
        <5>1. index + psize + n = (pl + psize + n) + psize  BY <1>2, <4>1
        <5>2. QED  BY <1>1, <5>1
      <4>4. index' = pl + psize + n <=> psize = 0  BY <4>2, <4>3, Wrap
      <4>5. pl' + psize' = pl + psize + n  BY <1>1, <1>2
      <4>6. QED  BY <1>1, <4>1, <4>4, <4>5 DEF InPlace
    <3>2. CASE before # 0
      <4>1. ~in_place' /\ psize # 0  BY <1>1, <1>2, <3>2 DEF CopyInv
      <4>2. QED  BY <1>1, <4>1 DEF InPlace
    <3>3. QED  BY <3>1, <3>2
  <2>4. QED  BY <1>1, <2>2, <2>3 DEF CopyInv
<1>5. LaidOut' /\ FrameFits'  BY <1>1 DEF LaidOut, FrameFits, CopyInv
<1>6. OptionsRead' /\ ReadInv'  BY <1>1, OptionsKept
<1>7. QED  BY <1>3, <1>4, <1>5, <1>6

LEMMA SendUplinkKeeps ==
    ASSUME IInv, SendUplink
    PROVE  IInv'
<1> USE DEF IInv
<1>1. /\ step = "copy" /\ left = 0 /\ step' = "idle" /\ index' = 0 /\ in_place' = InPlace
      /\ size' = (index + 4) % 256
      /\ UNCHANGED <<last_dr, link_check, pl, psize, left, before, options_vars>>
  BY DEF SendUplink, SendPkt, MIC_SIZE
<1>2. /\ pl \in 0 .. 19 /\ psize \in Nat /\ index \in 0 .. 255 /\ last_dr \in 0 .. 6
      /\ PayloadMax(last_dr) \in 59 .. 250
  BY PayloadMaxType DEF TypeOK, UInt8
<1>3. TypeOK'
  <2>1. size' \in 0 .. 255  BY <1>1, <1>2
  <2>2. in_place' \in BOOLEAN  BY <1>1 DEF InPlace, TypeOK
  <2>3. QED  BY <1>1, <2>1, <2>2 DEF TypeOK, UInt8, options_vars
<1>4. LaidOut'  BY <1>1 DEF LaidOut, CopyInv
<1>5. FrameFits'
  <2>1. CASE InPlace
    <3>1. index = pl + psize /\ pl + psize - 1 <= PayloadMax(last_dr)
      BY <1>1, <1>2, <2>1 DEF CopyInv, InPlace
    <3>2. pl + psize \in 0 .. 251  BY <1>2, <3>1
    <3>3. size' = pl + psize + 4  BY <1>1, <3>1, <3>2
    <3>4. QED  BY <1>1, <1>2, <3>1, <3>2, <3>3 DEF FrameFits, MIC_SIZE
  <2>2. CASE ~InPlace  BY <1>1, <2>2 DEF FrameFits
  <2>3. QED  BY <2>1, <2>2
<1>6. CopyInv'  BY <1>1 DEF CopyInv
<1>7. OptionsRead' /\ ReadInv'  BY <1>1, OptionsKept
<1>8. QED  BY <1>3, <1>4, <1>5, <1>6, <1>7

LEMMA JoinRequestKeeps ==
    ASSUME IInv, NEW dr \in 0 .. 6, JoinRequest(dr)
    PROVE  IInv'
<1> USE DEF IInv
<1>1. /\ step = "idle" /\ step' = "idle" /\ size' = 23 /\ last_dr' = dr /\ pl' = 19
      /\ psize' = 0 /\ before' = 0 /\ in_place' = TRUE /\ NoOptions
      /\ UNCHANGED <<link_check, index, left>>
  BY DEF JoinRequest, SendPkt, JOIN_REQUEST_SIZE, MIC_SIZE
<1>2. TypeOK'
  <2>1. link_check' \in BOOLEAN /\ in_place' \in BOOLEAN /\ answer_first' \in BOOLEAN
    BY <1>1, Zenon DEF TypeOK, NoOptions
  <2>2. QED  BY <1>1, <2>1 DEF TypeOK, UInt8, NoOptions
<1>3. CopyInv' /\ LaidOut'  BY <1>1 DEF CopyInv, LaidOut
<1>4. FrameFits'  BY <1>1, PayloadMaxType DEF FrameFits, MIC_SIZE
<1>5. OptionsRead' /\ ReadInv'  BY <1>1, OptionsKept
<1>6. QED  BY <1>2, <1>3, <1>4, <1>5

-----------------------------------------------------------------------------
(* Downlinks *)

LEMMA Thirds ==
    ASSUME NEW k \in Nat, NEW n \in Nat, n <= k \div 3
    PROVE  3 * n <= k
<1>1. 3 * (k \div 3) <= k /\ k \div 3 \in Nat  OBVIOUS
<1> DEFINE q == k \div 3
<1> HIDE DEF q
<1>2. n <= q /\ 3 * q <= k /\ q \in Nat  BY <1>1 DEF q
<1>3. QED  BY <1>2

LEMMA ProcessFoptsKeeps ==
    ASSUME IInv, NEW fopts \in FoptsSizes, NEW body \in BodySizes, NEW port \in 0 .. 1,
           NEW n \in 0 .. CommandBytes(fopts, body, port) \div GNRC_LORAWAN_FOPT_LINK_ANS_SIZE,
           ProcessFopts(fopts, body, port, n)
    PROVE  IInv'
<1> USE DEF IInv
<1>1. /\ step = "idle" /\ step' = "options" /\ index' = 0 /\ confirms' = 0 /\ answers' = n
      /\ length' = CommandBytes(fopts, body, port) /\ length' > 0
      /\ answer_first' \in BOOLEAN
      /\ answer_first' /\ n = 0 => length' < 3
      /\ UNCHANGED <<link_check, uplink_vars>>
  BY DEF ProcessFopts, GNRC_LORAWAN_FOPT_LINK_ANS_SIZE
<1>2. length' \in 0 .. 242
  BY <1>1, SizesAssumption DEF CommandBytes, HasPayload
<1>3. n \in Nat /\ n <= length' \div 3  BY <1>1, <1>2 DEF GNRC_LORAWAN_FOPT_LINK_ANS_SIZE
<1>4. 3 * n <= length'
  <2>1. length' \in Nat  BY <1>2
  <2>2. QED  BY <1>3, <2>1, Thirds
<1>5. TypeOK'  BY <1>1, <1>2, <1>3 DEF TypeOK, UInt8, uplink_vars
<1>6. CopyInv' /\ LaidOut' /\ FrameFits'
  BY <1>1 DEF CopyInv, LaidOut, FrameFits, uplink_vars
<1>7. ReadInv' /\ OptionsRead'
  BY <1>1, <1>2, <1>3, <1>4 DEF ReadInv, OptionsRead
<1>8. QED  BY <1>5, <1>6, <1>7

LEMMA ReadOptionsKeeps ==
    ASSUME IInv, ReadOptions
    PROVE  IInv'
<1> USE DEF IInv, GNRC_LORAWAN_FOPT_LINK_ANS_SIZE
<1>1. /\ step = "options" /\ index = 3 * confirms /\ index <= length /\ 3 * answers <= length
      /\ answer_first /\ answers = 0 => length < 3
      /\ ~answer_first => confirms = 0
      /\ length \in 0 .. 255 /\ answers \in Nat /\ confirms \in Nat /\ index \in 0 .. 255
  BY DEF ReadOptions, LinkCheckAns, ShortAnswer, EndOfOptions, ReadInv, TypeOK, UInt8
<1>2. UNCHANGED <<uplink_vars, length, answers, answer_first>>
  BY DEF ReadOptions, LinkCheckAns, ShortAnswer, EndOfOptions, options_vars
<1>3. CASE LinkCheckAns
  <2>1. /\ step' = "options" /\ index' = index + 3 /\ confirms' = confirms + 1
        /\ link_check' = FALSE /\ answer_first /\ index + 3 <= length
    BY <1>1, <1>3 DEF LinkCheckAns, AnswerFits
  <2>2. TypeOK'
    <3>1. link_check' \in BOOLEAN /\ in_place' \in BOOLEAN /\ answer_first' \in BOOLEAN
      BY <1>2, <2>1, Zenon DEF TypeOK, uplink_vars
    <3>2. QED  BY <1>1, <1>2, <2>1, <3>1 DEF TypeOK, UInt8, uplink_vars
  <2>3. ReadInv'  BY <1>1, <1>2, <2>1 DEF ReadInv
  <2>4. CopyInv' /\ LaidOut' /\ FrameFits' /\ OptionsRead'
    BY <1>1, <1>2, <2>1 DEF CopyInv, LaidOut, FrameFits, OptionsRead, uplink_vars
  <2>5. QED  BY <2>2, <2>3, <2>4
<1>4. CASE ShortAnswer \/ EndOfOptions
  <2>1. /\ step' = "idle" /\ index' = 0 /\ UNCHANGED <<link_check, confirms>>
        /\ \/ answer_first /\ index + 3 > length
           \/ ~answer_first
    BY <1>1, <1>4 DEF ShortAnswer, EndOfOptions, AnswerFits, options_vars
  <2>2. TypeOK'  BY <1>2, <2>1 DEF TypeOK, UInt8, uplink_vars
  <2>3. /\ answers <= confirms <=> answers = 0 \/ answer_first
        /\ confirms = answers <=>
              answers = 0 \/ (answer_first /\ length - 3 * answers < 3)
    <3>1. CASE answer_first  BY <1>1, <2>1, <3>1
    <3>2. CASE ~answer_first  BY <1>1, <3>2
    <3>3. QED  BY <3>1, <3>2
  <2>4. OptionsRead' /\ ReadInv'  BY <1>2, <2>1, <2>3 DEF OptionsRead, ReadInv
  <2>5. CopyInv' /\ LaidOut' /\ FrameFits'
    BY <1>1, <1>2, <2>1 DEF CopyInv, LaidOut, FrameFits, uplink_vars
  <2>6. QED  BY <2>2, <2>4, <2>5
<1>5. QED  BY <1>3, <1>4 DEF ReadOptions

-----------------------------------------------------------------------------
(* Time on air *)

\* The table of the code against the data sheet, rate by rate.
LEMMA BlocksRight ==
    ASSUME NEW bytes \in UInt8, NEW dr \in 0 .. 6
    PROVE  CodedBlocks(bytes, dr) \in Nat /\ CodedBlocks(bytes, dr) = Blocks(bytes, dr)
<1> USE DEF CodedBlocks, SecondBlock, K, Blocks, PayloadBits, BlockBits, SpreadingFactor,
            LowRate, UInt8
<1>1. CASE dr = 0  BY <1>1
<1>2. CASE dr = 1  BY <1>2
<1>3. CASE dr = 2  BY <1>3
<1>4. CASE dr = 3  BY <1>4
<1>5. CASE dr = 4  BY <1>5
<1>6. CASE dr = 5  BY <1>6
<1>7. CASE dr = 6  BY <1>7
<1>8. dr \in {0, 1, 2, 3, 4, 5, 6}  OBVIOUS
<1> HIDE DEF CodedBlocks, SecondBlock, K, Blocks, PayloadBits, BlockBits, SpreadingFactor,
             LowRate, UInt8
<1>9. QED  BY <1>1, <1>2, <1>3, <1>4, <1>5, <1>6, <1>7, <1>8

LEMMA AirTimes ==
    ASSUME TypeOK
    PROVE  AirTimeRight
<1> DEFINE t == TSym[last_dr + 1]  b == CodedBlocks(size, last_dr)
<1>1. t \in Nat /\ 4 * (t \div 4) = t  BY DEF TSym, TypeOK
<1>2. b \in Nat /\ b = Blocks(size, last_dr)  BY BlocksRight DEF TypeOK
<1>3. AirTime = t * 8 + t * 4 + t \div 4 + t * (8 + b * 5)  BY DEF AirTime, TimeOnAir
<1>4. t * (8 + b * 5) = 8 * t + 5 * (t * b)  BY <1>1, <1>2
<1>5. (4 * 8 + 17 + 4 * (8 + 5 * b)) * t = 81 * t + 20 * (t * b)  BY <1>1, <1>2
<1>6. t * b \in Nat /\ t \div 4 \in Nat  BY <1>1, <1>2
<1> HIDE DEF t, b
<1>7. 4 * AirTime = 81 * t + 20 * (t * b)  BY <1>1, <1>3, <1>4, <1>6
<1>8. QED  BY <1>2, <1>5, <1>7 DEF AirTimeRight, QuarterSymbols, t

-----------------------------------------------------------------------------
(* Theorems *)

LEMMA NextKeeps == IInv /\ [Next]_vars => IInv'
<1> SUFFICES ASSUME IInv, [Next]_vars PROVE IInv'
  OBVIOUS
<1>1. ASSUME NEW payload \in PayloadSizes, NEW dr \in 0 .. 5, DataRequest(payload, dr)
      PROVE  IInv'
  BY <1>1, DataRequestKeeps
<1>2. ASSUME NEW n \in PartSizes \cup {left}, CopyPart(n) PROVE IInv'
  <2>1. n \in Nat  BY SizesAssumption DEF IInv, TypeOK
  <2>2. QED  BY <1>2, <2>1, CopyPartKeeps
<1>3. CASE SendUplink  BY <1>3, SendUplinkKeeps
<1>4. ASSUME NEW dr \in 0 .. 6, JoinRequest(dr) PROVE IInv'  BY <1>4, JoinRequestKeeps
<1>5. CASE LinkCheck \/ UNCHANGED vars
  <2>1. UNCHANGED <<step, index, uplink_vars, options_vars>> /\ link_check' \in BOOLEAN
    BY <1>5 DEF LinkCheck, vars, IInv, TypeOK
  <2>2. QED
    BY <2>1 DEF IInv, TypeOK, CopyInv, InPlace, ReadInv, LaidOut, FrameFits, OptionsRead,
                uplink_vars, options_vars
<1>6. CASE Downlink  BY <1>6, ProcessFoptsKeeps, ReadOptionsKeeps DEF Downlink
<1>7. QED  BY <1>1, <1>2, <1>3, <1>4, <1>5, <1>6 DEF Next, Uplink

LEMMA Invariant == Spec => []IInv
BY InitHolds, NextKeeps, PTL DEF Spec

\* In every reachable state the variables have their types: the length of a
\* frame and the index into it their eight bits.
THEOREM TypeCorrect == Spec => []TypeOK
BY Invariant, PTL DEF IInv

\* However a payload is cut into parts, gnrc_lorawan_build_uplink puts it in its
\* place exactly if all parts but the last are empty.
THEOREM LayoutCorrect == Spec => []LaidOut
BY Invariant, PTL DEF IInv

\* The size test of gnrc_lorawan_mcps_request lets pass what the region allows,
\* for every payload that is laid out right.
THEOREM SizeCorrect == Spec => []FrameFits
BY Invariant, PTL DEF IInv

\* lora_time_on_air gives the time of the data sheet for every frame.
THEOREM AirTimeCorrect == Spec => []AirTimeRight
BY Invariant, AirTimes, PTL DEF IInv

\* gnrc_lorawan_process_fopts misses no link check answer, and makes up one for
\* each three bytes behind them, whatever the options hold.
THEOREM OptionsCorrect == Spec => []OptionsRead
BY Invariant, PTL DEF IInv

\* The option loop cannot turn without end: each turn ends it or moves the index
\* on, and the index stays within the options, cut short or not.
OptionsAdvance ==
    [][step = "options" =>
         \/ step' = "idle"
         \/ index' > index /\ index' <= length /\ UNCHANGED length]_vars

\* Every turn of the loop of gnrc_lorawan_process_fopts brings its end nearer;
\* that the turns are made, and so OptionsEnd, is up to the scheduling.
THEOREM OptionsBounded == Spec => OptionsAdvance
<1>1. IInv /\ [Next]_vars =>
        [step = "options" => \/ step' = "idle"
                             \/ index' > index /\ index' <= length /\ UNCHANGED length]_vars
  <2> SUFFICES ASSUME TypeOK, Next, step = "options", step' # "idle"
               PROVE  index' > index /\ index' <= length /\ UNCHANGED length
    BY DEF IInv
  <2>1. LinkCheckAns
    BY DEF Next, Uplink, Downlink, DataRequest, CopyPart, SendUplink, JoinRequest, LinkCheck,
           ProcessFopts, ReadOptions, ShortAnswer, EndOfOptions
  <2>2. index \in Nat  BY DEF TypeOK, UInt8
  <2>3. QED
    BY <2>1, <2>2 DEF LinkCheckAns, AnswerFits, GNRC_LORAWAN_FOPT_LINK_ANS_SIZE
<1>2. QED  BY <1>1, Invariant, PTL DEF Spec, OptionsAdvance
=============================================================================
