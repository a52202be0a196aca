----------------------- MODULE DownlinkCounter_proofs -----------------------
(***************************************************************************)
(* Proofs about the downlink counter for every width of the counters,      *)
(* every gap and every lateness that the assumptions allow, across any     *)
(* number of wraps of the counter in the frame header.                     *)
(***************************************************************************)
EXTENDS DownlinkCounter, Remainders

\* The assumptions but for the divisibility of the widths.
LEMMA Widths ==
    /\ FCNT16 \in Nat \ {0} /\ FCNT32 \in Nat \ {0} /\ FCNT32 >= FCNT16
    /\ MAX_FCNT_GAP \in Nat \ {0} /\ MaxSent \in Nat /\ MaxLate \in Nat
    /\ MaxLate + MAX_FCNT_GAP + 1 < FCNT16
    /\ MaxSent + MAX_FCNT_GAP < FCNT32
BY FcntAssumption, ChannelAssumption

-----------------------------------------------------------------------------
(* What gnrc_lorawan_fcnt_stol makes of a counter near the last one *)

\* A frame that is not older than the device's counter d is extended to its
\* own counter or, past a wrap, to one less, and is in the window.
LEMMA ExtendNew ==
    ASSUME NEW d \in Nat, NEW n \in Nat, d + MAX_FCNT_GAP < FCNT32,
           d <= n, n <= d + MAX_FCNT_GAP
    PROVE  LET u == FcntStol(d, n % FCNT16)
           IN  /\ u = n \/ (u = n - 1 /\ d < n)
               /\ FcntInWindow(d, u)
<1> USE Widths
<1> DEFINE U == d - (d % FCNT16)
           rd == d % FCNT16
           rn == n % FCNT16
           u == FcntStol(d, rn)
<1>1. rd \in 0 .. FCNT16 - 1 /\ rn \in 0 .. FCNT16 - 1 /\ U \in Nat /\ d = U + rd
  <2>1. rd \in 0 .. FCNT16 - 1 /\ rn \in 0 .. FCNT16 - 1 /\ d \div FCNT16 \in Nat
        /\ d = FCNT16 * (d \div FCNT16) + rd
    BY DivMod
  <2>2. FCNT16 * (d \div FCNT16) \in Nat  BY <2>1
  <2>3. QED  BY <2>1, <2>2
<1>2. \/ n - rn = U \/ n - rn = U + FCNT16
  <2>1. -FCNT16 < n - d /\ n - d < FCNT16  OBVIOUS
  <2>2. \/ n - rn = U \/ n - rn = U + FCNT16 \/ n - rn = U - FCNT16
    BY <2>1, NearQuotients
  <2>3. n - rn # U - FCNT16  BY <1>1
  <2>4. QED  BY <2>2, <2>3
<1>3. (d + MAX_FCNT_GAP) % FCNT32 = d + MAX_FCNT_GAP
  BY SmallRemainder
<1>4. u = IF d + MAX_FCNT_GAP >= FCNT16 - 1 /\ rn < rd
          THEN (U + rn + FCNT16 - 1) % FCNT32 ELSE U + rn
  BY <1>3 DEF FcntStol, Upper, Lower
<1>5. FcntInWindow(d, u) <=> d <= u /\ u <= d + MAX_FCNT_GAP
  BY <1>3 DEF FcntInWindow
<1> HIDE DEF U, rd, rn, u
<1>6. CASE n - rn = U
  <2>1. ~(rn < rd) /\ n = U + rn  BY <1>1, <1>6
  <2>2. u = n  BY <1>4, <2>1
  <2>3. QED  BY <1>5, <2>2 DEF u, rn
<1>7. CASE n - rn = U + FCNT16
  <2>1. rn < rd /\ d + MAX_FCNT_GAP >= FCNT16 - 1 /\ d < n  BY <1>1, <1>7
  <2>2. U + rn + FCNT16 - 1 = n - 1 /\ n - 1 \in Nat /\ n - 1 < FCNT32  BY <1>1, <1>7
  <2>3. (n - 1) % FCNT32 = n - 1  BY <2>2, SmallRemainder
  <2>4. u = n - 1  BY <1>4, <2>1, <2>2, <2>3
  <2>5. QED  BY <1>5, <2>1, <2>4 DEF u, rn
<1>8. QED  BY <1>2, <1>6, <1>7

\* A frame that is older than the device's counter, but not older than MaxLate
\* allows, is extended to a counter outside the window.
LEMMA ExtendOld ==
    ASSUME NEW d \in Nat, NEW n \in Nat, d + MAX_FCNT_GAP < FCNT32,
           n < d, d <= n + MaxLate
    PROVE  ~FcntInWindow(d, FcntStol(d, n % FCNT16))
<1> USE Widths
<1> DEFINE U == d - (d % FCNT16)
           rd == d % FCNT16
           rn == n % FCNT16
           u == FcntStol(d, rn)
<1>1. rd \in 0 .. FCNT16 - 1 /\ rn \in 0 .. FCNT16 - 1 /\ U \in Nat /\ d = U + rd
  <2>1. rd \in 0 .. FCNT16 - 1 /\ rn \in 0 .. FCNT16 - 1 /\ d \div FCNT16 \in Nat
        /\ d = FCNT16 * (d \div FCNT16) + rd
    BY DivMod
  <2>2. FCNT16 * (d \div FCNT16) \in Nat  BY <2>1
  <2>3. QED  BY <2>1, <2>2
<1>2. \/ n - rn = U \/ n - rn = U - FCNT16
  <2>1. -FCNT16 < n - d /\ n - d < FCNT16  OBVIOUS
  <2>2. \/ n - rn = U \/ n - rn = U + FCNT16 \/ n - rn = U - FCNT16
    BY <2>1, NearQuotients
  <2>3. n - rn # U + FCNT16  BY <1>1
  <2>4. QED  BY <2>2, <2>3
<1>3. (d + MAX_FCNT_GAP) % FCNT32 = d + MAX_FCNT_GAP
  BY SmallRemainder
<1>4. u = IF d + MAX_FCNT_GAP >= FCNT16 - 1 /\ rn < rd
          THEN (U + rn + FCNT16 - 1) % FCNT32 ELSE U + rn
  BY <1>3 DEF FcntStol, Upper, Lower
<1>5. FcntInWindow(d, u) <=> d <= u /\ u <= d + MAX_FCNT_GAP
  BY <1>3 DEF FcntInWindow
<1> DEFINE c == n + FCNT16 - 1
<1>6. c \in Nat /\ c > d + MAX_FCNT_GAP
  OBVIOUS
<1>7. c % FCNT32 = c \/ c % FCNT32 = c - FCNT32
  <2>1. CASE c < FCNT32
    BY <1>6, <2>1, SmallRemainder
  <2>2. CASE c >= FCNT32
    <3>1. c \in FCNT32 .. 2 * FCNT32 - 1  BY <1>6, <2>2
    <3>2. QED  BY <3>1, OneWrap
  <2>3. QED  BY <1>6, <2>1, <2>2
<1> HIDE DEF U, rd, rn, u
<1>8. CASE n - rn = U
  <2>1. U + rn = n /\ U + rn + FCNT16 - 1 = c  BY <1>1, <1>8
  <2>2. u = n \/ u = c \/ u = c - FCNT32  BY <1>4, <1>7, <2>1
  <2>3. c - FCNT32 < d  OBVIOUS
  <2>4. QED  BY <1>5, <1>6, <2>2, <2>3 DEF u, rn
<1>9. CASE n - rn = U - FCNT16
  <2>1. U + rn = n + FCNT16 /\ ~(rn < rd)  BY <1>1, <1>9
  <2>2. u = n + FCNT16  BY <1>4, <2>1
  <2>3. QED  BY <1>5, <2>2 DEF u, rn
<1>10. QED  BY <1>2, <1>8, <1>9

-----------------------------------------------------------------------------
(* The invariant *)

\* Besides InStep: the types, and that the channel keeps the server within the
\* gap of the device's counter, also after a step back.
CounterInv ==
    /\ TypeOK
    /\ InStep
    /\ clean => sent <= fcnt_down + MAX_FCNT_GAP + 1

LEMMA AcceptsInv ==
    ASSUME CounterInv, clean, NEW n \in InAir
    PROVE  /\ Accepts(n) <=> MicValid(n) /\ n >= fcnt_down
           /\ n >= fcnt_down => n - Extended(n) \in {0, 1}
           /\ n >= heard - 1 \/ ~Accepts(n)
<1> USE Widths
<1>1. /\ fcnt_down \in Nat /\ heard \in Nat /\ sent \in Nat /\ n \in Nat
      /\ heard \in {fcnt_down, fcnt_down + 1} /\ heard <= MaxSent
      /\ n <= sent - 1 /\ sent - 1 <= n + MaxLate
  BY DEF CounterInv, TypeOK, InStep, InAir, Fcnt32
<1>2. heard < sent
  BY <1>1 DEF CounterInv, InStep
<1>3. fcnt_down + MAX_FCNT_GAP < FCNT32 /\ n <= fcnt_down + MAX_FCNT_GAP
      /\ fcnt_down <= n + MaxLate
  BY <1>1, <1>2 DEF CounterInv
<1>4. CASE n >= fcnt_down
  <2>1. /\ Extended(n) = n \/ Extended(n) = n - 1
        /\ FcntInWindow(fcnt_down, Extended(n))
    BY <1>1, <1>3, <1>4, ExtendNew DEF Extended
  <2>2. QED  BY <1>1, <1>4, <2>1 DEF Accepts
<1>5. CASE n < fcnt_down
  <2>1. ~FcntInWindow(fcnt_down, Extended(n))
    BY <1>1, <1>3, <1>5, ExtendOld DEF Extended
  <2>2. QED  BY <1>1, <1>5, <2>1 DEF Accepts
<1>6. QED  BY <1>1, <1>4, <1>5

\* A frame that is taken leaves a counter of the full width.
LEMMA ExtendedWidth ==
    ASSUME TypeOK, NEW n \in InAir, Accepts(n)
    PROVE  Extended(n) \in Fcnt32
<1> USE Widths
<1>1. fcnt_down \in Nat /\ n \in Nat /\ sent \in Nat /\ n % FCNT16 \in Nat
      /\ fcnt_down % FCNT16 \in Nat
  <2>1. fcnt_down \in Nat /\ n \in Nat /\ sent \in Nat
    BY DEF TypeOK, InAir, Fcnt32
  <2>2. QED  BY <2>1, DivMod
<1>2. Extended(n) \in Int
  BY <1>1 DEF Extended, FcntStol, Upper, Lower
<1>3. (fcnt_down + MAX_FCNT_GAP) % FCNT32 \in 0 .. FCNT32 - 1
  BY <1>1, DivMod
<1>4. QED
  BY <1>1, <1>2, <1>3 DEF Accepts, FcntInWindow, Fcnt32

LEMMA CounterInit == Init => CounterInv
BY Widths DEF Init, CounterInv, TypeOK, InStep, Fcnt32

LEMMA CounterStep == CounterInv /\ [Next]_vars => CounterInv'
<1> SUFFICES ASSUME CounterInv, [Next]_vars PROVE CounterInv'
  OBVIOUS
<1> USE Widths
<1>1. CASE Send
  <2>1. TypeOK'  BY <1>1 DEF Send, CounterInv, TypeOK
  <2>2. InStep'  BY <1>1 DEF Send, CounterInv, TypeOK, InStep
  <2>3. clean => sent' <= fcnt_down + MAX_FCNT_GAP + 1
    BY <1>1 DEF Send, CounterInv, TypeOK, InStep, Fcnt32
  <2>4. QED  BY <1>1, <2>1, <2>2, <2>3 DEF Send, CounterInv
<1>2. CASE Deliver
  <2>1. PICK n \in InAir : Take(n) \/ Drop(n)
    BY <1>2 DEF Deliver
  <2>2. CASE Drop(n)
    BY <2>2 DEF Drop, vars, CounterInv, TypeOK, InStep
  <2>3. CASE Take(n)
    <3>1. n \in Nat /\ n < sent /\ sent \in 0 .. MaxSent /\ sent - 1 <= n + MaxLate
      BY DEF InAir, CounterInv, TypeOK
    <3>2. TypeOK'
      BY <2>3, <3>1, ExtendedWidth DEF Take, CounterInv, TypeOK
    <3>3. clean => n - Extended(n) \in {0, 1}
      BY <2>3, AcceptsInv DEF Take
    <3>4. InStep'
      BY <2>3, <3>1, <3>3 DEF Take, InStep
    <3>5. clean => sent <= Extended(n) + MAX_FCNT_GAP + 1
      <4>1. fcnt_down <= Extended(n) /\ fcnt_down \in Int /\ Extended(n) \in Int
        BY <2>3, ExtendedWidth DEF Take, Accepts, FcntInWindow, CounterInv, TypeOK, Fcnt32
      <4>2. QED  BY <3>1, <4>1 DEF CounterInv
    <3>6. QED  BY <2>3, <3>2, <3>4, <3>5 DEF Take, CounterInv
  <2>4. QED  BY <2>1, <2>2, <2>3
<1>3. CASE \E reset \in BOOLEAN : Rejoin(reset)
  <2>1. PICK reset \in BOOLEAN : Rejoin(reset)  BY <1>3
  <2>2. fcnt_down' \in Fcnt32 /\ (clean' => fcnt_down' = 0)
    BY <2>1 DEF Rejoin, CounterInv, TypeOK, Fcnt32
  <2>3. sent' = 0 /\ heard' = 0 /\ wide' \in BOOLEAN /\ clean' \in BOOLEAN
    BY <2>1 DEF Rejoin
  <2>4. QED  BY <2>2, <2>3 DEF CounterInv, TypeOK, InStep
<1>4. CASE UNCHANGED vars
  BY <1>4 DEF vars, CounterInv, TypeOK, InStep
<1>5. QED  BY <1>1, <1>2, <1>3, <1>4 DEF Next
\* The device's counter is that of the last frame accepted or one less, for
\* every width, gap, loss, repetition and lateness the assumptions allow.
THEOREM InStepCorrect == Spec => []InStep
<1>1. CounterInv => InStep
  BY DEF CounterInv
<1>2. QED  BY CounterInit, CounterStep, <1>1, PTL DEF Spec

\* Exactly the frames that are not older than the device's counter are accepted,
\* and past the first wrap of a server with full counters in its MIC none.
THEOREM AcceptsCorrect == Spec => []AcceptsExactly
<1>1. CounterInv => AcceptsExactly
  <2> SUFFICES ASSUME CounterInv, clean, NEW n \in InAir
               PROVE  Accepts(n) <=> n >= fcnt_down /\ (wide => n < FCNT16)
    BY DEF AcceptsExactly
  <2>1. n \in Nat  BY DEF InAir, CounterInv, TypeOK
  <2>2. n % FCNT16 < FCNT16 /\ (n < FCNT16 => n % FCNT16 = n)
    <3>1. n % FCNT16 < FCNT16  BY <2>1, Widths, DivMod
    <3>2. ASSUME n < FCNT16 PROVE n % FCNT16 = n
      <4>1. n \in 0 .. FCNT16 - 1  BY <2>1, <3>2, Widths
      <4>2. QED  BY <4>1, Widths, SmallRemainder
    <3>3. QED  BY <3>1, <3>2
  <2>3. MicValid(n) <=> (wide => n < FCNT16)
    BY <2>2 DEF MicValid, ServerCount
  <2>4. QED  BY <2>3, AcceptsInv
<1>2. QED  BY CounterInit, CounterStep, <1>1, PTL DEF Spec

\* No device steps back behind the frame before the last one accepted.
THEOREM NotFarBack == Spec => NeverFarBack
<1>1. CounterInv /\ [Next]_vars => [clean /\ sent' # 0 => heard' >= heard - 1]_vars
  <2> SUFFICES ASSUME CounterInv, Next, clean, sent' # 0
               PROVE  heard' >= heard - 1
    OBVIOUS
  <2>1. heard \in Nat
    BY Widths DEF CounterInv, TypeOK
  <2>2. CASE Send
    BY <2>1, <2>2 DEF Send
  <2>3. CASE Deliver
    <3>1. PICK n \in InAir : Take(n) \/ Drop(n)
      BY <2>3 DEF Deliver
    <3>2. CASE Take(n)
      <4>1. Accepts(n) /\ heard' = n  BY <3>2 DEF Take
      <4>2. n >= heard - 1  BY <4>1, AcceptsInv
      <4>3. QED  BY <4>1, <4>2
    <3>3. CASE Drop(n)
      BY <2>1, <3>3 DEF Drop, vars
    <3>4. QED  BY <3>1, <3>2, <3>3
  <2>4. CASE \E reset \in BOOLEAN : Rejoin(reset)
    BY <2>4 DEF Rejoin
  <2>5. QED  BY <2>2, <2>3, <2>4 DEF Next
<1>2. QED  BY CounterInit, CounterStep, <1>1, PTL DEF Spec, NeverFarBack
=============================================================================
