-------------------------- MODULE DownlinkCounter --------------------------
(***************************************************************************)
(* The downlink counter against the counter of the server that sends the   *)
(* frames, over a channel that loses, repeats and reorders them.  A frame  *)
(* is named by the server's full counter; on the air it carries the low    *)
(* FCNT16 bits of it, and the device computes the MIC over those alone.    *)
(*                                                                         *)
(* The channel needs no variable: what is in the air is any frame of the   *)
(* session that is not later than MaxLate newer ones, delivered any number *)
(* of times or never.                                                      *)
(***************************************************************************)
EXTENDS LorawanFcnt

CONSTANTS
    MaxSent,       \* bound on the frames of a session
    MaxLate        \* newer frames that may overtake a frame in the air

\* A frame that comes late is told from one that comes after the counter's low
\* bits wrap; the full counter does not wrap within a session.
ASSUME ChannelAssumption ==
    /\ MaxSent \in Nat /\ MaxLate \in Nat
    /\ MAX_FCNT_GAP >= 1 /\ MaxLate + MAX_FCNT_GAP + 1 < FCNT16
    /\ MaxSent + MAX_FCNT_GAP < FCNT32

VARIABLES
    fcnt_down,     \* mcps.fcnt_down
    sent,          \* external: frames the server has sent, 0 .. sent - 1
    heard,         \* the last frame the device has accepted, 0 before the first
    wide,          \* external: the server's MIC covers the full counter
    clean          \* the session was joined after a reset

vars == <<fcnt_down, sent, heard, wide, clean>>

Init ==
    /\ fcnt_down = 0 /\ sent = 0 /\ heard = 0
    /\ wide \in BOOLEAN
    /\ clean = TRUE

InAir == {n \in 0 .. sent - 1 : n + MaxLate >= sent - 1}

\* The counter in the MIC block of the server.
ServerCount(n) == IF wide THEN n ELSE n % FCNT16

\* gnrc_lorawan_mic_is_valid: the block holds the counter of the header.
MicValid(n) == ServerCount(n) = n % FCNT16

\* The counter the device makes of a frame.
Extended(n) == FcntStol(fcnt_down, n % FCNT16)

Accepts(n) == MicValid(n) /\ FcntInWindow(fcnt_down, Extended(n))

\* The server sends a frame; the channel loses fewer than MAX_FCNT_GAP in a row.
Send ==
    /\ sent < MaxSent
    /\ sent < heard + MAX_FCNT_GAP
    /\ sent' = sent + 1
    /\ UNCHANGED <<fcnt_down, heard, wide, clean>>

\* gnrc_lorawan_mcps_process_downlink of a frame it accepts.
Take(n) ==
    /\ Accepts(n)
    /\ fcnt_down' = Extended(n)
    /\ heard' = n
    /\ UNCHANGED <<sent, wide, clean>>

\* gnrc_lorawan_mcps_process_downlink of a frame it drops.
Drop(n) == ~Accepts(n) /\ UNCHANGED vars

Deliver == \E n \in InAir : Take(n) \/ Drop(n)

\* A new session, its keys and its server counter.  MLME_RESET clears the
\* device's counter.  The join does not: a device that was deactivated with
\* MLME_SET goes into the new session with the counter of the old one.
Rejoin(reset) ==
    /\ fcnt_down' = IF reset THEN 0 ELSE fcnt_down
    /\ clean' = (reset \/ fcnt_down = 0)
    /\ sent' = 0 /\ heard' = 0
    /\ wide' \in BOOLEAN

Next == Send \/ Deliver \/ \E reset \in BOOLEAN : Rejoin(reset)

Spec == Init /\ [][Next]_vars

-----------------------------------------------------------------------------
\* Both counters keep their width, also in a session begun with an old counter.
TypeOK ==
    /\ fcnt_down \in Fcnt32 /\ sent \in 0 .. MaxSent /\ heard \in 0 .. MaxSent
    /\ wide \in BOOLEAN /\ clean \in BOOLEAN

\* Whatever was lost, repeated or reordered, and however often the 16 bits on
\* the air wrapped, the device's counter is that of the last frame it accepted
\* or, after a carry of 0xFFFF, one less; it is never ahead of the server.
InStep ==
    /\ heard = 0 \/ heard < sent
    /\ clean => heard - fcnt_down \in {0, 1}

\* Of the frames in the air exactly those that are not older than the device's
\* counter are accepted, a repeated one among them: no new frame is mistaken for
\* an old one, and no late one for the next wrap's.  But from a server whose MIC
\* covers the full counter none is accepted from the first wrap on (mcps.c:37).
AcceptsExactly ==
    clean => \A n \in InAir :
                Accepts(n) <=> n >= fcnt_down /\ (wide => n < FCNT16)

\* A device does not step back behind the frame before the last one accepted.
\* (One step back it does go, after the carry of 0xFFFF.)
NeverFarBack ==
    [][clean /\ sent' # 0 => heard' >= heard - 1]_vars
=============================================================================
