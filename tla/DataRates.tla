----------------------------- MODULE DataRates -----------------------------
(***************************************************************************)
(* The data rates of the region: which of them exist, how long a symbol, a *)
(* reception window and a frame take, and how much a frame may carry.      *)
(***************************************************************************)
EXTENDS Integers

GNRC_LORAWAN_DATARATES_NUMOF == 6

\* gnrc_lorawan_validate_dr
ValidateDr(dr) == dr < GNRC_LORAWAN_DATARATES_NUMOF

\* Mutated form of SetDr: the data rate is not validated.
SetDrUnchecked(radio_dr, dr) == dr

\* gnrc_lorawan_set_dr: the rate of the radio, which stays if dr does not exist.
SetDr(radio_dr, dr) == IF ValidateDr(dr) THEN dr ELSE radio_dr

\* gnrc_lorawan_rx1_get_dr_offset
Rx1DrOffset(dr_up, dr_offset) == IF dr_up > dr_offset THEN dr_up - dr_offset ELSE 0

\* gnrc_lorawan_region_mac_payload_max
PayloadMax(dr) == IF dr < 3 THEN 59 ELSE IF dr = 3 THEN 123 ELSE 250

\* t_sym of lora_time_on_air, 1 << (15 - dr) microseconds for DR0 to DR6.
TSym == <<32768, 16384, 8192, 4096, 2048, 1024, 512>>

\* The milliseconds CONFIG_GNRC_LORAWAN_MIN_SYMBOLS_TIMEOUT symbols take.
WindowMs(dr) == (50 * TSym[dr + 1]) \div 1000

\* _K of lora_time_on_air: n0, offset, c1 and c2 for DR0 to DR5; DR6 uses DR5's.
K == << <<0, 1, 5, 5>>, <<0, 1, 4, 5>>, <<1, 5, 5, 5>>,
        <<1, 4, 5, 4>>, <<1, 3, 4, 4>>, <<1, 2, 4, 3>> >>

\* Mutated form of SecondBlock: off by one.
SecondBlockLate(pos, c1) == IF pos > c1 THEN 1 ELSE 0

\* Whether the bytes behind the last cycle need a second block.
SecondBlock(pos, c1) == IF pos > c1 - 1 THEN 1 ELSE 0

\* The symbols of the payload after the first 8, in units of cr.
CodedBlocks(size, dr) ==
    LET k == K[IF dr < 6 THEN dr + 1 ELSE 6]
        past == size - k[2]
        cycle == past \div (k[3] + k[4])
        pos == past % (k[3] + k[4])
    IN  IF size < k[2] THEN k[1]
        ELSE k[1] + 2 * cycle + 1 + SecondBlock(pos, k[3])

\* lora_time_on_air, in microseconds; the preamble takes 12.25 symbols.
TimeOnAir(size, dr, cr) ==
    LET t_sym == TSym[dr + 1]
    IN  t_sym * 8 + t_sym * 4 + t_sym \div 4 + t_sym * (8 + CodedBlocks(size, dr) * cr)
=============================================================================
