----------------------------- MODULE BackoffDay -----------------------------
(***************************************************************************)
(* The join backoff over the days after boot: the hourly tick, the joins   *)
(* the budget lets through, and a ledger of the hours and the time on air. *)
(***************************************************************************)
EXTENDS LorawanBackoff

CONSTANT MaxHour        \* bound on the hours after boot

ASSUME HourAssumption == MaxHour \in Nat

VARIABLES
    hour,        \* calls of gnrc_lorawan_mlme_backoff_expire
    spent,       \* time on air of the joins sent since the last grant
    overrun      \* joins sent since the last grant that overran the budget

vars == <<backoff_vars, hour, spent, overrun>>

Init == BackoffInit /\ hour = 0 /\ spent = 0 /\ overrun = 0

\* An hourly tick; the one that finds no hour left grants anew.
Tick ==
    /\ hour < MaxHour
    /\ BackoffExpire
    /\ hour' = hour + 1
    /\ spent' = IF Counter = 0 THEN 0 ELSE spent
    /\ overrun' = IF Counter = 0 THEN 0 ELSE overrun

\* A join request the budget lets through.
Join ==
    /\ Affordable
    /\ \E toa \in Airtimes :
        /\ Charge(toa)
        /\ spent' = spent + toa
        /\ overrun' = IF toa > backoff_budget THEN overrun + 1 ELSE overrun
    /\ UNCHANGED hour

Next == Tick \/ Join

Spec == Init /\ [][Next]_vars

-----------------------------------------------------------------------------
\* The packed state stays within its byte and the ledger counts upwards.
TypeOK == BackoffTypeOK /\ hour \in 0 .. MaxHour /\ spent \in Nat /\ overrun \in Nat

\* The phase and the hours left, packed in one byte and ticked down, follow the
\* calendar of periods, and the budget lets a join through exactly when the
\* joins of the period have not exceeded its allowance.
Calendar == INSTANCE JoinSchedule
    WITH Time1 <- BACKOFF_TIME_1, Time2 <- BACKOFF_TIME_2, Time3 <- BACKOFF_TIME_3,
         Budget1 <- BACKOFF_BUDGET_1, Budget2 <- BACKOFF_BUDGET_2,
         Budget3 <- BACKOFF_BUDGET_3
FollowsCalendar == Calendar!Spec

\* Every unit of time on air is charged once: what is left and what was spent
\* add up to the allowance of the period the calendar says it is.
BudgetAddsUp == backoff_budget + spent = Calendar!Allowance(hour)

\* A period's allowance is overrun by one join at most, the one that exhausts
\* it, and by no more than the time a join can take on the air.
OverrunOnce ==
    /\ overrun <= 1
    /\ \/ spent <= Calendar!Allowance(hour)
       \/ \E toa \in Airtimes : spent <= Calendar!Allowance(hour) + toa

\* The phase and the hours left until the next grant, by the calendar.
PhaseAt(h) ==
    CASE h = 0 -> BACKOFF_STATE_1
      [] 0 < h /\ h < Calendar!Second -> BACKOFF_STATE_2
      [] OTHER -> BACKOFF_STATE_3

HoursLeft(h) ==
    CASE h = 0 -> 0
      [] 0 < h /\ h < Calendar!Second -> Calendar!Second - 1 - h
      [] Calendar!Second <= h /\ h < Calendar!Third -> Calendar!Third - 1 - h
      [] OTHER -> BACKOFF_TIME_3 - 1 - ((h - Calendar!Third) % BACKOFF_TIME_3)

\* The byte holds the phase and the hours left of the calendar at every hour:
\* no grant comes an hour early or late, however many came before it.
StateOnTime == Phase = PhaseAt(hour) /\ Counter = HoursLeft(hour)
=============================================================================
