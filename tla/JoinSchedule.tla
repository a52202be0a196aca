---------------------------- MODULE JoinSchedule ----------------------------
(***************************************************************************)
(* What the join backoff promises, by the hour since boot: the time on air *)
(* of joins is bounded per period, the first hour, the hours 1 to 10 after *)
(* it and every 24 hours from then on, with one join allowed to overrun.   *)
(***************************************************************************)
EXTENDS Integers

CONSTANTS Time1, Time2, Time3, Budget1, Budget2, Budget3, Airtimes

VARIABLES
    hour,        \* hourly ticks since boot
    spent        \* time on air of the joins of the period

Init == hour = 0 /\ spent = 0

\* The ticks that start a period.
Second == 1 + Time1
Third == Second + Time2
Boundary(h) == h \in {1, Second} \/ (h >= Third /\ (h - Third) % Time3 = 0)

\* The time on air the period hour h is in grants; before the first tick none.
Allowance(h) ==
    CASE h = 0 -> 0
      [] 0 < h /\ h < Second -> Budget1
      [] Second <= h /\ h < Third -> Budget2
      [] OTHER -> Budget3

Tick ==
    /\ hour' = hour + 1
    /\ spent' = IF Boundary(hour + 1) THEN 0 ELSE spent

Join ==
    /\ spent <= Allowance(hour)
    /\ \E toa \in Airtimes : spent' = spent + toa
    /\ UNCHANGED hour

Next == Tick \/ Join

Spec == Init /\ [][Next]_<<hour, spent>>
=============================================================================
