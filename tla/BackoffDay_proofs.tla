------------------------- MODULE BackoffDay_proofs -------------------------
(***************************************************************************)
(* Proofs about the join backoff for every length of the periods, every    *)
(* budget and every time on air: it follows the calendar of JoinSchedule,  *)
(* and a period's allowance is overrun by one join at most.                *)
(***************************************************************************)
EXTENDS BackoffDay, Remainders

-----------------------------------------------------------------------------
(* Types and the overrun *)

\* A join is let through only while the budget is not negative, and one that
\* overruns it makes it so.
OverrunInv ==
    /\ backoff_budget \in Int
    /\ hour \in 0 .. MaxHour /\ spent \in Nat
    /\ overrun \in {0, 1}
    /\ overrun = 1 => backoff_budget < 0

LEMMA GrantBudget == Grant(Phase).budget \in Nat
BY BackoffAssumption
DEF Grant, BackoffBudgets, BACKOFF_STATE_1, BACKOFF_STATE_2, BACKOFF_STATE_3

LEMMA OverrunStep ==
    ASSUME OverrunInv, [Next]_vars
    PROVE  OverrunInv'
<1>1. CASE Tick
  BY <1>1, GrantBudget, HourAssumption DEF Tick, BackoffExpire, OverrunInv
<1>2. CASE Join
  BY <1>2, BackoffAssumption DEF Join, Affordable, Charge, OverrunInv
<1>3. CASE UNCHANGED vars
  BY <1>3 DEF vars, backoff_vars, OverrunInv
<1>4. QED  BY <1>1, <1>2, <1>3 DEF Next

\* The byte that packs phase and hours never overflows, and the ledger counts
\* upwards, whatever the periods and budgets.
THEOREM TypeCorrect == Spec => []TypeOK
<1>1. Init => TypeOK
  BY HourAssumption DEF Init, BackoffInit, TypeOK, BackoffTypeOK
<1>2. TypeOK /\ [Next]_vars => TypeOK'
  <2> SUFFICES ASSUME TypeOK, [Next]_vars PROVE TypeOK'
    OBVIOUS
  <2>1. Phase \in 0..7 /\ Counter \in 0..31
    BY DEF TypeOK, BackoffTypeOK, Phase, Counter
  <2>2. CASE Tick
    <3>1. CASE Counter > 0
      <4>1. backoff_state' = Pack(Phase, Counter - 1)
        BY <2>1, <2>2, <3>1 DEF Tick, BackoffExpire
      <4>2. backoff_state' \in 0..255
        BY <2>1, <3>1, <4>1 DEF Pack
      <4>3. QED
        BY <2>1, <2>2, <3>1, <4>2, HourAssumption
        DEF Tick, BackoffExpire, TypeOK, BackoffTypeOK
    <3>2. CASE Counter = 0
      <4>1. /\ backoff_state' = Pack(Grant(Phase).phase, Grant(Phase).time - 1)
            /\ backoff_budget' = Grant(Phase).budget
        BY <2>2, <3>2 DEF Tick, BackoffExpire
      <4>2. Grant(Phase).phase \in 0..7 /\ Grant(Phase).time \in 1..32
        BY <2>1, BackoffAssumption
        DEF Grant, BackoffTimes, BACKOFF_STATE_1, BACKOFF_STATE_2, BACKOFF_STATE_3
      <4>3. backoff_state' \in 0..255
        BY <4>1, <4>2 DEF Pack
      <4>4. QED
        BY <2>2, <3>2, <4>1, <4>3, GrantBudget, HourAssumption
        DEF Tick, TypeOK, BackoffTypeOK
    <3>3. QED  BY <2>1, <3>1, <3>2
  <2>3. CASE Join
    BY <2>3, BackoffAssumption DEF Join, Affordable, Charge, TypeOK, BackoffTypeOK
  <2>4. CASE UNCHANGED vars
    BY <2>4 DEF vars, backoff_vars, TypeOK, BackoffTypeOK
  <2>5. QED  BY <2>2, <2>3, <2>4 DEF Next
<1>3. QED  BY <1>1, <1>2, PTL DEF Spec

-----------------------------------------------------------------------------
(* The calendar *)

\* The byte gives back the phase and the hours that were packed into it.
LEMMA PackUnpack ==
    ASSUME NEW phase \in 0..2, NEW counter \in 0..31,
           backoff_state' = Pack(phase, counter)
    PROVE  Phase' = phase /\ Counter' = counter
BY DEF Pack, Counter, Phase

LEMMA Times ==
    /\ BACKOFF_TIME_1 \in 1..32 /\ BACKOFF_TIME_2 \in 1..32 /\ BACKOFF_TIME_3 \in 1..32
    /\ BACKOFF_BUDGET_1 \in Nat /\ BACKOFF_BUDGET_2 \in Nat /\ BACKOFF_BUDGET_3 \in Nat
BY BackoffAssumption DEF BackoffTimes, BackoffBudgets

\* The grant that starts a period of the calendar.
GrantAt(h) == Grant(PhaseAt(h))

\* From one hour to the next the calendar counts the hours left down and, when
\* none is left, starts the period the phase stands for.
LEMMA NextHour ==
    ASSUME NEW h \in Nat
    PROVE  /\ HoursLeft(h) \in 0..31
           /\ Calendar!Boundary(h + 1) <=> HoursLeft(h) = 0
           /\ HoursLeft(h) > 0 =>
                /\ HoursLeft(h + 1) = HoursLeft(h) - 1
                /\ PhaseAt(h + 1) = PhaseAt(h)
                /\ Calendar!Allowance(h + 1) = Calendar!Allowance(h)
           /\ HoursLeft(h) = 0 =>
                /\ HoursLeft(h + 1) = GrantAt(h).time - 1
                /\ PhaseAt(h + 1) = GrantAt(h).phase
                /\ Calendar!Allowance(h + 1) = GrantAt(h).budget
<1> DEFINE T1 == BACKOFF_TIME_1
           T2 == BACKOFF_TIME_2
           T3 == BACKOFF_TIME_3
<1>1. CASE h = 0
  <2>1. HoursLeft(h) = 0 /\ HoursLeft(h + 1) = T1 - 1 /\ Calendar!Boundary(h + 1)
    BY <1>1, Times DEF HoursLeft, Calendar!Boundary, Calendar!Second
  <2>2. /\ PhaseAt(h) = 0 /\ PhaseAt(h + 1) = 1
        /\ Calendar!Allowance(h + 1) = BACKOFF_BUDGET_1
    BY <1>1, Times DEF PhaseAt, Calendar!Allowance, Calendar!Second,
                       BACKOFF_STATE_1, BACKOFF_STATE_2
  <2>3. QED
    BY <2>1, <2>2, Times DEF GrantAt, Grant, BACKOFF_STATE_1, BACKOFF_STATE_2
<1>2. CASE 0 < h /\ h < T1
  <2>1. HoursLeft(h) = T1 - h /\ HoursLeft(h + 1) = T1 - h - 1 /\ ~Calendar!Boundary(h + 1)
    BY <1>2, Times DEF HoursLeft, Calendar!Boundary, Calendar!Second, Calendar!Third
  <2>2. /\ PhaseAt(h) = PhaseAt(h + 1)
        /\ Calendar!Allowance(h + 1) = Calendar!Allowance(h)
    BY <1>2, Times DEF PhaseAt, Calendar!Allowance, Calendar!Second
  <2>3. QED  BY <1>2, <2>1, <2>2, Times
<1>3. CASE h = T1
  <2>1. HoursLeft(h) = 0 /\ HoursLeft(h + 1) = T2 - 1 /\ Calendar!Boundary(h + 1)
    BY <1>3, Times DEF HoursLeft, Calendar!Boundary, Calendar!Second, Calendar!Third
  <2>2. /\ PhaseAt(h) = 1 /\ PhaseAt(h + 1) = 2
        /\ Calendar!Allowance(h + 1) = BACKOFF_BUDGET_2
    BY <1>3, Times DEF PhaseAt, Calendar!Allowance, Calendar!Second, Calendar!Third,
                       BACKOFF_STATE_2, BACKOFF_STATE_3
  <2>3. QED
    BY <2>1, <2>2, Times DEF GrantAt, Grant, BACKOFF_STATE_1, BACKOFF_STATE_2, BACKOFF_STATE_3
<1>4. CASE T1 < h /\ h < T1 + T2
  <2>1. /\ HoursLeft(h) = T1 + T2 - h /\ HoursLeft(h + 1) = T1 + T2 - h - 1
        /\ ~Calendar!Boundary(h + 1)
    BY <1>4, Times DEF HoursLeft, Calendar!Boundary, Calendar!Second, Calendar!Third
  <2>2. /\ PhaseAt(h) = PhaseAt(h + 1)
        /\ Calendar!Allowance(h + 1) = Calendar!Allowance(h)
    BY <1>4, Times DEF PhaseAt, Calendar!Allowance, Calendar!Second, Calendar!Third
  <2>3. QED  BY <1>4, <2>1, <2>2, Times
<1>5. CASE h = T1 + T2
  <2>1. 0 % T3 = 0 /\ h + 1 = Calendar!Third
    BY <1>5, Times DEF Calendar!Second, Calendar!Third
  <2>2. HoursLeft(h) = 0
    BY <1>5, Times DEF HoursLeft, Calendar!Second, Calendar!Third
  <2>3. HoursLeft(h + 1) = T3 - 1 /\ Calendar!Boundary(h + 1)
    <3>1. (h + 1) - Calendar!Third = 0  BY <2>1
    <3>2. /\ ~(h + 1 = 0) /\ ~(h + 1 < Calendar!Second) /\ ~(h + 1 < Calendar!Third)
          /\ h + 1 >= Calendar!Third
      BY <1>5, Times DEF Calendar!Second, Calendar!Third
    <3>3. QED  BY <2>1, <3>1, <3>2, Times DEF HoursLeft, Calendar!Boundary
  <2>4. /\ PhaseAt(h) = 2 /\ PhaseAt(h + 1) = 2
        /\ Calendar!Allowance(h + 1) = BACKOFF_BUDGET_3
    BY <1>5, Times DEF PhaseAt, Calendar!Allowance, Calendar!Second, Calendar!Third,
                       BACKOFF_STATE_3
  <2>5. QED
    BY <2>2, <2>3, <2>4, Times DEF GrantAt, Grant, BACKOFF_STATE_1, BACKOFF_STATE_2, BACKOFF_STATE_3
<1>6. CASE h > T1 + T2
  <2> DEFINE x == h - Calendar!Third
  <2>1. x \in Nat /\ (h + 1) - Calendar!Third = x + 1
    BY <1>6, Times DEF Calendar!Second, Calendar!Third
  <2>2. /\ HoursLeft(h) = T3 - 1 - (x % T3)
        /\ HoursLeft(h + 1) = T3 - 1 - ((x + 1) % T3)
        /\ Calendar!Boundary(h + 1) <=> (x + 1) % T3 = 0
    <3>1. /\ ~(h = 0) /\ ~(h < Calendar!Second) /\ ~(h < Calendar!Third)
          /\ ~(h + 1 = 0) /\ ~(h + 1 < Calendar!Second) /\ ~(h + 1 < Calendar!Third)
          /\ h + 1 >= Calendar!Third /\ h + 1 \notin {1, Calendar!Second}
      BY <1>6, Times DEF Calendar!Second, Calendar!Third
    <3>2. HoursLeft(h) = T3 - 1 - (x % T3)
      BY <3>1 DEF HoursLeft
    <3>3. HoursLeft(h + 1) = T3 - 1 - ((x + 1) % T3)
      BY <3>1, <2>1 DEF HoursLeft
    <3>4. Calendar!Boundary(h + 1) <=> (x + 1) % T3 = 0
      BY <3>1, <2>1 DEF Calendar!Boundary
    <3>5. QED  BY <3>2, <3>3, <3>4
  <2>3. /\ PhaseAt(h) = 2 /\ PhaseAt(h + 1) = 2
        /\ Calendar!Allowance(h) = BACKOFF_BUDGET_3
        /\ Calendar!Allowance(h + 1) = BACKOFF_BUDGET_3
    BY <1>6, Times DEF PhaseAt, Calendar!Allowance, Calendar!Second, Calendar!Third,
                       BACKOFF_STATE_3
  <2>4. GrantAt(h) = [time |-> T3, phase |-> 2, budget |-> BACKOFF_BUDGET_3]
    BY <2>3 DEF GrantAt, Grant, BACKOFF_STATE_1, BACKOFF_STATE_2, BACKOFF_STATE_3
  <2> HIDE DEF x
  <2>5. /\ x % T3 \in 0 .. T3 - 1
        /\ (x + 1) % T3 = IF x % T3 = T3 - 1 THEN 0 ELSE (x % T3) + 1
    <3>1. T3 \in Nat \ {0}  BY Times
    <3> HIDE DEF T3
    <3>2. QED  BY <2>1, <3>1, DivMod, NextRemainder
  <2>6. QED  BY <2>2, <2>3, <2>4, <2>5, Times
<1>7. QED  BY <1>1, <1>2, <1>3, <1>4, <1>5, <1>6, Times
\* The byte tells the hour, and what is left of the budget what was spent.
CalendarInv == OverrunInv /\ StateOnTime /\ BudgetAddsUp

\* A step of the calendar, for a step of the code.
CalendarStep == Calendar!Next \/ UNCHANGED <<hour, spent>>

LEMMA CalendarInit ==
    ASSUME Init
    PROVE  CalendarInv /\ Calendar!Init
<1>1. OverrunInv /\ Calendar!Init
  BY HourAssumption DEF Init, BackoffInit, OverrunInv, Calendar!Init
<1>2. StateOnTime
  <2>1. hour = 0 /\ Phase = 0 /\ Counter = 0
    BY DEF Init, BackoffInit, Phase, Counter
  <2>2. PhaseAt(0) = 0 /\ HoursLeft(0) = 0
    BY Times DEF PhaseAt, HoursLeft, Calendar!Second, Calendar!Third, BACKOFF_STATE_1
  <2>3. QED  BY <2>1, <2>2 DEF StateOnTime
<1>3. BudgetAddsUp
  <2>1. Calendar!Allowance(0) = 0
    BY Times DEF Calendar!Allowance, Calendar!Second, Calendar!Third
  <2>2. QED  BY <2>1 DEF Init, BackoffInit, BudgetAddsUp
<1>4. QED  BY <1>1, <1>2, <1>3 DEF CalendarInv

LEMMA PhaseRange ==
    ASSUME NEW h \in Nat
    PROVE  PhaseAt(h) \in 0..2 /\ GrantAt(h).phase \in 0..2 /\ GrantAt(h).time \in 1..32
<1>1. PhaseAt(h) \in 0..2
  BY DEF PhaseAt, BACKOFF_STATE_1, BACKOFF_STATE_2, BACKOFF_STATE_3
<1>2. QED
  BY <1>1, Times DEF GrantAt, Grant, BACKOFF_STATE_1, BACKOFF_STATE_2, BACKOFF_STATE_3

LEMMA CalendarTick ==
    ASSUME CalendarInv, Tick
    PROVE  StateOnTime' /\ BudgetAddsUp' /\ Calendar!Tick
<1>1. hour \in Nat /\ backoff_budget \in Int /\ spent \in Nat
  BY HourAssumption DEF CalendarInv, OverrunInv
<1>2. Counter = HoursLeft(hour) /\ Phase = PhaseAt(hour)
  BY DEF CalendarInv, StateOnTime
<1>3. hour' = hour + 1 /\ backoff_budget + spent = Calendar!Allowance(hour)
  BY DEF CalendarInv, BudgetAddsUp, Tick
<1>4. CASE Counter > 0
  <2>1. /\ backoff_state' = Pack(PhaseAt(hour), HoursLeft(hour) - 1)
        /\ backoff_budget' = backoff_budget /\ spent' = spent
    BY <1>1, <1>2, <1>4 DEF Tick, BackoffExpire
  <2>2. Phase' = PhaseAt(hour) /\ Counter' = HoursLeft(hour) - 1
    <3>1. PhaseAt(hour) \in 0..2 /\ HoursLeft(hour) - 1 \in 0..31
      BY <1>1, <1>2, <1>4, NextHour, PhaseRange
    <3>2. QED  BY <2>1, <3>1, PackUnpack
  <2>3. /\ HoursLeft(hour + 1) = HoursLeft(hour) - 1
        /\ PhaseAt(hour + 1) = PhaseAt(hour)
        /\ Calendar!Allowance(hour + 1) = Calendar!Allowance(hour)
        /\ ~Calendar!Boundary(hour + 1)
    BY <1>1, <1>2, <1>4, NextHour
  <2>4. QED
    BY <1>3, <2>1, <2>2, <2>3 DEF StateOnTime, BudgetAddsUp, Calendar!Tick
<1>5. CASE Counter = 0
  <2>1. /\ backoff_state' = Pack(GrantAt(hour).phase, GrantAt(hour).time - 1)
        /\ backoff_budget' = GrantAt(hour).budget /\ spent' = 0
    BY <1>2, <1>5 DEF Tick, BackoffExpire, GrantAt
  <2>2. Phase' = GrantAt(hour).phase /\ Counter' = GrantAt(hour).time - 1
    <3>1. GrantAt(hour).phase \in 0..2 /\ GrantAt(hour).time - 1 \in 0..31
      BY <1>1, PhaseRange
    <3>2. QED  BY <2>1, <3>1, PackUnpack
  <2>3. /\ HoursLeft(hour + 1) = GrantAt(hour).time - 1
        /\ PhaseAt(hour + 1) = GrantAt(hour).phase
        /\ Calendar!Allowance(hour + 1) = GrantAt(hour).budget
        /\ Calendar!Boundary(hour + 1)
    BY <1>1, <1>2, <1>5, NextHour
  <2>4. backoff_budget' \in Int
    <3>1. OverrunInv'  BY OverrunStep DEF CalendarInv, Next
    <3>2. QED  BY <3>1 DEF OverrunInv
  <2>5. QED
    BY <1>3, <2>1, <2>2, <2>3, <2>4 DEF StateOnTime, BudgetAddsUp, Calendar!Tick
<1>6. Counter \in 0..31
  BY <1>1, <1>2, NextHour
<1>7. QED  BY <1>4, <1>5, <1>6

LEMMA CalendarJoin ==
    ASSUME CalendarInv, Join
    PROVE  StateOnTime' /\ BudgetAddsUp' /\ Calendar!Join
<1>1. backoff_budget \in Int /\ spent \in Nat /\ backoff_budget >= 0
  BY DEF CalendarInv, OverrunInv, Join, Affordable
<1>2. PICK toa \in Airtimes : backoff_budget' = backoff_budget - toa /\ spent' = spent + toa
  BY DEF Join, Charge
<1>3. UNCHANGED <<backoff_state, hour>>
  BY DEF Join, Charge
<1>4. backoff_budget + spent = Calendar!Allowance(hour) /\ toa \in Nat
  BY BackoffAssumption DEF CalendarInv, BudgetAddsUp
<1>5. StateOnTime'
  BY <1>3 DEF CalendarInv, StateOnTime, Counter, Phase
<1>6. BudgetAddsUp'
  BY <1>1, <1>2, <1>3, <1>4 DEF BudgetAddsUp
<1>7. Calendar!Join
  BY <1>1, <1>2, <1>3, <1>4 DEF Calendar!Join
<1>8. QED  BY <1>5, <1>6, <1>7

\* The time on air of the joins of a period, but for the last.
SpentInv ==
    \/ spent <= Calendar!Allowance(hour)
    \/ \E toa \in Airtimes : spent <= Calendar!Allowance(hour) + toa

LEMMA SpentStep ==
    ASSUME CalendarInv, SpentInv, [Next]_vars
    PROVE  SpentInv'
<1>1. hour \in Nat /\ spent \in Nat /\ backoff_budget \in Int
      /\ backoff_budget + spent = Calendar!Allowance(hour)
  BY HourAssumption DEF CalendarInv, OverrunInv, BudgetAddsUp
<1>2. CASE Tick
  <2>1. hour' = hour + 1  BY <1>2 DEF Tick
  <2>2. CASE Calendar!Boundary(hour')
    <3>1. spent' = 0  BY <1>2, <2>1, <2>2, CalendarTick DEF Calendar!Tick
    <3>2. Calendar!Allowance(hour') \in Nat
      BY <1>1, <2>1, BackoffAssumption DEF Calendar!Allowance, BackoffBudgets
    <3>3. QED  BY <3>1, <3>2 DEF SpentInv
  <2>3. CASE ~Calendar!Boundary(hour')
    <3>1. HoursLeft(hour) > 0
      BY <1>1, <2>1, <2>3, NextHour
    <3>2. Calendar!Allowance(hour') = Calendar!Allowance(hour)
      BY <1>1, <2>1, <3>1, NextHour
    <3>3. spent' = spent
      BY <1>2, <2>1, <2>3, CalendarTick DEF Calendar!Tick
    <3>4. QED  BY <3>2, <3>3 DEF SpentInv
  <2>4. QED  BY <2>2, <2>3
<1>3. CASE Join
  <2>1. PICK toa \in Airtimes : spent' = spent + toa
    BY <1>3 DEF Join
  <2>2. backoff_budget >= 0 /\ hour' = hour /\ toa \in Nat
    BY <1>3, BackoffAssumption DEF Join, Affordable
  <2>3. spent' <= Calendar!Allowance(hour) + toa
    BY <1>1, <2>1, <2>2
  <2>4. QED  BY <2>2, <2>3 DEF SpentInv
<1>4. CASE UNCHANGED vars
  BY <1>4 DEF vars, SpentInv
<1>5. QED  BY <1>2, <1>3, <1>4 DEF Next

LEMMA CalendarNext ==
    ASSUME CalendarInv, [Next]_vars
    PROVE  CalendarInv' /\ CalendarStep
<1>1. OverrunInv'
  BY OverrunStep DEF CalendarInv
<1>2. CASE Tick
  BY <1>1, <1>2, CalendarTick DEF CalendarInv, CalendarStep, Calendar!Next
<1>3. CASE Join
  BY <1>1, <1>3, CalendarJoin DEF CalendarInv, CalendarStep, Calendar!Next
<1>4. CASE UNCHANGED vars
  <2>1. UNCHANGED <<backoff_state, backoff_budget, hour, spent>>
    BY <1>4 DEF vars, backoff_vars
  <2>2. StateOnTime' /\ BudgetAddsUp'
    BY <2>1 DEF CalendarInv, StateOnTime, BudgetAddsUp, Counter, Phase
  <2>3. QED  BY <1>1, <2>1, <2>2 DEF CalendarInv, CalendarStep
<1>5. QED  BY <1>2, <1>3, <1>4 DEF Next

\* The byte holds the phase and the hours left of the calendar at every hour,
\* whatever the lengths of the periods, as long as they fit in its five bits.
THEOREM StateCorrect == Spec => []StateOnTime
<1>1. CalendarInv => StateOnTime  BY DEF CalendarInv
<1>2. QED  BY <1>1, CalendarInit, CalendarNext, PTL DEF Spec

\* What is left of the budget and what was spent add up to the allowance of the
\* period: no tick in between adds to the budget and no join goes unpaid.
THEOREM BudgetCorrect == Spec => []BudgetAddsUp
<1>1. CalendarInv => BudgetAddsUp  BY DEF CalendarInv
<1>2. QED  BY <1>1, CalendarInit, CalendarNext, PTL DEF Spec

\* A period's allowance is overrun by one join at most, and by no more than a
\* join's time on air, whatever the budgets, the lengths of the periods and the
\* times on air: MLME_JOIN refuses once the budget is negative, and only a tick that
\* grants makes it positive.
THEOREM OverrunCorrect == Spec => []OverrunOnce
<1>1. CalendarInv /\ SpentInv => OverrunOnce
  BY DEF CalendarInv, OverrunInv, SpentInv, OverrunOnce
<1>2. Init => SpentInv
  <2>1. Calendar!Allowance(0) = 0
    BY Times DEF Calendar!Allowance, Calendar!Second, Calendar!Third
  <2>2. QED  BY <2>1 DEF Init, SpentInv
<1>3. QED  BY <1>1, <1>2, SpentStep, CalendarInit, CalendarNext, PTL DEF Spec

\* The backoff implements the calendar of periods: its ticks start a period
\* when the calendar does, and a join it lets through is one the calendar does.
THEOREM CalendarRefinement == Spec => FollowsCalendar
<1>1. CalendarStep <=> [Calendar!Next]_<<hour, spent>>
  BY DEF CalendarStep
<1>2. QED
  BY <1>1, CalendarInit, CalendarNext, PTL DEF Spec, FollowsCalendar, Calendar!Spec
=============================================================================
