-------------------------- MODULE LorawanBackoff --------------------------
(***************************************************************************)
(* The time-on-air budget of join requests: the byte mlme.backoff_state    *)
(* (phase in bits 5..7, hours left in bits 0..4), mlme.backoff_budget, the *)
(* hourly tick gnrc_lorawan_mlme_backoff_expire and the charge a join      *)
(* request makes.                                                          *)
(***************************************************************************)
EXTENDS Integers

CONSTANTS
    BACKOFF_TIME_1, BACKOFF_TIME_2, BACKOFF_TIME_3,       \* hours a budget lasts
    BACKOFF_BUDGET_1, BACKOFF_BUDGET_2, BACKOFF_BUDGET_3, \* time on air granted
    Airtimes              \* time on air a join request may take (mac->toa)

BackoffTimes == {BACKOFF_TIME_1, BACKOFF_TIME_2, BACKOFF_TIME_3}
BackoffBudgets == {BACKOFF_BUDGET_1, BACKOFF_BUDGET_2, BACKOFF_BUDGET_3}

\* The hours left, less the tick that grants them, must fit in five bits.
ASSUME BackoffAssumption ==
    /\ BackoffTimes \subseteq 1..32
    /\ BackoffBudgets \subseteq Nat
    /\ Airtimes \subseteq Nat

VARIABLES
    backoff_state,        \* uint8_t: phase << 5 | hours left
    backoff_budget        \* int32_t: time on air left, negative once overspent

backoff_vars == <<backoff_state, backoff_budget>>

BACKOFF_STATE_1 == 0
BACKOFF_STATE_2 == 1
BACKOFF_STATE_3 == 2

Counter == backoff_state % 32
Phase == backoff_state \div 32

Pack(phase, counter) == (phase * 32) + (counter % 32)

-----------------------------------------------------------------------------
\* gnrc_lorawan_mlme_backoff_init clears the state byte.  The budget is not
\* written by any init: the descriptor is zeroed storage.
BackoffInit == backoff_state = 0 /\ backoff_budget = 0

\* Mutated form of Grant: the first grant already moves to the last phase.
GrantSkipsPhase(phase) ==
    IF phase = BACKOFF_STATE_1
    THEN [time |-> BACKOFF_TIME_1, phase |-> BACKOFF_STATE_3, budget |-> BACKOFF_BUDGET_1]
    ELSE [time |-> BACKOFF_TIME_3, phase |-> phase, budget |-> BACKOFF_BUDGET_3]

\* What a tick that finds no hour left grants, by phase.
Grant(phase) ==
    CASE phase = BACKOFF_STATE_1 ->
            [time |-> BACKOFF_TIME_1, phase |-> BACKOFF_STATE_2, budget |-> BACKOFF_BUDGET_1]
      [] phase = BACKOFF_STATE_2 ->
            [time |-> BACKOFF_TIME_2, phase |-> BACKOFF_STATE_3, budget |-> BACKOFF_BUDGET_2]
      [] OTHER ->
            [time |-> BACKOFF_TIME_3, phase |-> phase, budget |-> BACKOFF_BUDGET_3]

\* Mutated form of BackoffExpire: the tick that grants does not count.
BackoffExpireLate ==
    \/ /\ Counter > 0
       /\ backoff_state' = Pack(Phase, Counter - 1)
       /\ UNCHANGED backoff_budget
    \/ /\ Counter = 0
       /\ backoff_state' = Pack(Grant(Phase).phase, Grant(Phase).time)
       /\ backoff_budget' = Grant(Phase).budget

\* gnrc_lorawan_mlme_backoff_expire, called once an hour.
BackoffExpire ==
    \/ /\ Counter > 0
       /\ backoff_state' = Pack(Phase, Counter - 1)
       /\ UNCHANGED backoff_budget
    \/ /\ Counter = 0
       /\ backoff_state' = Pack(Grant(Phase).phase, Grant(Phase).time - 1)
       /\ backoff_budget' = Grant(Phase).budget

\* Mutated form of Affordable: the budget is not checked.
AffordableAlways == TRUE

\* The check of MLME_JOIN: only an overspent budget refuses.
Affordable == backoff_budget >= 0

\* Mutated form of Charge: the request is not paid for.
ChargeNothing(toa) == UNCHANGED <<backoff_budget, backoff_state>>

\* gnrc_lorawan_send_join_request: the request is paid for once it is sent.
Charge(toa) ==
    /\ backoff_budget' = backoff_budget - toa
    /\ UNCHANGED backoff_state

BackoffTypeOK ==
    /\ backoff_state \in 0..255
    /\ backoff_budget \in Int
=============================================================================
