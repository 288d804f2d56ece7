------------------------------- MODULE AiBudget -------------------------------
(***************************************************************************)
(* The monthly AI budget of one location (app/ai/budget.py): calls that    *)
(* are checked against the spend on record, made, and only then recorded;  *)
(* and the warning of the owner, deduplicated in the memory of a process.  *)
(*                                                                         *)
(* Two kinds of caller: the gatekeeper's classifier, which asks nobody,    *)
(* and the call sites that budget.py describes, which check_budget,        *)
(* assert_budget_available, AnthropicClient.complete and record.           *)
(***************************************************************************)
EXTENDS Naturals, FiniteSets

CONSTANTS Caller,   \* calls that can be under way at once, of all processes
          Monitor,  \* warnings that can be under way at once in one process
          Budget,   \* ai_monthly_budget_usd; 0 is no cap at all
          Cost,     \* what one recorded call may cost
          MaxCost,  \* the most of them
          Months,   \* bound: months
          Essential \* bound: essential spend of a month after which none begins

ASSUME CostAssumption ==
    /\ Budget \in Nat /\ MaxCost \in Nat /\ Essential \in Nat
    /\ Cost \subseteq 0..MaxCost

ASSUME MonthsAssumption == Months \in Nat \ {0}

ASSUME ConcurrencyAssumption == IsFiniteSet(Caller) /\ IsFiniteSet(Monitor)

Month == 1..Months
Classification == <<"gatekeeper", "classification">>
Reply == <<"UC04", "reply_handling">>
Draft == <<"UC04", "message_generation">>
Use == {Classification, Reply, Draft}

VARIABLES month,   \* the calendar month (UTC)
          usage,   \* what ai_usage has on record, by month of ts
          call,    \* what each call is doing
          monitor, \* what each warning is doing
          warned,  \* _soft_cap_warned of the process: a month, or 0
          mails    \* by month_key, the warnings this process reported as sent

vars == <<month, usage, call, monitor, warned, mails>>

Idle == [pc |-> "idle", use |-> Draft, cost |-> 0, ts |-> 0]
NoWarning == [pc |-> "idle", soft |-> FALSE, key |-> 0]

TypeOK ==
    /\ month \in Month
    /\ usage \in [Month -> [essential : Nat, other : Nat]]
    /\ call \in [Caller -> [pc : {"idle", "primary", "fallback", "written"}, use : Use,
                            cost : 0..MaxCost, ts : {0} \cup Month]]
    /\ monitor \in [Monitor -> [pc : {"idle", "checked", "sending"}, soft : BOOLEAN,
                                key : {0} \cup Month]]
    /\ warned \in {0} \cup Month
    /\ mails \in [Month -> Nat]

Init ==
    /\ month = 1
    /\ usage = [m \in Month |-> [essential |-> 0, other |-> 0]]
    /\ call = [c \in Caller |-> Idle]
    /\ monitor = [w \in Monitor |-> NoWarning]
    /\ warned = 0
    /\ mails = [m \in Month |-> 0]

-----------------------------------------------------------------------------
(* What is checked.                                                        *)

get_monthly_spend == usage[month].essential + usage[month].other

\* check_budget's ratio, 0 without a budget, against 0.8 and 1.0.
is_soft_cap_exceeded(spend) == Budget > 0 /\ 10 * spend >= 8 * Budget

\* Mutant: the call that would spend the last of it is refused one call late.
HardCapAbove(spend) == Budget > 0 /\ spend > Budget

is_hard_cap_exceeded(spend) == Budget > 0 /\ spend >= Budget

is_essential_call(use) == use[1] = "gatekeeper" \/ use = Reply

\* assert_budget_available raises BudgetExceededError.
Refused(use, spend) == is_hard_cap_exceeded(spend) /\ ~is_essential_call(use)

-----------------------------------------------------------------------------
(* A call.                                                                 *)

\* The classifier begins unchecked, and no other call does.
Checked(use) == use # Classification

Begin(c, use) ==
    /\ call[c].pc = "idle"
    /\ is_essential_call(use) => usage[month].essential < Essential
    /\ Checked(use) => ~Refused(use, get_monthly_spend)
    /\ call' = [call EXCEPT ![c] = [Idle EXCEPT !.pc = "primary", !.use = use]]
    /\ UNCHANGED <<month, usage, monitor, warned, mails>>

Refuse(c, use) ==
    /\ call[c].pc = "idle"
    /\ Checked(use) /\ Refused(use, get_monthly_spend)
    /\ UNCHANGED vars

\* complete tries the fallback model after the primary raised, whatever that was
\* billed; the classifier has one model.
FallBack(c) ==
    /\ call[c].pc = "primary" /\ Checked(call[c].use)
    /\ call' = [call EXCEPT ![c].pc = "fallback"]
    /\ UNCHANGED <<month, usage, monitor, warned, mails>>

\* A model answers; log_ai_usage adds a row of now, with the cost of this answer.
Answer(c) ==
    /\ call[c].pc \in {"primary", "fallback"}
    /\ \E cost \in Cost :
          call' = [call EXCEPT ![c].pc = "written", ![c].cost = cost, ![c].ts = month]
    /\ UNCHANGED <<month, usage, monitor, warned, mails>>

\* The caller's commit.
Record(c) ==
    /\ call[c].pc = "written"
    /\ LET m == call[c].ts
           cost == call[c].cost
       IN usage' = IF is_essential_call(call[c].use)
                   THEN [usage EXCEPT ![m].essential = @ + cost]
                   ELSE [usage EXCEPT ![m].other = @ + cost]
    /\ call' = [call EXCEPT ![c] = Idle]
    /\ UNCHANGED <<month, monitor, warned, mails>>

\* Every model raised, an answer was not understood, the transaction rolled back
\* or the process died: nothing is on record.
Lose(c) ==
    /\ call[c].pc # "idle"
    /\ call' = [call EXCEPT ![c] = Idle]
    /\ UNCHANGED <<month, usage, monitor, warned, mails>>

-----------------------------------------------------------------------------
(* The warning: check_budget, then maybe_send_soft_cap_warning.            *)

CheckForWarning(w) ==
    /\ monitor[w].pc = "idle"
    /\ monitor' = [monitor EXCEPT ![w].pc = "checked",
                                   ![w].soft = is_soft_cap_exceeded(get_monthly_spend)]
    /\ UNCHANGED <<month, usage, call, warned, mails>>

\* Mutant: months counted from January as 1 meet months counted from 0.
MonthKeyAhead == month + 1

month_key == month

Done(w) == monitor' = [monitor EXCEPT ![w] = NoWarning]

\* The status may be of the month before, and month_key is of now.
Warn(w) ==
    /\ monitor[w].pc = "checked"
    /\ IF monitor[w].soft /\ warned # month_key
       THEN monitor' = [monitor EXCEPT ![w].pc = "sending", ![w].key = month_key]
       ELSE Done(w)
    /\ UNCHANGED <<month, usage, call, warned, mails>>

\* Mutant: a warning that went out is not noted.
NotNoted(key) == warned' = warned

\* After the await: the month that was looked at before it.
Note(key) == warned' = key

MailSent(w) ==
    /\ monitor[w].pc = "sending"
    /\ Note(monitor[w].key)
    /\ mails' = [mails EXCEPT ![monitor[w].key] = @ + 1]
    /\ Done(w)
    /\ UNCHANGED <<month, usage, call>>

MailFails(w) ==
    /\ monitor[w].pc = "sending"
    /\ Done(w)
    /\ UNCHANGED <<month, usage, call, warned, mails>>

-----------------------------------------------------------------------------

\* The process restarts and forgets; its calls are lost one by one, by Lose.
Restart ==
    /\ warned' = 0
    /\ mails' = [m \in Month |-> 0]
    /\ monitor' = [w \in Monitor |-> NoWarning]
    /\ UNCHANGED <<month, usage, call>>

MonthEnds ==
    /\ month < Months
    /\ month' = month + 1
    /\ UNCHANGED <<usage, call, monitor, warned, mails>>

CallStep(c) ==
    \/ \E use \in Use : Begin(c, use) \/ Refuse(c, use)
    \/ FallBack(c) \/ Answer(c) \/ Record(c) \/ Lose(c)

MonitorStep(w) == CheckForWarning(w) \/ Warn(w) \/ MailSent(w) \/ MailFails(w)

Next ==
    \/ \E c \in Caller : CallStep(c)
    \/ \E w \in Monitor : MonitorStep(w)
    \/ Restart \/ MonthEnds

Spec == Init /\ [][Next]_vars

-----------------------------------------------------------------------------
(* Properties.                                                             *)

\* The hard cap: what non-essential calls have on record for a month is under the
\* budget but for one call of each caller, those included that were checked or
\* answered in the month before, however checks, answers and commits interleave.
Overshoot ==
    Budget > 0 =>
        \A m \in Month : usage[m].other + 1 <= Budget + Cardinality(Caller) * MaxCost

\* The deduplication: between two restarts a month sees no more warnings than the
\* concurrency explains, n(n + 1)/2 of n senders (documented: one).  n may have
\* looked before the first notes its mail, and each late mail of an older month
\* puts that month back, so that whoever is free by then sends again.
Concurrency == Cardinality(Monitor)
MailsBounded == \A m \in Month : mails[m] <= (Concurrency * (Concurrency + 1)) \div 2

=============================================================================
