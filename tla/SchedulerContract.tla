-------------------------- MODULE SchedulerContract --------------------------
(***************************************************************************)
(* What the scheduler promises for one job, without its table, sessions,   *)
(* loops or processes: it is asked for, taken once and begun once, unless  *)
(* it is cancelled before.  A recovery may call it failed too early; only  *)
(* the verdict of its own run replaces that, and that verdict is final.    *)
(***************************************************************************)
CONSTANT Job

VARIABLES stage,   \* how far the job has come
          verdict  \* what is said of it

ContractVars == <<stage, verdict>>

ContractInit ==
    /\ stage = [j \in Job |-> "none"]
    /\ verdict = [j \in Job |-> "open"]

Move(S, from, to) ==
    /\ S \subseteq {j \in Job : stage[j] = from}
    /\ stage' = [j \in Job |-> IF j \in S THEN to ELSE stage[j]]
    /\ UNCHANGED verdict

\* Several jobs are asked for in one transaction, or cancelled in one statement.
AskMany(S) == Move(S, "none", "asked")
CancelMany(S) == Move(S, "asked", "cancelled")

Take(j) == Move({j}, "asked", "taken")
Begin(j) == Move({j}, "taken", "begun")

\* The work of a run that was called failed by its own task is not there, unless
\* the run is "unheard": its work is there and its task was never told.
Accomplish(j) ==
    /\ verdict[j] # "raised"
    /\ Move({j}, "begun", "accomplished") \/ Move({j}, "begun", "unheard")

\* A recovery cannot tell how far a job has come.
GiveUpMany(S) ==
    /\ S \subseteq {j \in Job :
                      /\ stage[j] \in {"taken", "begun", "accomplished", "unheard"}
                      /\ verdict[j] = "open"}
    /\ verdict' = [j \in Job |-> IF j \in S THEN "recovered" ELSE verdict[j]]
    /\ UNCHANGED stage

Judge(j) ==
    /\ verdict[j] \in {"open", "recovered"}
    /\ \/ stage[j] = "accomplished" /\ verdict' = [verdict EXCEPT ![j] = "done"]
       \/ stage[j] \in {"begun", "unheard"} /\ verdict' = [verdict EXCEPT ![j] = "raised"]
    /\ UNCHANGED stage

ContractNext ==
    \/ \E S \in SUBSET Job : AskMany(S) \/ CancelMany(S) \/ GiveUpMany(S)
    \/ \E j \in Job : Take(j) \/ Begin(j) \/ Accomplish(j) \/ Judge(j)

ContractSpec == ContractInit /\ [][ContractNext]_ContractVars

=============================================================================
