-------------------------- MODULE WritebackContract --------------------------
(***************************************************************************)
(* What the writeback queue promises for one idempotency key, without      *)
(* tables, workers or processes: an action is asked for once, tried a      *)
(* bounded number of times, and settled once and for all.                  *)
(***************************************************************************)
EXTENDS Naturals

CONSTANTS Key,    \* idempotency keys
          Bound   \* tries allowed for a key

VARIABLES outcome,  \* "none", "open", "done" or "abandoned" for each key
          tries     \* actions performed in Eversports for each key

ContractVars == <<outcome, tries>>

ContractInit ==
    /\ outcome = [k \in Key |-> "none"]
    /\ tries = [k \in Key |-> 0]

Ask(k) ==
    /\ outcome[k] = "none"
    /\ outcome' = [outcome EXCEPT ![k] = "open"]
    /\ UNCHANGED tries

Try(k) ==
    /\ outcome[k] = "open"
    /\ tries[k] < Bound
    /\ tries' = [tries EXCEPT ![k] = @ + 1]
    /\ UNCHANGED outcome

Settle(k) ==
    /\ outcome[k] = "open"
    /\ \E o \in {"done", "abandoned"} : outcome' = [outcome EXCEPT ![k] = o]
    /\ UNCHANGED tries

\* The admin abandons every open action of a location in one statement.
AbandonMany(S) ==
    /\ outcome' = [k \in Key |-> IF k \in S THEN "abandoned" ELSE outcome[k]]
    /\ UNCHANGED tries

ContractNext ==
    \/ \E k \in Key : Ask(k) \/ Try(k) \/ Settle(k)
    \/ \E S \in SUBSET {k \in Key : outcome[k] = "open"} : AbandonMany(S)

ContractSpec == ContractInit /\ [][ContractNext]_ContractVars

=============================================================================
