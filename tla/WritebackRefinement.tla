------------------------- MODULE WritebackRefinement -------------------------
(***************************************************************************)
(* The writeback queue implements its contract, for every number of        *)
(* processes, rows, keys and attempts, while a commit that raises has not  *)
(* been made: a commit whose answer is lost lets a row that says succeeded *)
(* be written dead afterwards.                                             *)
(***************************************************************************)
EXTENDS WritebackQueueProofs

\* No task believes that a row failed which the table says succeeded.
NoLie == \A p \in Proc, j \in Job : task[p][j].pc = "failing" => row[j].status = "running"

RInv == IInv /\ NoLie

\* The state of the contract, for one key.
OutcomeBar(k) == IF RowsOf(k) = {} THEN "none"
                 ELSE OutcomeOf(row[CHOOSE j \in RowsOf(k) : TRUE].status)
TriesBar(k) == IF RowsOf(k) = {} THEN 0 ELSE effects[CHOOSE j \in RowsOf(k) : TRUE]

-----------------------------------------------------------------------------
(* Rows that are held are running.                                         *)

LEMMA StepKeepsNoLie ==
    ASSUME "ambiguous" \notin Faults, RInv, NEW p \in Proc, NEW j \in Job, Step(p, j)
    PROVE  NoLie'
<1> USE DEF RInv, IInv
<1>1. task[p][j].error \in Error
  BY DEF TypeOK, Task
<1>2. CASE AcquireSlot(p, j) \/ HandlerRefuses(p, j) \/ HandlerDryRun(p, j)
           \/ HandlerRaises(p, j) \/ EversportsActs(p, j) \/ RecordAudit(p, j)
           \/ MarkSucceededRaises(p, j)
  <2>1. UNCHANGED row /\ task[p][j].pc \in Holding /\ task[p][j].pc # "failing"
    BY <1>2 DEF AcquireSlot, HandlerRefuses, HandlerDryRun, HandlerRaises, EversportsActs,
         HandlerProceeds, RecordAudit, MarkSucceededRaises, Holding, Executing
  <2>2. row[j].status = "running"
    BY <2>1 DEF HeldRow
  <2>3. \E pc \in Executing, e \in Error : Goto(p, j, pc, e)
    BY <1>2 DEF AcquireSlot, HandlerRefuses, HandlerDryRun, HandlerRaises, EversportsActs,
         RecordAudit, MarkSucceededRaises, Executing, Error
  <2>4. \A q \in Proc, i \in Job : q # p \/ i # j => task'[q][i] = task[q][i]
    BY <2>3, GotoFrame
  <2>5. QED
    BY <2>1, <2>2, <2>4 DEF NoLie
<1>3. CASE MarkSucceeded(p, j) \/ MarkFailedOrDead(p, j) \/ MarkFailedRaises(p, j)
           \/ NotifyFailure(p, j)
  <2>1. /\ task'[p][j].pc # "failing"
        /\ \A q \in Proc, i \in Job : q # p \/ i # j => task'[q][i] = task[q][i]
    <3>1. Finish(p, j) \/ \E e \in Error : Goto(p, j, "notifying", e)
      BY <1>1, <1>3 DEF MarkSucceeded, MarkFailedOrDead, MarkFailedRaises, NotifyFailure
    <3>2. QED
      BY <3>1, FinishFrame, GotoFrame DEF Executing
  <2>2. CASE NotifyFailure(p, j)
    BY <2>1, <2>2 DEF NotifyFailure, NoLie
  <2>3. CASE MarkSucceeded(p, j) \/ MarkFailedOrDead(p, j) \/ MarkFailedRaises(p, j)
    <3>1. task[p][j].pc \in Holding
      BY <2>3 DEF MarkSucceeded, MarkFailedOrDead, MarkFailedRaises, Holding, Executing
    <3>2. \A i \in Job : i # j => row'[i] = row[i]
      BY <2>3 DEF MarkSucceeded, MarkFailedOrDead, MarkFailedRaises, SetSucceeded,
                  SetFailedOrDead, TypeOK
    <3>3. \A q \in Proc : q # p => task[q][j].pc # "failing"
      BY <3>1 DEF OneExecutor, Holding, Executing
    <3>4. QED
      BY <2>1, <3>2, <3>3 DEF NoLie
  <2>4. QED
    BY <1>3, <2>2, <2>3
<1>4. QED
  BY <1>2, <1>3 DEF Step

LEMMA NextKeepsRInv ==
    ASSUME "ambiguous" \notin Faults, RInv, [Next]_vars
    PROVE  RInv'
<1> USE DEF RInv, IInv
<1>1. ASSUME UNCHANGED vars
      PROVE  NoLie'
  BY <1>1 DEF vars, NoLie
<1>2. ASSUME NEW p \in Proc, NEW r \in Request, Enqueue(p, r)
      PROVE  NoLie'
  BY <1>2 DEF Enqueue, NoLie, TypeOK
<1>3. ASSUME NEW p \in Proc, NEW r \in Request, CancelPending(p, r.location)
      PROVE  NoLie'
  BY <1>3 DEF CancelPending, Cancellable, NoLie
<1>4. ASSUME NEW j \in Job, SetRunning(j)
      PROVE  \A i \in Job : row[i].status = "running" => row'[i].status = "running"
  BY <1>4 DEF SetRunning, TypeOK, Row
<1>5. ASSUME NEW p \in Proc, NEW j \in Job, Claim(p, j)
      PROVE  NoLie'
  <2>1. \A q \in Proc, i \in Job : task'[q][i].pc = "failing" => task[q][i].pc = "failing"
    BY <1>5 DEF Claim, TypeOK
  <2>2. QED
    BY <1>4, <1>5, <2>1 DEF Claim, NoLie
<1>6. ASSUME NEW p \in Proc, NEW j \in Job, Step(p, j)
      PROVE  NoLie'
  BY <1>6, StepKeepsNoLie
<1>7. ASSUME NEW p \in Proc, ClaimBreaks(p)
      PROVE  NoLie'
  BY <1>7 DEF ClaimBreaks, NoLie
<1>8. ASSUME NEW p \in Proc, Boot(p) \/ StopRequested(p) \/ Stopped(p)
      PROVE  NoLie'
  BY <1>8 DEF Boot, StopRequested, Stopped, NoLie
<1>9. ASSUME NEW p \in Proc, Die(p)
      PROVE  NoLie'
  BY <1>9 DEF Die, NoLie, NoTask, TypeOK
<1>10. ASSUME NEW j \in Job, RetryDelayElapses(j)
       PROVE  NoLie'
  BY <1>10 DEF RetryDelayElapses, NoLie, TypeOK, Row
<1>11. NoLie'
  BY <1>1, <1>2, <1>3, <1>5, <1>6, <1>7, <1>8, <1>9, <1>10 DEF Next
<1>12. IInv'
  BY NextKeepsIInv
<1>13. QED
  BY <1>11, <1>12

-----------------------------------------------------------------------------
(* The contract's view of the table.                                       *)

Present(j) == row[j].status # "absent"
KeyOf(j) == MakeKey(row[j].request)

\* A row in the table is the row of its key.
LEMMA View ==
    ASSUME IInv, NEW j \in Job, Present(j)
    PROVE  /\ KeyOf(j) \in Keys
           /\ OutcomeBar(KeyOf(j)) = OutcomeOf(row[j].status)
           /\ TriesBar(KeyOf(j)) = effects[j]
<1>1. row[j].request \in Request
  BY DEF IInv, TypeOK, Row
<1>2. KeyOf(j) \in Keys
  BY <1>1 DEF KeyOf, Keys
<1>3. RowsOf(KeyOf(j)) = {j}
  BY DEF IInv, OneRowPerKey, RowsOf, Present, KeyOf
<1>4. (CHOOSE i \in RowsOf(KeyOf(j)) : TRUE) = j
  BY <1>3
<1>5. QED
  BY <1>2, <1>3, <1>4 DEF OutcomeBar, TriesBar

LEMMA ViewAfter ==
    ASSUME IInv', NEW k, NEW j \in Job, Present(j)', KeyOf(j)' = k
    PROVE  OutcomeBar(k)' = OutcomeOf(row'[j].status) /\ TriesBar(k)' = effects'[j]
<1>1. RowsOf(k)' = {j}
  BY DEF IInv, OneRowPerKey, RowsOf, Present, KeyOf
<1>2. (CHOOSE i \in RowsOf(k)' : TRUE) = j
  BY <1>1
<1>3. QED
  BY <1>1, <1>2 DEF OutcomeBar, TriesBar

\* A key without a row is as good as new.
LEMMA NoView ==
    ASSUME NEW k, \A j \in Job : Present(j) => KeyOf(j) # k
    PROVE  OutcomeBar(k) = "none" /\ TriesBar(k) = 0
BY DEF OutcomeBar, TriesBar, RowsOf, Present, KeyOf

\* Unless its row is touched, a key looks the same after a step.
LEMMA KeyStands ==
    ASSUME IInv, IInv', NEW k,
           \A j \in Job : Present(j) => Present(j)' /\ KeyOf(j)' = KeyOf(j),
           \A j \in Job : Present(j)' /\ ~Present(j) => KeyOf(j)' # k,
           \A j \in Job : Present(j) /\ KeyOf(j) = k =>
              OutcomeOf(row'[j].status) = OutcomeOf(row[j].status) /\ effects'[j] = effects[j]
    PROVE  OutcomeBar(k)' = OutcomeBar(k) /\ TriesBar(k)' = TriesBar(k)
<1>1. CASE \E j \in Job : Present(j) /\ KeyOf(j) = k
  <2>1. PICK j \in Job : Present(j) /\ KeyOf(j) = k
    BY <1>1
  <2>2. Present(j)' /\ KeyOf(j)' = k
    BY <2>1
  <2>3. OutcomeBar(k) = OutcomeOf(row[j].status) /\ TriesBar(k) = effects[j]
    BY <2>1, View
  <2>4. OutcomeBar(k)' = OutcomeOf(row'[j].status) /\ TriesBar(k)' = effects'[j]
    BY <2>2, ViewAfter
  <2>5. QED
    BY <2>1, <2>2, <2>3, <2>4
<1>2. CASE \A j \in Job : Present(j) => KeyOf(j) # k
  <2>1. OutcomeBar(k) = "none" /\ TriesBar(k) = 0
    BY <1>2, NoView
  <2>2. \A j \in Job : Present(j)' => KeyOf(j)' # k
    BY <1>2
  <2>3. RowsOf(k)' = {}
    BY <2>2 DEF RowsOf, Present, KeyOf
  <2>4. QED
    BY <2>1, <2>3 DEF OutcomeBar, TriesBar
<1>3. QED
  BY <1>1, <1>2

-----------------------------------------------------------------------------
(* Steps of the contract, told by what changes for each key.               *)

Unchanged(k) == OutcomeBar(k)' = OutcomeBar(k) /\ TriesBar(k)' = TriesBar(k)

LEMMA StutterBar ==
    ASSUME \A k \in Keys : Unchanged(k)
    PROVE  UNCHANGED Contract!ContractVars
BY DEF Unchanged, OutcomeBar, TriesBar, Contract!ContractVars, Keys

LEMMA AskBar ==
    ASSUME NEW k \in Keys, OutcomeBar(k) = "none", OutcomeBar(k)' = "open",
           TriesBar(k)' = TriesBar(k), \A i \in Keys : i # k => Unchanged(i)
    PROVE  Contract!ContractNext
<1>1. Contract!Ask(k)
  BY DEF Unchanged, OutcomeBar, TriesBar, Contract!Ask, Keys
<1>2. QED
  BY <1>1 DEF Contract!ContractNext

LEMMA TryBar ==
    ASSUME NEW k \in Keys, OutcomeBar(k) = "open", OutcomeBar(k)' = "open",
           TriesBar(k) < MaxAttempts, TriesBar(k)' = TriesBar(k) + 1,
           \A i \in Keys : i # k => Unchanged(i)
    PROVE  Contract!ContractNext
<1>1. [i \in Keys |-> TriesBar(i)]' = [[i \in Keys |-> TriesBar(i)] EXCEPT ![k] = @ + 1]
  BY DEF Unchanged, Keys
<1>2. [i \in Keys |-> OutcomeBar(i)]' = [i \in Keys |-> OutcomeBar(i)]
  BY DEF Unchanged, Keys
<1>3. Contract!Try(k)
  BY <1>1, <1>2 DEF OutcomeBar, TriesBar, Contract!Try
<1>4. QED
  BY <1>3 DEF Contract!ContractNext

LEMMA SettleBar ==
    ASSUME NEW k \in Keys, OutcomeBar(k) = "open", OutcomeBar(k)' \in {"done", "abandoned"},
           TriesBar(k)' = TriesBar(k), \A i \in Keys : i # k => Unchanged(i)
    PROVE  Contract!ContractNext
<1>1. PICK o \in {"done", "abandoned"} : OutcomeBar(k)' = o
  OBVIOUS
<1>2. [i \in Keys |-> OutcomeBar(i)]' = [[i \in Keys |-> OutcomeBar(i)] EXCEPT ![k] = o]
  BY <1>1 DEF Unchanged, Keys
<1>3. [i \in Keys |-> TriesBar(i)]' = [i \in Keys |-> TriesBar(i)]
  BY DEF Unchanged, Keys
<1>4. Contract!Settle(k)
  BY <1>2, <1>3 DEF OutcomeBar, TriesBar, Contract!Settle
<1>5. QED
  BY <1>4 DEF Contract!ContractNext

LEMMA AbandonBar ==
    ASSUME NEW S \in SUBSET Keys, \A k \in S : OutcomeBar(k) = "open",
           \A k \in Keys : OutcomeBar(k)' = IF k \in S THEN "abandoned" ELSE OutcomeBar(k),
           \A k \in Keys : TriesBar(k)' = TriesBar(k)
    PROVE  Contract!ContractNext
<1>1. Contract!AbandonMany(S)
  BY DEF OutcomeBar, TriesBar, Contract!AbandonMany, Keys
<1>2. QED
  BY <1>1 DEF OutcomeBar, Contract!ContractNext

-----------------------------------------------------------------------------
(* Steps of the queue.                                                     *)

\* One row changes, and with it one key.
LEMMA RowStep ==
    ASSUME IInv, IInv', NEW j \in Job, Present(j), Present(j)', KeyOf(j)' = KeyOf(j),
           \A i \in Job : i # j => row'[i] = row[i] /\ effects'[i] = effects[i]
    PROVE  \E k \in Keys :
              /\ OutcomeBar(k) = OutcomeOf(row[j].status)
              /\ OutcomeBar(k)' = OutcomeOf(row'[j].status)
              /\ TriesBar(k) = effects[j] /\ TriesBar(k)' = effects'[j]
              /\ \A i \in Keys : i # k => Unchanged(i)
<1>1. PICK k \in Keys : k = KeyOf(j)
  BY View
<1>2. OutcomeBar(k) = OutcomeOf(row[j].status) /\ TriesBar(k) = effects[j]
  BY <1>1, View
<1>3. OutcomeBar(k)' = OutcomeOf(row'[j].status) /\ TriesBar(k)' = effects'[j]
  BY <1>1, ViewAfter
<1>4. \A i \in Job : i # j => (Present(i)' <=> Present(i)) /\ KeyOf(i)' = KeyOf(i)
  BY DEF Present, KeyOf
<1>5. ASSUME NEW h \in Keys, h # k PROVE Unchanged(h)
  <2>1. \A i \in Job : Present(i) => Present(i)' /\ KeyOf(i)' = KeyOf(i)
    BY <1>4
  <2>2. \A i \in Job : Present(i)' /\ ~Present(i) => KeyOf(i)' # h
    BY <1>4
  <2>3. \A i \in Job : Present(i) /\ KeyOf(i) = h =>
           OutcomeOf(row'[i].status) = OutcomeOf(row[i].status) /\ effects'[i] = effects[i]
    BY <1>1, <1>5
  <2>4. QED
    BY <2>1, <2>2, <2>3, KeyStands DEF Unchanged
<1>6. QED
  BY <1>2, <1>3, <1>5

\* The rows change, and the contract does not see it.
LEMMA SameView ==
    ASSUME IInv, IInv',
           \A j \in Job : /\ row'[j].request = row[j].request /\ effects'[j] = effects[j]
                          /\ row'[j].status # row[j].status =>
                                /\ row[j].status # "absent" /\ row'[j].status # "absent"
                                /\ OutcomeOf(row'[j].status) = OutcomeOf(row[j].status)
    PROVE  UNCHANGED Contract!ContractVars
<1>1. \A j \in Job : (Present(j)' <=> Present(j)) /\ KeyOf(j)' = KeyOf(j)
  BY DEF Present, KeyOf
<1>2. \A j \in Job : OutcomeOf(row'[j].status) = OutcomeOf(row[j].status)
  OBVIOUS
<1>3. \A k \in Keys : Unchanged(k)
  BY <1>1, <1>2, KeyStands DEF Unchanged
<1>4. QED
  BY <1>3, StutterBar

LEMMA EnqueueAsks ==
    ASSUME IInv, IInv', NEW p \in Proc, NEW r \in Request, Enqueue(p, r)
    PROVE  Contract!ContractNext
<1>1. PICK j \in Job :
        /\ row[j].status = "absent"
        /\ row' = [row EXCEPT ![j] = [status |-> "queued", request |-> r, attempts |-> 0,
                                     retry |-> "none", error |-> "none"]]
  BY DEF Enqueue
<1>2. /\ row'[j].status = "queued" /\ row'[j].request = r
      /\ \A i \in Job : i # j => row'[i] = row[i]
  BY <1>1 DEF IInv, TypeOK
<1>3. effects' = effects /\ effects[j] = 0
  BY <1>1 DEF Enqueue, IInv, Ledger
<1>4. PICK k \in Keys : k = MakeKey(r)
  BY DEF Keys
<1>5. \A i \in Job : Present(i) => KeyOf(i) # k
  BY <1>4 DEF Enqueue, KeyTaken, Present, KeyOf
<1>6. OutcomeBar(k) = "none" /\ TriesBar(k) = 0
  BY <1>5, NoView
<1>7. Present(j)' /\ KeyOf(j)' = k
  BY <1>2, <1>4 DEF Present, KeyOf
<1>8. OutcomeBar(k)' = "open" /\ TriesBar(k)' = 0
  BY <1>2, <1>3, <1>7, ViewAfter DEF OutcomeOf
<1>9. \A i \in Keys : i # k => Unchanged(i)
  <2>1. TAKE h \in Keys
  <2>2. HAVE h # k
  <2>3. \A i \in Job : Present(i) => i # j /\ Present(i)' /\ KeyOf(i)' = KeyOf(i)
    BY <1>1, <1>2 DEF Present, KeyOf
  <2>4. \A i \in Job : Present(i)' /\ ~Present(i) => KeyOf(i)' # h
    BY <1>2, <1>7, <2>2 DEF Present
  <2>5. \A i \in Job : Present(i) /\ KeyOf(i) = h =>
           OutcomeOf(row'[i].status) = OutcomeOf(row[i].status) /\ effects'[i] = effects[i]
    BY <1>2, <1>3, <2>3
  <2>6. QED
    BY <2>3, <2>4, <2>5, KeyStands DEF Unchanged
<1>10. QED
  BY <1>6, <1>8, <1>9, AskBar

LEMMA CancelAbandons ==
    ASSUME IInv, IInv', NEW p \in Proc, NEW l, CancelPending(p, l)
    PROVE  Contract!ContractNext
<1> DEFINE C == {j \in Job : Cancellable(j, l)}
           S == {k \in Keys : \E j \in C : KeyOf(j) = k}
<1> DEFINE dead(j) == [row[j] EXCEPT !.status = "dead", !.error = "cancelled"]
<1>a. \A j \in Job : dead(j).status = "dead" /\ dead(j).request = row[j].request
  <2> TAKE j \in Job
  <2>1. row[j] \in Row
    BY DEF IInv, TypeOK
  <2>2. QED
    BY <2>1 DEF Row
<1>b. effects' = effects /\ row' = [j \in Job |-> IF j \in C THEN dead(j) ELSE row[j]]
  BY DEF CancelPending
<1>c. \A j \in C : row[j].status \in {"queued", "failed"}
  BY DEF Cancellable
<1> HIDE DEF dead
<1> HIDE DEF C
<1>2. \A j \in C : j \in Job
  BY DEF C
<1>1. /\ effects' = effects
      /\ \A j \in Job : row'[j].request = row[j].request
      /\ \A j \in C : row[j].status \in {"queued", "failed"} /\ row'[j].status = "dead"
      /\ \A j \in Job \ C : row'[j] = row[j]
  BY <1>a, <1>b, <1>c, <1>2
<1>3. \A j \in Job : (Present(j)' <=> Present(j)) /\ KeyOf(j)' = KeyOf(j)
  BY <1>1 DEF Present, KeyOf
<1>4. ASSUME NEW k \in S
      PROVE  /\ OutcomeBar(k) = "open" /\ OutcomeBar(k)' = "abandoned"
             /\ TriesBar(k)' = TriesBar(k)
  <2>1. PICK j \in C : KeyOf(j) = k
    OBVIOUS
  <2>2. j \in Job /\ Present(j) /\ Present(j)' /\ KeyOf(j)' = k
    BY <1>1, <1>2, <1>3, <2>1 DEF Present
  <2>3. OutcomeBar(k) = OutcomeOf(row[j].status) /\ TriesBar(k) = effects[j]
    BY <2>1, <2>2, View
  <2>4. OutcomeBar(k)' = OutcomeOf(row'[j].status) /\ TriesBar(k)' = effects'[j]
    BY <2>2, ViewAfter
  <2>5. QED
    BY <1>1, <2>3, <2>4 DEF OutcomeOf
<1>5. ASSUME NEW k \in Keys, k \notin S
      PROVE  OutcomeBar(k)' = OutcomeBar(k) /\ TriesBar(k)' = TriesBar(k)
  <2>1. \A j \in Job : Present(j) /\ KeyOf(j) = k => row'[j] = row[j]
    BY <1>1, <1>5
  <2>2. QED
    BY <1>1, <1>3, <2>1, KeyStands
<1>6. S \in SUBSET Keys
  OBVIOUS
<1> HIDE DEF S
<1>7. QED
  BY <1>4, <1>5, <1>6, AbandonBar

\* A due row is taken: for the contract it was open and stays open.
LEMMA RunningUnseen ==
    ASSUME IInv, IInv', NEW j \in Job, Due(j), SetRunning(j), effects' = effects
    PROVE  UNCHANGED Contract!ContractVars
<1>1. /\ row'[j].status = "running" /\ row[j].status \in {"queued", "failed"}
      /\ \A i \in Job : row'[i].request = row[i].request
      /\ \A i \in Job : i # j => row'[i] = row[i]
  BY RunningFrame DEF Due
<1>2. OutcomeOf(row'[j].status) = OutcomeOf(row[j].status)
  BY <1>1 DEF OutcomeOf
<1>3. \A i \in Job : /\ row'[i].request = row[i].request /\ effects'[i] = effects[i]
                     /\ row'[i].status # row[i].status =>
                           /\ row[i].status # "absent" /\ row'[i].status # "absent"
                           /\ OutcomeOf(row'[i].status) = OutcomeOf(row[i].status)
  BY <1>1, <1>2
<1>4. QED
  BY <1>3, SameView

LEMMA RetryUnseen ==
    ASSUME IInv, IInv', NEW j \in Job, RetryDelayElapses(j)
    PROVE  UNCHANGED Contract!ContractVars
<1>1. row[j] \in Row
  BY DEF IInv, TypeOK
<1>2. row' = [row EXCEPT ![j] = [row[j] EXCEPT !.retry = "due"]]
  BY DEF RetryDelayElapses, IInv, TypeOK
<1>3. \A i \in Job : row'[i].status = row[i].status /\ row'[i].request = row[i].request
  BY <1>1, <1>2 DEF IInv, TypeOK, Row
<1>4. effects' = effects
  BY DEF RetryDelayElapses
<1>5. QED
  BY <1>3, <1>4, SameView

\* Steps that leave the table and Eversports alone.
LEMMA QuietUnseen ==
    ASSUME IInv, IInv', UNCHANGED <<row, effects>>
    PROVE  UNCHANGED Contract!ContractVars
BY SameView

\* An action reaches Eversports: a try.
LEMMA EversportsTries ==
    ASSUME IInv, NoLie, IInv', NEW p \in Proc, NEW j \in Job, EversportsActs(p, j)
    PROVE  Contract!ContractNext
<1> USE DEF IInv
<1>1. task[p][j].pc = "acting" /\ task[p][j].pc \in Holding
  BY DEF EversportsActs, HandlerProceeds, Holding, Executing
<1>2. row[j].status = "running" /\ effects[j] <= row[j].attempts /\ row[j].attempts < MaxAttempts
  BY <1>1 DEF HeldRow, NotYetActed, Ledger
<1>3. effects[j] \in Nat /\ row[j].attempts \in Nat /\ MaxAttempts \in Nat
  BY WritebackAssumption DEF TypeOK, Row
<1>4. effects[j] < MaxAttempts
  BY <1>2, <1>3
<1>5. /\ row' = row
      /\ effects'[j] = effects[j] + 1
      /\ \A i \in Job : i # j => effects'[i] = effects[i]
  BY DEF EversportsActs, TypeOK
<1>6. Present(j) /\ Present(j)' /\ KeyOf(j)' = KeyOf(j)
  BY <1>2, <1>5 DEF Present, KeyOf
<1>7. PICK k \in Keys :
         /\ OutcomeBar(k) = OutcomeOf(row[j].status)
         /\ OutcomeBar(k)' = OutcomeOf(row'[j].status)
         /\ TriesBar(k) = effects[j] /\ TriesBar(k)' = effects'[j]
         /\ \A i \in Keys : i # k => Unchanged(i)
  BY <1>5, <1>6, RowStep
<1>8. OutcomeOf(row[j].status) = "open" /\ OutcomeOf(row'[j].status) = "open"
  BY <1>2, <1>5 DEF OutcomeOf
<1>9. QED
  BY <1>4, <1>5, <1>7, <1>8, TryBar

\* A task writes the outcome of its attempt: the key is settled, or stays open.
LEMMA OutcomeSettles ==
    ASSUME IInv, IInv', effects' = effects, NEW j \in Job, NEW r \in Row,
           row[j].status = "running", row' = [row EXCEPT ![j] = r],
           r.request = row[j].request, r.status \in {"succeeded", "failed", "dead"}
    PROVE  Contract!ContractNext \/ UNCHANGED Contract!ContractVars
<1>1. row'[j] = r /\ \A i \in Job : i # j => row'[i] = row[i]
  BY DEF IInv, TypeOK
<1>2. OutcomeOf(row[j].status) = "open"
  BY DEF OutcomeOf
<1>3. CASE r.status = "failed"
  <2>1. OutcomeOf(row'[j].status) = "open"
    BY <1>1, <1>3 DEF OutcomeOf
  <2>2. \A i \in Job : /\ row'[i].request = row[i].request /\ effects'[i] = effects[i]
                       /\ row'[i].status # row[i].status =>
                             /\ row[i].status # "absent" /\ row'[i].status # "absent"
                             /\ OutcomeOf(row'[i].status) = OutcomeOf(row[i].status)
    BY <1>1, <1>2, <1>3, <2>1
  <2>3. QED
    BY <2>2, SameView
<1>4. CASE r.status \in {"succeeded", "dead"}
  <2>1. OutcomeOf(row'[j].status) \in {"done", "abandoned"}
    BY <1>1, <1>4 DEF OutcomeOf
  <2>2. Present(j) /\ Present(j)' /\ KeyOf(j)' = KeyOf(j)
    BY <1>1, <1>4 DEF Present, KeyOf
  <2>3. PICK k \in Keys :
           /\ OutcomeBar(k) = OutcomeOf(row[j].status)
           /\ OutcomeBar(k)' = OutcomeOf(row'[j].status)
           /\ TriesBar(k) = effects[j] /\ TriesBar(k)' = effects'[j]
           /\ \A i \in Keys : i # k => Unchanged(i)
    BY <1>1, <2>2, RowStep
  <2>4. QED
    BY <1>2, <2>1, <2>3, SettleBar
<1>5. QED
  BY <1>3, <1>4

\* Every step of a task is a step of the contract or is not seen by it.
LEMMA StepImplements ==
    ASSUME "ambiguous" \notin Faults, RInv, RInv', NEW p \in Proc, NEW j \in Job, Step(p, j)
    PROVE  Contract!ContractNext \/ UNCHANGED Contract!ContractVars
<1> USE DEF RInv
<1>1. CASE AcquireSlot(p, j) \/ HandlerRefuses(p, j) \/ HandlerDryRun(p, j)
           \/ HandlerRaises(p, j) \/ RecordAudit(p, j) \/ MarkSucceededRaises(p, j)
           \/ MarkFailedRaises(p, j) \/ NotifyFailure(p, j)
  <2>1. UNCHANGED <<row, effects>>
    BY <1>1 DEF AcquireSlot, HandlerRefuses, HandlerDryRun, HandlerRaises, HandlerProceeds,
         RecordAudit, MarkSucceededRaises, MarkFailedRaises, NotifyFailure
  <2>2. QED
    BY <2>1, QuietUnseen
<1>2. CASE EversportsActs(p, j)
  BY <1>2, EversportsTries
<1>3. CASE MarkSucceeded(p, j)
  <2>1. row[j].status = "running" /\ effects' = effects
    BY <1>3 DEF MarkSucceeded, IInv, HeldRow, Holding, Executing
  <2>2. PICK r \in Row : /\ row' = [row EXCEPT ![j] = r]
                         /\ r.request = row[j].request /\ r.status = "succeeded"
    BY <1>3, SucceededRow DEF MarkSucceeded
  <2>3. QED
    BY <2>1, <2>2, OutcomeSettles
<1>4. CASE MarkFailedOrDead(p, j)
  <2>1. /\ effects' = effects /\ SetFailedOrDead(p, j)
        /\ task[p][j].pc \in {"failing", "killing"}
    BY <1>4 DEF MarkFailedOrDead
  <2>2. row[j].status = "running"
    BY <2>1 DEF IInv, HeldRow, NoLie, Holding, Executing
  <2>3. PICK r \in Row : /\ row' = [row EXCEPT ![j] = r]
                         /\ r.request = row[j].request /\ r.status \in {"failed", "dead"}
    BY <2>1, FailedRow
  <2>4. r.status \in {"succeeded", "failed", "dead"}
    BY <2>3
  <2>5. QED
    BY <2>1, <2>2, <2>3, <2>4, OutcomeSettles
<1>5. QED
  BY <1>1, <1>2, <1>3, <1>4 DEF Step

LEMMA NextImplements ==
    ASSUME "ambiguous" \notin Faults, RInv, RInv', [Next]_vars
    PROVE  [Contract!ContractNext]_(Contract!ContractVars)
<1> USE DEF RInv
<1>1. ASSUME UNCHANGED vars
      PROVE  UNCHANGED Contract!ContractVars
  BY <1>1, QuietUnseen DEF vars
<1>2. ASSUME NEW p \in Proc, NEW r \in Request, Enqueue(p, r) \/ CancelPending(p, r.location)
      PROVE  Contract!ContractNext
  BY <1>2, EnqueueAsks, CancelAbandons
<1>3. ASSUME NEW p \in Proc, NEW j \in Job, Claim(p, j)
      PROVE  UNCHANGED Contract!ContractVars
  BY <1>3, RunningUnseen DEF Claim, Oldest
<1>4. ASSUME NEW p \in Proc, NEW j \in Job, Step(p, j)
      PROVE  Contract!ContractNext \/ UNCHANGED Contract!ContractVars
  BY <1>4, StepImplements
<1>5. ASSUME NEW p \in Proc,
             ClaimBreaks(p) \/ Boot(p) \/ StopRequested(p) \/ Stopped(p) \/ Die(p)
      PROVE  UNCHANGED Contract!ContractVars
  <2>1. UNCHANGED <<row, effects>>
    BY <1>5 DEF ClaimBreaks, Boot, StopRequested, Stopped, Die
  <2>2. QED
    BY <2>1, QuietUnseen
<1>6. ASSUME NEW j \in Job, RetryDelayElapses(j)
      PROVE  UNCHANGED Contract!ContractVars
  BY <1>6, RetryUnseen
<1>7. QED
  BY <1>1, <1>2, <1>3, <1>4, <1>5, <1>6 DEF Next

LEMMA InitImplements ==
    ASSUME Init
    PROVE  RInv /\ Contract!ContractInit
<1>1. IInv
  BY InitIInv
<1>2. NoLie
  BY DEF Init, NoLie, NoTask
<1>3. \A k : RowsOf(k) = {}
  BY DEF Init, RowsOf
<1>4. Contract!ContractInit
  BY <1>3 DEF Contract!ContractInit
<1>5. QED
  BY <1>1, <1>2, <1>4 DEF RInv

-----------------------------------------------------------------------------

\* When a failing commit means that nothing was committed, the whole fleet of
\* workers, with its retries, cancellations, crashes and restarts, behaves for
\* each idempotency key as the contract says: asked for once, tried at most
\* MAX_ATTEMPTS times, settled once and for all.
THEOREM Implements ==
    ASSUME "ambiguous" \notin Faults
    PROVE  Spec => KeepsContract
<1>1. Init => RInv /\ Contract!ContractInit
  BY InitImplements
<1>2. RInv /\ [Next]_vars => RInv'
  BY NextKeepsRInv
<1>3. RInv /\ RInv' /\ [Next]_vars => [Contract!ContractNext]_(Contract!ContractVars)
  BY NextImplements
<1>4. QED
  BY <1>1, <1>2, <1>3, PTL DEF Spec, KeepsContract, Contract!ContractSpec

=============================================================================
