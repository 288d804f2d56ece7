------------------------ MODULE WritebackQueueProofs ------------------------
(***************************************************************************)
(* Safety of the writeback queue for every number of processes, rows and   *)
(* attempts, and under every failure the model knows.                      *)
(***************************************************************************)
EXTENDS WritebackQueue, TLAPS

\* A row that a task works on is running; the one exception is a commit of
\* "succeeded" whose answer was lost.
HeldRow ==
    \A p \in Proc, j \in Job :
        task[p][j].pc \in Holding =>
            \/ row[j].status = "running"
            \/ row[j].status = "succeeded" /\ task[p][j].pc = "failing"

\* Each action in Eversports is covered by a counted attempt, except those of
\* the attempt in progress.
Ledger ==
    \A j \in Job :
        /\ row[j].status = "absent" => effects[j] = 0
        /\ row[j].status \in {"queued", "failed"} =>
              effects[j] <= row[j].attempts /\ row[j].attempts < MaxAttempts
        /\ row[j].status \in {"running", "succeeded"} =>
              effects[j] <= row[j].attempts + 1 /\ row[j].attempts < MaxAttempts
        /\ row[j].status = "dead" => effects[j] <= MaxAttempts

\* A task that has not called its handler yet has not acted.
NotYetActed ==
    \A p \in Proc, j \in Job :
        task[p][j].pc \in {"waiting", "acting"} => effects[j] <= row[j].attempts

OneRowPerKey ==
    \A i, j \in Job :
        i # j /\ row[i].status # "absent" /\ row[j].status # "absent"
          => MakeKey(row[i].request) # MakeKey(row[j].request)

IInv == /\ TypeOK
        /\ HeldRow
        /\ SnapshotFresh
        /\ OneExecutor
        /\ Ledger
        /\ NotYetActed
        /\ OneRowPerKey

-----------------------------------------------------------------------------

\* What the three ways of writing a task leave in the table of tasks.
LEMMA GotoFrame ==
    ASSUME TypeOK, NEW p \in Proc, NEW j \in Job,
           NEW pc \in Executing \cup {"none", "waiting"}, NEW e \in Error, Goto(p, j, pc, e)
    PROVE  /\ task' \in [Proc -> [Job -> Task]]
           /\ task'[p][j].pc = pc
           /\ task'[p][j].snap = task[p][j].snap
           /\ \A q \in Proc, i \in Job : q # p \/ i # j => task'[q][i] = task[q][i]
<1>1. task[p] \in [Job -> Task] /\ task[p][j] \in Task
  BY DEF TypeOK
<1>2. task' = [task EXCEPT ![p] = [task[p] EXCEPT ![j] =
                 [task[p][j] EXCEPT !.pc = pc, !.error = e]]]
  BY <1>1 DEF Goto, TypeOK
<1>3. [task[p][j] EXCEPT !.pc = pc, !.error = e] \in Task
  BY <1>1 DEF Task
<1>4. QED
  BY <1>1, <1>2, <1>3 DEF TypeOK, Task

LEMMA FinishFrame ==
    ASSUME TypeOK, NEW p \in Proc, NEW j \in Job, Finish(p, j)
    PROVE  /\ task' \in [Proc -> [Job -> Task]]
           /\ task'[p][j].pc = "none"
           /\ \A q \in Proc, i \in Job : q # p \/ i # j => task'[q][i] = task[q][i]
<1>1. NoTask \in Task /\ NoTask.pc = "none"
  BY WritebackAssumption DEF NoTask, Task, Error
<1>2. QED
  BY <1>1 DEF Finish, TypeOK

\* The initial table is empty.
LEMMA InitIInv == Init => IInv
<1> SUFFICES ASSUME Init PROVE IInv
  OBVIOUS
<1>1. (CHOOSE r \in Request : TRUE) \in Request
  BY WritebackAssumption
<1>2. NoTask \in Task
  BY WritebackAssumption DEF NoTask, Task, Error
<1>3. TypeOK
  BY <1>1, <1>2, WritebackAssumption DEF Init, TypeOK, Row, Status, Error, Settings
<1>4. HeldRow /\ SnapshotFresh /\ OneExecutor /\ Ledger /\ NotYetActed /\ OneRowPerKey
  BY <1>3 DEF Init, HeldRow, SnapshotFresh, OneExecutor, Ledger, NotYetActed, OneRowPerKey,
     NoTask, Holding, Executing
<1>5. QED
  BY <1>3, <1>4 DEF IInv

-----------------------------------------------------------------------------
(* Steps of a task that leave the table and Eversports alone.              *)

OthersTyped ==
    /\ loop' \in [Proc -> {"down", "polling", "exited", "draining"}]
    /\ settings' \in [Proc -> Settings]
    /\ audited' \subseteq Job
    /\ heard' \in [Job -> SUBSET {"success", "failed"}]
    /\ missed' \in [Job -> SUBSET {"success", "failed"}]

\* A task that moves on inside the region where it holds its row.
LEMMA MoveKeepsIInv ==
    ASSUME IInv, OthersTyped, UNCHANGED <<row, effects>>,
           NEW p \in Proc, NEW j \in Job, NEW pc \in Holding, NEW e \in Error,
           task[p][j].pc \in Holding, Goto(p, j, pc, e),
           pc # "waiting",
           pc = "acting" => task[p][j].pc = "waiting",
           task[p][j].pc # "failing"
    PROVE  IInv'
<1> USE DEF IInv
<1>1. pc \in Executing \cup {"none", "waiting"}
  BY DEF Holding
<1>2. /\ task' \in [Proc -> [Job -> Task]]
      /\ task'[p][j].pc = pc
      /\ task'[p][j].snap = task[p][j].snap
      /\ \A q \in Proc, i \in Job : q # p \/ i # j => task'[q][i] = task[q][i]
  BY <1>1, GotoFrame
<1>3. \A q \in Proc, i \in Job : task'[q][i].pc \in Holding => task[q][i].pc \in Holding
  BY <1>2
<1>4. TypeOK'
  BY <1>2 DEF TypeOK, OthersTyped
<1>5. HeldRow'
  BY <1>2, <1>3 DEF HeldRow
<1>6. SnapshotFresh'
  BY <1>2, <1>3 DEF SnapshotFresh
<1>7. OneExecutor'
  BY <1>3 DEF OneExecutor
<1>8. Ledger' /\ OneRowPerKey'
  BY DEF Ledger, OneRowPerKey
<1>9. NotYetActed'
  BY <1>2 DEF NotYetActed
<1>10. QED
  BY <1>4, <1>5, <1>6, <1>7, <1>8, <1>9

\* A task that ends and leaves its row as it is.
LEMMA EndKeepsIInv ==
    ASSUME IInv, OthersTyped, UNCHANGED <<row, effects>>,
           NEW p \in Proc, NEW j \in Job, Finish(p, j)
    PROVE  IInv'
<1> USE DEF IInv
<1>1. /\ task' \in [Proc -> [Job -> Task]]
      /\ task'[p][j].pc = "none"
      /\ \A q \in Proc, i \in Job : q # p \/ i # j => task'[q][i] = task[q][i]
  BY FinishFrame
<1>2. "none" \notin Holding
  BY DEF Holding, Executing
<1>3. \A q \in Proc, i \in Job :
         task'[q][i].pc \in Holding => task'[q][i] = task[q][i]
  BY <1>1, <1>2
<1>4. TypeOK'
  BY <1>1 DEF TypeOK, OthersTyped
<1>5. HeldRow' /\ SnapshotFresh'
  BY <1>3 DEF HeldRow, SnapshotFresh
<1>6. OneExecutor'
  BY <1>3 DEF OneExecutor
<1>7. Ledger' /\ OneRowPerKey'
  BY DEF Ledger, OneRowPerKey
<1>8. NotYetActed'
  BY <1>1 DEF NotYetActed
<1>9. QED
  BY <1>4, <1>5, <1>6, <1>7, <1>8

\* Steps that touch neither rows, nor tasks, nor Eversports.
LEMMA FrameKeepsIInv ==
    ASSUME IInv, OthersTyped, UNCHANGED <<row, task, effects>>
    PROVE  IInv'
BY DEF IInv, OthersTyped, TypeOK, HeldRow, SnapshotFresh, OneExecutor, Ledger, NotYetActed,
       OneRowPerKey

\* A task that writes its outcome r into the row and lets go of it.
LEMMA ReleaseKeepsIInv ==
    ASSUME IInv, OthersTyped, UNCHANGED effects,
           NEW p \in Proc, NEW j \in Job, NEW r \in Row,
           task[p][j].pc \in Holding,
           task' \in [Proc -> [Job -> Task]],
           task'[p][j].pc \notin Holding,
           \A q \in Proc, i \in Job : q # p \/ i # j => task'[q][i] = task[q][i],
           row' = [row EXCEPT ![j] = r],
           r.request = row[j].request,
           r.status \in {"succeeded", "failed", "dead"},
           r.status = "succeeded" => r.attempts = row[j].attempts,
           r.status = "failed" => r.attempts = row[j].attempts + 1 /\ r.attempts < MaxAttempts
    PROVE  IInv'
<1> USE DEF IInv
<1>1. /\ row'[j] = r
      /\ \A i \in Job : i # j => row'[i] = row[i]
      /\ \A i \in Job : row'[i].request = row[i].request
  BY DEF TypeOK
<1>2. \A q \in Proc, i \in Job : task'[q][i].pc \in Holding => i # j /\ task'[q][i] = task[q][i]
  BY DEF OneExecutor
<1>3. TypeOK'
  BY DEF TypeOK, OthersTyped
<1>4. HeldRow' /\ SnapshotFresh'
  BY <1>1, <1>2 DEF HeldRow, SnapshotFresh
<1>5. OneExecutor'
  BY <1>2 DEF OneExecutor
<1>6. effects[j] <= row[j].attempts + 1 /\ row[j].attempts < MaxAttempts
  BY DEF HeldRow, Ledger
<1>7. effects[j] \in Nat /\ row[j].attempts \in Nat /\ r.attempts \in Nat /\ MaxAttempts \in Nat
  BY WritebackAssumption DEF TypeOK, Row
<1>8. Ledger'
  BY <1>1, <1>6, <1>7 DEF Ledger
<1>9. NotYetActed'
  BY <1>1, <1>2 DEF NotYetActed, Holding, Executing
<1>10. OneRowPerKey'
  <2>1. row[j].status # "absent"
    BY DEF HeldRow
  <2>2. QED
    BY <1>1, <2>1 DEF OneRowPerKey
<1>11. QED
  BY <1>3, <1>4, <1>5, <1>8, <1>9, <1>10

-----------------------------------------------------------------------------
(* The actions.                                                            *)

LEMMA EnqueueKeepsIInv ==
    ASSUME IInv, NEW p \in Proc, NEW r \in Request, Enqueue(p, r)
    PROVE  IInv'
<1> USE DEF IInv
<1>1. PICK j \in Job :
         /\ row[j].status = "absent"
         /\ row' = [row EXCEPT ![j] = [status |-> "queued", request |-> r, attempts |-> 0,
                                      retry |-> "none", error |-> "none"]]
  BY DEF Enqueue
<1>2. /\ row'[j].status = "queued" /\ row'[j].request = r /\ row'[j].attempts = 0
      /\ \A i \in Job : i # j => row'[i] = row[i]
      /\ row' \in [Job -> Row]
      /\ UNCHANGED <<task, loop, settings, effects, audited, heard, missed>>
  BY <1>1, WritebackAssumption DEF Enqueue, TypeOK, Row, Status, Error
<1>3. \A q \in Proc : task[q][j].pc \notin Holding
  BY <1>1 DEF HeldRow
<1>4. TypeOK'
  BY <1>2 DEF TypeOK
<1>5. HeldRow' /\ SnapshotFresh' /\ OneExecutor'
  BY <1>2, <1>3 DEF HeldRow, SnapshotFresh, OneExecutor
<1>6. Ledger' /\ NotYetActed'
  BY <1>1, <1>2, <1>3, WritebackAssumption DEF Ledger, NotYetActed, Holding, Executing, TypeOK
<1>7. OneRowPerKey'
  BY <1>1, <1>2 DEF Enqueue, KeyTaken, OneRowPerKey
<1>8. QED
  BY <1>4, <1>5, <1>6, <1>7

LEMMA CancelKeepsIInv ==
    ASSUME IInv, NEW p \in Proc, NEW l, CancelPending(p, l)
    PROVE  IInv'
<1> USE DEF IInv
<1> DEFINE dead(i) == [row[i] EXCEPT !.status = "dead", !.error = "cancelled"]
<1>0. \A i \in Job :
         /\ dead(i) \in Row /\ dead(i).status = "dead"
         /\ dead(i).request = row[i].request /\ dead(i).attempts = row[i].attempts
  <2> TAKE i \in Job
  <2>1. row[i] \in Row
    BY DEF TypeOK
  <2>2. QED
    BY <2>1 DEF Row, Status, Error
<1>a. row' = [i \in Job |-> IF Cancellable(i, l) THEN dead(i) ELSE row[i]]
  BY DEF CancelPending
<1> HIDE DEF dead
<1>1. \A i \in Job :
         \/ row'[i] = row[i]
         \/ /\ row[i].status \in {"queued", "failed"} /\ row'[i].status = "dead"
            /\ row'[i].request = row[i].request /\ row'[i].attempts = row[i].attempts
  BY <1>0, <1>a DEF Cancellable
<1>2. UNCHANGED <<task, loop, settings, effects, audited, heard, missed>>
  BY DEF CancelPending
<1>3. row' \in [Job -> Row]
  BY <1>0, <1>a DEF TypeOK
<1>4. TypeOK'
  BY <1>2, <1>3 DEF TypeOK
<1>5. \A q \in Proc, i \in Job : task[q][i].pc \in Holding => row'[i] = row[i]
  BY <1>1 DEF HeldRow
<1>6. HeldRow' /\ SnapshotFresh' /\ OneExecutor' /\ NotYetActed'
  BY <1>2, <1>5 DEF HeldRow, SnapshotFresh, OneExecutor, NotYetActed, Holding, Executing
<1>7. Ledger'
  BY <1>1, <1>2, WritebackAssumption DEF Ledger, TypeOK, Row
<1>8. OneRowPerKey'
  BY <1>1 DEF OneRowPerKey
<1>9. QED
  BY <1>4, <1>6, <1>7, <1>8

\* Taking a due row: the row becomes running and nothing else of it changes.
LEMMA RunningFrame ==
    ASSUME IInv, NEW j \in Job, SetRunning(j)
    PROVE  /\ row' \in [Job -> Row]
           /\ row'[j].status = "running"
           /\ row'[j].attempts = row[j].attempts
           /\ \A i \in Job : row'[i].request = row[i].request
           /\ \A i \in Job : i # j => row'[i] = row[i]
<1>1. row[j] \in Row
  BY DEF IInv, TypeOK
<1>2. [row[j] EXCEPT !.status = "running"] \in Row
  BY <1>1 DEF Row, Status
<1>3. row' = [row EXCEPT ![j] = [row[j] EXCEPT !.status = "running"]]
  BY DEF SetRunning, IInv, TypeOK
<1>4. QED
  BY <1>1, <1>2, <1>3 DEF IInv, TypeOK, Row

\* A due row is held by no task, so whoever takes it is alone.
LEMMA DueIsFree ==
    ASSUME IInv, NEW j \in Job, Due(j)
    PROVE  \A q \in Proc : task[q][j].pc \notin Holding
BY DEF IInv, HeldRow, Due

LEMMA ClaimKeepsIInv ==
    ASSUME IInv, NEW p \in Proc, NEW j \in Job, Claim(p, j)
    PROVE  IInv'
<1> USE DEF IInv
<1> DEFINE t == [pc |-> "waiting", snap |-> row[j].attempts, error |-> "none"]
<1>1. Due(j)
  BY DEF Claim, Oldest
<1>2. t \in Task
  BY DEF TypeOK, Row, Task, Error
<1>3. /\ task' \in [Proc -> [Job -> Task]]
      /\ task'[p][j] = t
      /\ \A q \in Proc, i \in Job : q # p \/ i # j => task'[q][i] = task[q][i]
  BY <1>2 DEF Claim, TypeOK
<1>4. /\ row' \in [Job -> Row]
      /\ row'[j].status = "running"
      /\ row'[j].attempts = row[j].attempts
      /\ \A i \in Job : row'[i].request = row[i].request
      /\ \A i \in Job : i # j => row'[i] = row[i]
  BY RunningFrame DEF Claim
<1>5. UNCHANGED <<loop, settings, effects, audited, heard, missed>>
  BY DEF Claim
<1>6. TypeOK'
  BY <1>3, <1>4, <1>5 DEF TypeOK
<1>7. \A q \in Proc, i \in Job :
         task'[q][i].pc \in Holding =>
            (q = p /\ i = j) \/ (i # j /\ task'[q][i] = task[q][i])
  BY <1>1, <1>3, DueIsFree
<1>8. HeldRow' /\ SnapshotFresh' /\ OneExecutor'
  <2>1. HeldRow'
    BY <1>3, <1>4, <1>7 DEF HeldRow
  <2>2. SnapshotFresh'
    BY <1>3, <1>4, <1>7 DEF SnapshotFresh
  <2>3. OneExecutor'
    BY <1>7 DEF OneExecutor
  <2>4. QED
    BY <2>1, <2>2, <2>3
<1>9. effects[j] <= row[j].attempts /\ row[j].attempts < MaxAttempts
  BY <1>1 DEF Due, Ledger
<1>10. effects[j] \in Nat /\ row[j].attempts \in Nat
  BY WritebackAssumption DEF TypeOK, Row
<1>11. Ledger'
  BY <1>4, <1>5, <1>9, <1>10 DEF Ledger
<1>12. NotYetActed'
  BY <1>4, <1>5, <1>7, <1>9 DEF NotYetActed, Holding, Executing
<1>13. OneRowPerKey'
  BY <1>1, <1>4 DEF Due, OneRowPerKey
<1>14. QED
  BY <1>6, <1>8, <1>11, <1>12, <1>13

LEMMA ClaimBreaksKeepsIInv ==
    ASSUME IInv, NEW p \in Proc, ClaimBreaks(p)
    PROVE  IInv'
<1> USE DEF IInv
<1>1. UNCHANGED <<task, settings, effects, audited, heard, missed>> /\ OthersTyped
  BY DEF ClaimBreaks, TypeOK, OthersTyped
<1>2. CASE UNCHANGED row
  BY <1>1, <1>2, FrameKeepsIInv
<1>3. CASE \E j \in Job : Oldest(j) /\ SetRunning(j)
  <2>1. PICK j \in Job : Due(j) /\ SetRunning(j)
    BY <1>3 DEF Oldest
  <2>2. /\ row' \in [Job -> Row]
        /\ row'[j].status = "running"
        /\ row'[j].attempts = row[j].attempts
        /\ \A i \in Job : row'[i].request = row[i].request
        /\ \A i \in Job : i # j => row'[i] = row[i]
    BY <2>1, RunningFrame
  <2>3. \A q \in Proc, i \in Job : task[q][i].pc \in Holding => i # j
    BY <2>1, DueIsFree
  <2>4. TypeOK'
    BY <1>1, <2>2 DEF TypeOK, OthersTyped
  <2>5. HeldRow' /\ SnapshotFresh' /\ OneExecutor' /\ NotYetActed'
    BY <1>1, <2>2, <2>3 DEF HeldRow, SnapshotFresh, OneExecutor, NotYetActed, Holding, Executing
  <2>6. effects[j] <= row[j].attempts /\ row[j].attempts < MaxAttempts
    BY <2>1 DEF Due, Ledger
  <2>7. effects[j] \in Nat /\ row[j].attempts \in Nat
    BY WritebackAssumption DEF TypeOK, Row
  <2>8. Ledger'
    BY <1>1, <2>2, <2>6, <2>7 DEF Ledger
  <2>9. OneRowPerKey'
    BY <2>1, <2>2 DEF Due, OneRowPerKey
  <2>10. QED
    BY <2>4, <2>5, <2>8, <2>9
<1>4. QED
  BY <1>2, <1>3 DEF ClaimBreaks

LEMMA RetryKeepsIInv ==
    ASSUME IInv, NEW j \in Job, RetryDelayElapses(j)
    PROVE  IInv'
<1> USE DEF IInv
<1>1. row[j] \in Row
  BY DEF TypeOK
<1>2. [row[j] EXCEPT !.retry = "due"] \in Row
  BY <1>1 DEF Row
<1>3. row' = [row EXCEPT ![j] = [row[j] EXCEPT !.retry = "due"]]
  BY DEF RetryDelayElapses, TypeOK
<1>4. /\ row' \in [Job -> Row]
      /\ \A i \in Job : /\ row'[i].status = row[i].status
                        /\ row'[i].attempts = row[i].attempts
                        /\ row'[i].request = row[i].request
  BY <1>1, <1>2, <1>3 DEF TypeOK, Row
<1>5. UNCHANGED <<task, loop, settings, effects, audited, heard, missed>>
  BY DEF RetryDelayElapses
<1>6. TypeOK' /\ OneExecutor' /\ OneRowPerKey'
  BY <1>4, <1>5 DEF TypeOK, OneExecutor, OneRowPerKey
<1>7. HeldRow' /\ SnapshotFresh'
  BY <1>4, <1>5 DEF HeldRow, SnapshotFresh
<1>8. Ledger' /\ NotYetActed'
  BY <1>4, <1>5 DEF Ledger, NotYetActed
<1>9. QED
  BY <1>6, <1>7, <1>8

LEMMA EversportsActsKeepsIInv ==
    ASSUME IInv, NEW p \in Proc, NEW j \in Job, EversportsActs(p, j)
    PROVE  IInv'
<1> USE DEF IInv
<1>1. PICK pc \in {"acted", "failing"}, e \in Error : Goto(p, j, pc, e)
  BY DEF EversportsActs, Error
<1>2. /\ task' \in [Proc -> [Job -> Task]]
      /\ task'[p][j].pc = pc
      /\ task'[p][j].snap = task[p][j].snap
      /\ \A q \in Proc, i \in Job : q # p \/ i # j => task'[q][i] = task[q][i]
  BY <1>1, GotoFrame DEF Executing
<1>3. task[p][j].pc = "acting" /\ task[p][j].pc \in Holding
  BY DEF EversportsActs, HandlerProceeds, Holding, Executing
<1>4. \A q \in Proc : q # p => task[q][j].pc \notin Holding
  BY <1>3 DEF OneExecutor
<1>5. UNCHANGED <<row, loop, settings, audited, heard, missed>> /\ effects' = [effects EXCEPT ![j] = @ + 1]
  BY DEF EversportsActs
<1>6. effects'[j] = effects[j] + 1 /\ \A i \in Job : i # j => effects'[i] = effects[i]
  BY <1>5 DEF TypeOK
<1>7. row[j].status = "running" /\ effects[j] <= row[j].attempts /\ row[j].attempts < MaxAttempts
  BY <1>3 DEF HeldRow, NotYetActed, Ledger
<1>8. effects[j] \in Nat /\ row[j].attempts \in Nat
  BY WritebackAssumption DEF TypeOK, Row
<1>9. TypeOK'
  BY <1>2, <1>5 DEF TypeOK
<1>10. \A q \in Proc, i \in Job : task'[q][i].pc \in Holding => task[q][i].pc \in Holding
  BY <1>2, <1>3
<1>11. HeldRow' /\ SnapshotFresh' /\ OneExecutor'
  BY <1>2, <1>3, <1>5, <1>7, <1>10 DEF HeldRow, SnapshotFresh, OneExecutor
<1>12. Ledger'
  BY <1>5, <1>6, <1>7, <1>8 DEF Ledger
<1>13. NotYetActed'
  <2> SUFFICES ASSUME NEW q \in Proc, NEW i \in Job, task'[q][i].pc \in {"waiting", "acting"}
               PROVE  effects'[i] <= row[i].attempts
    BY <1>5 DEF NotYetActed
  <2>1. i # j
    BY <1>1, <1>2, <1>4 DEF Holding, Executing
  <2>2. QED
    BY <1>2, <1>6, <2>1 DEF NotYetActed
<1>14. OneRowPerKey'
  BY <1>5 DEF OneRowPerKey
<1>15. QED
  BY <1>9, <1>11, <1>12, <1>13, <1>14

\* The outcomes a task can write, as values of the row.
LEMMA SucceededRow ==
    ASSUME IInv, NEW j \in Job, SetSucceeded(j)
    PROVE  \E r \in Row : /\ row' = [row EXCEPT ![j] = r]
                          /\ r.request = row[j].request
                          /\ r.status = "succeeded"
                          /\ r.attempts = row[j].attempts
<1> DEFINE r == [row[j] EXCEPT !.status = "succeeded", !.error = "none"]
<1>1. row[j] \in Row
  BY DEF IInv, TypeOK
<1>2. r \in Row /\ r.request = row[j].request /\ r.status = "succeeded"
      /\ r.attempts = row[j].attempts
  BY <1>1 DEF Row, Status, Error
<1>3. row' = [row EXCEPT ![j] = r]
  BY DEF SetSucceeded, IInv, TypeOK
<1>4. QED
  BY <1>2, <1>3

LEMMA FailedRow ==
    ASSUME IInv, NEW p \in Proc, NEW j \in Job,
           task[p][j].pc \in {"failing", "killing"}, SetFailedOrDead(p, j)
    PROVE  \E r \in Row : /\ row' = [row EXCEPT ![j] = r]
                          /\ r.request = row[j].request
                          /\ r.status \in {"failed", "dead"}
                          /\ r.status = "failed" =>
                                r.attempts = row[j].attempts + 1 /\ r.attempts < MaxAttempts
<1> USE DEF IInv
<1> DEFINE n == NewCount(p, j)
           r == [row[j] EXCEPT !.status = IF n >= MaxAttempts THEN "dead" ELSE "failed",
                               !.attempts = n,
                               !.retry = IF n >= MaxAttempts THEN "none" ELSE "later",
                               !.error = task[p][j].error]
<1>1. task[p][j].pc \in Holding
  BY DEF Holding, Executing
<1>2. task[p][j].snap = row[j].attempts /\ row[j].attempts < MaxAttempts
  BY <1>1 DEF SnapshotFresh, HeldRow, Ledger
<1>3. row[j] \in Row /\ row[j].attempts \in Nat /\ MaxAttempts \in Nat
      /\ task[p][j].error \in Error
  BY WritebackAssumption DEF TypeOK, Row, Task
<1>4. n \in 0..MaxAttempts
  BY <1>2, <1>3 DEF NewCount
<1>5. n < MaxAttempts => n = row[j].attempts + 1
  BY <1>2, <1>3 DEF NewCount
<1>6. row' = [row EXCEPT ![j] = r]
  BY DEF SetFailedOrDead, TypeOK
<1> HIDE DEF n
<1>7. r \in Row /\ r.request = row[j].request /\ r.attempts = n
      /\ r.status = IF n >= MaxAttempts THEN "dead" ELSE "failed"
  BY <1>3, <1>4 DEF Row, Status
<1>8. r.status \in {"failed", "dead"} /\ (r.status = "failed" => n < MaxAttempts)
  BY <1>3, <1>4, <1>7
<1> HIDE DEF r
<1>9. QED
  BY <1>5, <1>6, <1>7, <1>8

LEMMA MarkSucceededKeepsIInv ==
    ASSUME IInv, NEW p \in Proc, NEW j \in Job, MarkSucceeded(p, j)
    PROVE  IInv'
<1>1. task[p][j].pc \in Holding /\ UNCHANGED effects /\ OthersTyped
  BY DEF MarkSucceeded, Holding, Executing, OthersTyped, IInv, TypeOK
<1>2. PICK r \in Row : /\ row' = [row EXCEPT ![j] = r]
                       /\ r.request = row[j].request
                       /\ r.status = "succeeded"
                       /\ r.attempts = row[j].attempts
  BY SucceededRow DEF MarkSucceeded
<1>3. /\ task' \in [Proc -> [Job -> Task]]
      /\ task'[p][j].pc = "none"
      /\ \A q \in Proc, i \in Job : q # p \/ i # j => task'[q][i] = task[q][i]
  BY FinishFrame DEF MarkSucceeded, IInv
<1>4. task'[p][j].pc \notin Holding
  BY <1>3 DEF Holding, Executing
<1>5. QED
  BY <1>1, <1>2, <1>3, <1>4, ReleaseKeepsIInv

LEMMA MarkFailedKeepsIInv ==
    ASSUME IInv, NEW p \in Proc, NEW j \in Job, OthersTyped, UNCHANGED effects,
           task[p][j].pc \in {"failing", "killing"}, SetFailedOrDead(p, j),
           Finish(p, j) \/ Goto(p, j, "notifying", task[p][j].error)
    PROVE  IInv'
<1>1. task[p][j].pc \in Holding
  BY DEF Holding, Executing
<1>2. PICK r \in Row : /\ row' = [row EXCEPT ![j] = r]
                       /\ r.request = row[j].request
                       /\ r.status \in {"failed", "dead"}
                       /\ r.status = "failed" =>
                                r.attempts = row[j].attempts + 1 /\ r.attempts < MaxAttempts
  BY FailedRow
<1>3. task[p][j].error \in Error /\ TypeOK
  BY DEF IInv, TypeOK, Task
<1>4. /\ task' \in [Proc -> [Job -> Task]]
      /\ task'[p][j].pc \in {"none", "notifying"}
      /\ \A q \in Proc, i \in Job : q # p \/ i # j => task'[q][i] = task[q][i]
  <2>1. CASE Finish(p, j)
    BY <1>3, <2>1, FinishFrame
  <2>2. CASE Goto(p, j, "notifying", task[p][j].error)
    BY <1>3, <2>2, GotoFrame DEF Executing
  <2>3. QED
    BY <2>1, <2>2
<1>5. task'[p][j].pc \notin Holding
  BY <1>4 DEF Holding, Executing
<1>6. r.status \in {"succeeded", "failed", "dead"} /\ r.status # "succeeded"
  BY <1>2
<1>7. QED
  BY <1>1, <1>2, <1>4, <1>5, <1>6, ReleaseKeepsIInv

\* The row says succeeded, the answer of the commit is lost, and the task goes
\* on to its except branch.
LEMMA MarkSucceededRaisesKeepsIInv ==
    ASSUME IInv, NEW p \in Proc, NEW j \in Job, MarkSucceededRaises(p, j)
    PROVE  IInv'
<1> USE DEF IInv
<1>1. task[p][j].pc = "audited" /\ Goto(p, j, "failing", "handler") /\ UNCHANGED effects
      /\ OthersTyped
  BY DEF MarkSucceededRaises, OthersTyped, TypeOK
<1>2. task[p][j].pc \in Holding /\ "failing" \in Holding /\ "handler" \in Error
      /\ "failing" \in Executing
  BY <1>1 DEF Holding, Executing, Error
<1>3. CASE UNCHANGED row
  BY <1>1, <1>2, <1>3, MoveKeepsIInv
<1>4. CASE SetSucceeded(j)
  <2>1. PICK r \in Row : /\ row' = [row EXCEPT ![j] = r]
                         /\ r.request = row[j].request
                         /\ r.status = "succeeded"
                         /\ r.attempts = row[j].attempts
    BY <1>4, SucceededRow
  <2>2. /\ row' \in [Job -> Row]
        /\ row'[j] = r
        /\ \A i \in Job : i # j => row'[i] = row[i]
    BY <2>1 DEF TypeOK
  <2>3. /\ task' \in [Proc -> [Job -> Task]]
        /\ task'[p][j].pc = "failing"
        /\ task'[p][j].snap = task[p][j].snap
        /\ \A q \in Proc, i \in Job : q # p \/ i # j => task'[q][i] = task[q][i]
    BY <1>1, <1>2, GotoFrame
  <2>4. \A q \in Proc : q # p => task[q][j].pc \notin Holding
    BY <1>2 DEF OneExecutor
  <2>5. row[j].status = "running"
    BY <1>1, <1>2 DEF HeldRow
  <2>6. TypeOK'
    BY <1>1, <2>2, <2>3 DEF TypeOK, OthersTyped
  <2>7. HeldRow'
    BY <2>1, <2>2, <2>3, <2>4 DEF HeldRow
  <2>8. SnapshotFresh'
    BY <1>2, <2>1, <2>2, <2>3, <2>4 DEF SnapshotFresh
  <2>9. OneExecutor'
    BY <1>2, <2>3 DEF OneExecutor
  <2>10. Ledger'
    BY <1>1, <2>1, <2>2, <2>5 DEF Ledger
  <2>11. NotYetActed'
    BY <1>1, <2>1, <2>2, <2>3 DEF NotYetActed
  <2>12. OneRowPerKey'
    BY <2>1, <2>2, <2>5 DEF OneRowPerKey
  <2>13. QED
    BY <2>6, <2>7, <2>8, <2>9, <2>10, <2>11, <2>12
<1>5. QED
  BY <1>3, <1>4 DEF MarkSucceededRaises

LEMMA DieKeepsIInv ==
    ASSUME IInv, NEW p \in Proc, Die(p)
    PROVE  IInv'
<1> USE DEF IInv
<1>1. NoTask \in Task /\ NoTask.pc \notin Holding /\ NoTask.pc \notin {"waiting", "acting"}
  BY WritebackAssumption DEF NoTask, Task, Error, Holding, Executing
<1>2. /\ task' \in [Proc -> [Job -> Task]]
      /\ \A q \in Proc, i \in Job : task'[q][i] = IF q = p THEN NoTask ELSE task[q][i]
  BY <1>1 DEF Die, TypeOK
<1>3. UNCHANGED <<row, effects>> /\ OthersTyped
  BY DEF Die, OthersTyped, TypeOK
<1>4. TypeOK'
  BY <1>2, <1>3 DEF TypeOK, OthersTyped
<1>5. \A q \in Proc, i \in Job : task'[q][i].pc \in Holding => task'[q][i] = task[q][i]
  BY <1>1, <1>2
<1>6. HeldRow' /\ SnapshotFresh'
  BY <1>3, <1>5 DEF HeldRow, SnapshotFresh
<1>7. OneExecutor'
  BY <1>5 DEF OneExecutor
<1>8. Ledger' /\ OneRowPerKey'
  BY <1>3 DEF Ledger, OneRowPerKey
<1>9. NotYetActed'
  BY <1>1, <1>2, <1>3 DEF NotYetActed
<1>10. QED
  BY <1>4, <1>6, <1>7, <1>8, <1>9

LEMMA FireTyped ==
    ASSUME TypeOK, NEW j \in Job, NEW label \in {"success", "failed"}, Fire(j, label)
    PROVE  /\ heard' \in [Job -> SUBSET {"success", "failed"}]
           /\ missed' \in [Job -> SUBSET {"success", "failed"}]
<1>1. ASSUME NEW f \in [Job -> SUBSET {"success", "failed"}]
      PROVE  [f EXCEPT ![j] = @ \cup {label}] \in [Job -> SUBSET {"success", "failed"}]
  <2>1. f[j] \cup {label} \in SUBSET {"success", "failed"}
    OBVIOUS
  <2>2. QED
    BY <2>1
<1>2. heard' = heard \/ heard' = [heard EXCEPT ![j] = @ \cup {label}]
  BY DEF Fire, TypeOK
<1>3. missed' = missed \/ missed' = [missed EXCEPT ![j] = @ \cup {label}]
  BY DEF Fire
<1>4. QED
  BY <1>1, <1>2, <1>3 DEF TypeOK

LEMMA StepKeepsIInv ==
    ASSUME IInv, NEW p \in Proc, NEW j \in Job, Step(p, j)
    PROVE  IInv'
<1> USE DEF IInv
<1>1. CASE AcquireSlot(p, j)
  <2>1. OthersTyped
    BY <1>1 DEF AcquireSlot, OthersTyped, TypeOK
  <2>2. QED
    BY <1>1, <2>1, MoveKeepsIInv DEF AcquireSlot, Holding, Executing, Error
<1>2. CASE HandlerRefuses(p, j)
  <2>1. OthersTyped /\ UNCHANGED <<row, effects>>
    BY <1>2 DEF HandlerRefuses, OthersTyped, TypeOK
  <2>2. PICK pc \in {"failing", "killing"}, e \in Error : Goto(p, j, pc, e)
    BY <1>2 DEF HandlerRefuses, Error
  <2>3. task[p][j].pc = "acting" /\ task[p][j].pc \in Holding /\ pc \in Holding
    BY <1>2 DEF HandlerRefuses, Holding, Executing
  <2>4. QED
    BY <2>1, <2>2, <2>3, MoveKeepsIInv
<1>3. CASE HandlerDryRun(p, j)
  <2>1. OthersTyped
    BY <1>3 DEF HandlerDryRun, OthersTyped, TypeOK
  <2>2. QED
    BY <1>3, <2>1, MoveKeepsIInv DEF HandlerDryRun, HandlerProceeds, Holding, Executing, Error
<1>4. CASE HandlerRaises(p, j)
  <2>1. OthersTyped
    BY <1>4 DEF HandlerRaises, OthersTyped, TypeOK
  <2>2. QED
    BY <1>4, <2>1, MoveKeepsIInv DEF HandlerRaises, HandlerProceeds, Holding, Executing, Error
<1>5. CASE EversportsActs(p, j)
  BY <1>5, EversportsActsKeepsIInv
<1>6. CASE RecordAudit(p, j)
  <2>1. /\ heard' \in [Job -> SUBSET {"success", "failed"}]
        /\ missed' \in [Job -> SUBSET {"success", "failed"}]
    BY <1>6, FireTyped DEF RecordAudit, IInv, TypeOK
  <2>2. OthersTyped /\ UNCHANGED <<row, effects>>
    BY <1>6, <2>1 DEF RecordAudit, OthersTyped, TypeOK
  <2>3. PICK pc \in {"audited", "killing"}, e \in Error : Goto(p, j, pc, e)
    BY <1>6 DEF RecordAudit, Error
  <2>4. task[p][j].pc = "acted" /\ task[p][j].pc \in Holding /\ pc \in Holding
    BY <1>6 DEF RecordAudit, Holding, Executing
  <2>5. QED
    BY <2>2, <2>3, <2>4, MoveKeepsIInv
<1>7. CASE MarkSucceeded(p, j)
  BY <1>7, MarkSucceededKeepsIInv
<1>8. CASE MarkSucceededRaises(p, j)
  BY <1>8, MarkSucceededRaisesKeepsIInv
<1>9. CASE MarkFailedOrDead(p, j)
  <2>1. OthersTyped
    BY <1>9 DEF MarkFailedOrDead, OthersTyped, TypeOK
  <2>2. QED
    BY <1>9, <2>1, MarkFailedKeepsIInv DEF MarkFailedOrDead
<1>10. CASE MarkFailedRaises(p, j)
  <2>1. OthersTyped
    BY <1>10 DEF MarkFailedRaises, OthersTyped, TypeOK
  <2>2. CASE UNCHANGED row
    BY <1>10, <2>1, <2>2, EndKeepsIInv DEF MarkFailedRaises
  <2>3. CASE SetFailedOrDead(p, j)
    BY <1>10, <2>1, <2>3, MarkFailedKeepsIInv DEF MarkFailedRaises
  <2>4. QED
    BY <1>10, <2>2, <2>3 DEF MarkFailedRaises
<1>11. CASE NotifyFailure(p, j)
  <2>1. /\ heard' \in [Job -> SUBSET {"success", "failed"}]
        /\ missed' \in [Job -> SUBSET {"success", "failed"}]
    BY <1>11, FireTyped DEF NotifyFailure, IInv
  <2>2. OthersTyped
    BY <1>11, <2>1 DEF NotifyFailure, OthersTyped, TypeOK
  <2>3. QED
    BY <1>11, <2>2, EndKeepsIInv DEF NotifyFailure
<1>12. QED
  BY <1>1, <1>2, <1>3, <1>4, <1>5, <1>6, <1>7, <1>8, <1>9, <1>10, <1>11 DEF Step

LEMMA NextKeepsIInv == IInv /\ [Next]_vars => IInv'
<1> SUFFICES ASSUME IInv, [Next]_vars PROVE IInv'
  OBVIOUS
<1>1. CASE UNCHANGED vars
  BY <1>1, FrameKeepsIInv DEF vars, OthersTyped, IInv, TypeOK
<1>2. ASSUME NEW p \in Proc, NEW r \in Request, Enqueue(p, r) \/ CancelPending(p, r.location)
      PROVE  IInv'
  BY <1>2, EnqueueKeepsIInv, CancelKeepsIInv
<1>3. ASSUME NEW p \in Proc, NEW j \in Job, Claim(p, j) \/ Step(p, j)
      PROVE  IInv'
  BY <1>3, ClaimKeepsIInv, StepKeepsIInv
<1>4. ASSUME NEW p \in Proc, Boot(p) \/ StopRequested(p) \/ Stopped(p)
      PROVE  IInv'
  <2>1. loop' \in [Proc -> {"down", "polling", "exited", "draining"}]
    BY <1>4 DEF Boot, StopRequested, Stopped, IInv, TypeOK
  <2>2. settings' \in [Proc -> Settings]
    BY <1>4, WritebackAssumption DEF Boot, StopRequested, Stopped, IInv, TypeOK
  <2>3. UNCHANGED <<row, task, effects, audited, heard, missed>>
    BY <1>4 DEF Boot, StopRequested, Stopped
  <2>4. OthersTyped
    BY <2>1, <2>2, <2>3 DEF OthersTyped, IInv, TypeOK
  <2>5. QED
    BY <2>3, <2>4, FrameKeepsIInv
<1>5. ASSUME NEW p \in Proc, ClaimBreaks(p) \/ Die(p)
      PROVE  IInv'
  BY <1>5, ClaimBreaksKeepsIInv, DieKeepsIInv
<1>6. ASSUME NEW j \in Job, RetryDelayElapses(j)
      PROVE  IInv'
  BY <1>6, RetryKeepsIInv
<1>7. QED
  BY <1>1, <1>2, <1>3, <1>4, <1>5, <1>6 DEF Next

-----------------------------------------------------------------------------
(* The theorems.                                                           *)

\* IInv is an invariant of the queue.
THEOREM Invariance == Spec => []IInv
BY InitIInv, NextKeepsIInv, PTL DEF Spec

\* The columns of writeback_jobs and the states of its tasks stay in their
\* domains; attempt_count in particular never passes MAX_ATTEMPTS.
THEOREM TypeCorrect == Spec => []TypeOK
<1>1. IInv => TypeOK
  BY DEF IInv
<1>2. QED
  BY <1>1, Invariance, PTL

\* No two tasks of the fleet execute a row at the same time, for every number
\* of processes: the claim of _claim_next_job is the only lock there is.
THEOREM Exclusive == Spec => []OneExecutor
<1>1. IInv => OneExecutor
  BY DEF IInv
<1>2. QED
  BY <1>1, Invariance, PTL

\* The attempt_count that execute_writeback_job was handed is never stale.
THEOREM Fresh == Spec => []SnapshotFresh
<1>1. IInv => SnapshotFresh
  BY DEF IInv
<1>2. QED
  BY <1>1, Invariance, PTL

\* A key causes at most MAX_ATTEMPTS actions in Eversports.
THEOREM Bounded == Spec => []ActionsBounded
<1>1. ASSUME IInv PROVE ActionsBounded
  <2> USE <1>1 DEF IInv
  <2>1. \A j \in Job : effects[j] <= MaxAttempts
    <3> TAKE j \in Job
    <3>1. /\ row[j].status \in Status /\ row[j].attempts \in Nat
          /\ effects[j] \in Nat /\ MaxAttempts \in Nat
      BY WritebackAssumption DEF TypeOK, Row
    <3>2. QED
      BY <3>1 DEF Ledger, Status
  <2>2. \A j \in Job : effects[j] > 0 => row[j].status # "absent"
    BY DEF Ledger
  <2>3. QED
    BY <2>1, <2>2 DEF ActionsBounded, OneRowPerKey
<1>2. QED
  BY <1>1, Invariance, PTL

-----------------------------------------------------------------------------
(* What a step may do to one row, whoever takes it.                        *)

\* The ways a row changes: inserted, cancelled, taken, due again, or written by
\* the task that holds it.
RowMoves(j) ==
    \/ row'[j] = row[j]
    \/ row[j].status = "absent" /\ row'[j].status = "queued"
    \/ row[j].status \in {"queued", "failed"} /\ row'[j].status = "dead"
    \/ Due(j) /\ row'[j].status = "running" /\ row'[j].retry = row[j].retry
    \/ /\ row[j].retry = "later" /\ row'[j].retry = "due"
       /\ row'[j].status = row[j].status
    \/ \E p \in Proc : task[p][j].pc = "audited" /\ row'[j].status = "succeeded"
    \/ \E p \in Proc : /\ task[p][j].pc \in {"failing", "killing"}
                       /\ row'[j].status \in {"failed", "dead"}

\* Actions in Eversports happen in a task that calls its handler.
EffectMoves(j) ==
    effects'[j] = effects[j] \/ \E p \in Proc : task[p][j].pc = "acting"

\* The audit log only grows, a task enters "audited" with its line written, and a
\* task takes up no row but one that is due.
TrailMoves ==
    /\ audited \subseteq audited'
    /\ \A p \in Proc, j \in Job :
          task'[p][j].pc = "audited" => task[p][j].pc = "audited" \/ j \in audited'
    /\ \A p \in Proc, j \in Job :
          task'[p][j].pc # "none" => task[p][j].pc # "none" \/ Due(j)

LEMMA StepMoves ==
    ASSUME IInv, NEW p \in Proc, NEW j \in Job, Step(p, j)
    PROVE  /\ \A i \in Job : RowMoves(i) /\ EffectMoves(i)
           /\ TrailMoves
<1> USE DEF IInv
<1>0. task[p][j].pc # "none"
  BY DEF Step, AcquireSlot, HandlerRefuses, HandlerDryRun, HandlerRaises, EversportsActs,
         HandlerProceeds, RecordAudit, MarkSucceeded, MarkSucceededRaises, MarkFailedOrDead,
         MarkFailedRaises, NotifyFailure
<1>1. ASSUME NEW pc \in Executing \cup {"none", "waiting"}, NEW e \in Error,
             Goto(p, j, pc, e), audited \subseteq audited', pc = "audited" => j \in audited'
      PROVE  TrailMoves
  BY <1>0, <1>1, GotoFrame DEF TrailMoves
<1>2. ASSUME Finish(p, j), UNCHANGED audited PROVE TrailMoves
  BY <1>2, FinishFrame DEF TrailMoves, NoTask
<1>3. task[p][j].error \in Error
  BY DEF TypeOK, Task
<1>4. ASSUME task[p][j].pc = "audited", SetSucceeded(j)
      PROVE  \A i \in Job : RowMoves(i)
  BY <1>4, SucceededRow DEF RowMoves, TypeOK
<1>5. ASSUME task[p][j].pc \in {"failing", "killing"}, SetFailedOrDead(p, j)
      PROVE  \A i \in Job : RowMoves(i)
  BY <1>5, FailedRow DEF RowMoves, TypeOK
<1>6. CASE AcquireSlot(p, j)
  BY <1>1, <1>6 DEF AcquireSlot, RowMoves, EffectMoves, Executing, Error
<1>7. CASE HandlerRefuses(p, j)
  BY <1>1, <1>7 DEF HandlerRefuses, RowMoves, EffectMoves, Executing, Error
<1>8. CASE HandlerDryRun(p, j)
  BY <1>1, <1>8 DEF HandlerDryRun, RowMoves, EffectMoves, Executing, Error
<1>9. CASE HandlerRaises(p, j)
  BY <1>1, <1>9 DEF HandlerRaises, RowMoves, EffectMoves, Executing, Error
<1>10. CASE EversportsActs(p, j)
  <2>1. \A i \in Job : RowMoves(i) /\ EffectMoves(i)
    BY <1>10 DEF EversportsActs, HandlerProceeds, RowMoves, EffectMoves, TypeOK
  <2>2. TrailMoves
    BY <1>1, <1>10 DEF EversportsActs, Executing, Error
  <2>3. QED
    BY <2>1, <2>2
<1>11. CASE RecordAudit(p, j)
  <2>1. \A i \in Job : RowMoves(i) /\ EffectMoves(i)
    BY <1>11 DEF RecordAudit, RowMoves, EffectMoves
  <2>2. PICK pc \in {"audited", "killing"}, e \in Error :
           /\ Goto(p, j, pc, e)
           /\ audited \subseteq audited'
           /\ pc = "audited" => j \in audited'
    BY <1>11 DEF RecordAudit, Error
  <2>3. QED
    BY <1>1, <2>1, <2>2 DEF Executing
<1>12. CASE MarkSucceeded(p, j)
  BY <1>2, <1>4, <1>12 DEF MarkSucceeded, EffectMoves
<1>13. CASE MarkSucceededRaises(p, j)
  <2>1. \A i \in Job : RowMoves(i)
    BY <1>4, <1>13 DEF MarkSucceededRaises, RowMoves
  <2>2. QED
    BY <1>1, <1>13, <2>1 DEF MarkSucceededRaises, EffectMoves, Executing, Error
<1>14. CASE MarkFailedOrDead(p, j)
  <2>1. \A i \in Job : RowMoves(i) /\ EffectMoves(i)
    BY <1>5, <1>14 DEF MarkFailedOrDead, EffectMoves
  <2>2. TrailMoves
    BY <1>1, <1>2, <1>3, <1>14 DEF MarkFailedOrDead, Executing
  <2>3. QED
    BY <2>1, <2>2
<1>15. CASE MarkFailedRaises(p, j)
  <2>1. \A i \in Job : RowMoves(i)
    BY <1>5, <1>15 DEF MarkFailedRaises, RowMoves
  <2>2. QED
    BY <1>2, <1>15, <2>1 DEF MarkFailedRaises, EffectMoves
<1>16. CASE NotifyFailure(p, j)
  BY <1>2, <1>16 DEF NotifyFailure, RowMoves, EffectMoves
<1>17. QED
  BY <1>6, <1>7, <1>8, <1>9, <1>10, <1>11, <1>12, <1>13, <1>14, <1>15, <1>16 DEF Step

LEMMA NextMoves ==
    ASSUME IInv, [Next]_vars
    PROVE  /\ \A i \in Job : RowMoves(i) /\ EffectMoves(i)
           /\ TrailMoves
<1> USE DEF IInv
<1>1. CASE UNCHANGED vars
  BY <1>1 DEF vars, RowMoves, EffectMoves, TrailMoves
<1>2. ASSUME NEW p \in Proc, NEW r \in Request, Enqueue(p, r)
      PROVE  (\A i \in Job : RowMoves(i) /\ EffectMoves(i)) /\ TrailMoves
  <2>1. \A i \in Job : RowMoves(i)
    BY <1>2 DEF Enqueue, RowMoves, TypeOK
  <2>2. \A i \in Job : EffectMoves(i)
    BY <1>2 DEF Enqueue, EffectMoves
  <2>3. TrailMoves
    BY <1>2 DEF Enqueue, TrailMoves
  <2>4. QED
    BY <2>1, <2>2, <2>3
<1>3. ASSUME NEW p \in Proc, NEW r \in Request, CancelPending(p, r.location)
      PROVE  (\A i \in Job : RowMoves(i) /\ EffectMoves(i)) /\ TrailMoves
  <2>1. ASSUME NEW i \in Job PROVE RowMoves(i)
    <3>1. CASE Cancellable(i, r.location)
      <4>1. row[i] \in Row /\ row[i].status \in {"queued", "failed"}
        BY <3>1 DEF Cancellable, TypeOK
      <4>2. row'[i] = [row[i] EXCEPT !.status = "dead", !.error = "cancelled"]
        BY <1>3, <3>1 DEF CancelPending
      <4>3. row'[i].status = "dead"
        BY <4>1, <4>2 DEF Row
      <4>4. QED
        BY <4>1, <4>3 DEF RowMoves
    <3>2. CASE ~Cancellable(i, r.location)
      BY <1>3, <3>2 DEF CancelPending, RowMoves
    <3>3. QED
      BY <3>1, <3>2
  <2>2. QED
    BY <1>3, <2>1 DEF CancelPending, EffectMoves, TrailMoves
<1>4. ASSUME NEW j \in Job, Due(j), SetRunning(j)
      PROVE  \A i \in Job : RowMoves(i)
  BY <1>4 DEF SetRunning, RowMoves, TypeOK, Row
<1>5. ASSUME NEW p \in Proc, NEW j \in Job, Claim(p, j)
      PROVE  (\A i \in Job : RowMoves(i) /\ EffectMoves(i)) /\ TrailMoves
  <2>1. \A i \in Job : RowMoves(i) /\ EffectMoves(i)
    BY <1>4, <1>5 DEF Claim, Oldest, EffectMoves
  <2>2. TrailMoves
    BY <1>5 DEF Claim, Oldest, TrailMoves, TypeOK
  <2>3. QED
    BY <2>1, <2>2
<1>6. ASSUME NEW p \in Proc, NEW j \in Job, Step(p, j)
      PROVE  (\A i \in Job : RowMoves(i) /\ EffectMoves(i)) /\ TrailMoves
  BY <1>6, StepMoves
<1>7. ASSUME NEW p \in Proc, ClaimBreaks(p)
      PROVE  (\A i \in Job : RowMoves(i) /\ EffectMoves(i)) /\ TrailMoves
  <2>1. \A i \in Job : RowMoves(i)
    BY <1>4, <1>7 DEF ClaimBreaks, Oldest, RowMoves
  <2>2. QED
    BY <1>7, <2>1 DEF ClaimBreaks, EffectMoves, TrailMoves
<1>8. ASSUME NEW p \in Proc, Boot(p) \/ StopRequested(p) \/ Stopped(p)
      PROVE  (\A i \in Job : RowMoves(i) /\ EffectMoves(i)) /\ TrailMoves
  BY <1>8 DEF Boot, StopRequested, Stopped, RowMoves, EffectMoves, TrailMoves
<1>9. ASSUME NEW p \in Proc, Die(p)
      PROVE  (\A i \in Job : RowMoves(i) /\ EffectMoves(i)) /\ TrailMoves
  BY <1>9 DEF Die, RowMoves, EffectMoves, TrailMoves, NoTask, TypeOK
<1>10. ASSUME NEW j \in Job, RetryDelayElapses(j)
      PROVE  (\A i \in Job : RowMoves(i) /\ EffectMoves(i)) /\ TrailMoves
  BY <1>10 DEF RetryDelayElapses, RowMoves, EffectMoves, TrailMoves, TypeOK, Row
<1>11. QED
  BY <1>1, <1>2, <1>3, <1>5, <1>6, <1>7, <1>8, <1>9, <1>10 DEF Next

\* Once dead, a row is out of reach: nobody holds it, and nobody may take it.
THEOREM DeadStaysInert == Spec => DeadIsInert
<1>1. ASSUME IInv, [Next]_vars, NEW j \in Job, row[j].status = "dead"
      PROVE  row'[j].status = "dead" /\ effects'[j] = effects[j]
  <2>1. \A p \in Proc : task[p][j].pc \notin Holding
    BY <1>1 DEF IInv, HeldRow
  <2>2. RowMoves(j) /\ EffectMoves(j)
    BY <1>1, NextMoves
  <2>3. QED
    BY <1>1, <2>1, <2>2 DEF RowMoves, EffectMoves, Due, Holding, Executing
<1>2. IInv /\ [Next]_vars =>
         [\A j \in Job : row[j].status = "dead"
             => row'[j].status = "dead" /\ effects'[j] = effects[j]]_vars
  BY <1>1
<1>3. QED
  BY <1>2, Invariance, PTL DEF Spec, DeadIsInert

\* The trail a row leaves: what IInv does not need and the last two theorems do.
Trail ==
    /\ SucceededIsAudited
    /\ \A p \in Proc, j \in Job : task[p][j].pc = "audited" => j \in audited
    /\ \A j \in Job : row[j].status = "running" => row[j].retry # "later"

LEMMA NextKeepsTrail == IInv /\ Trail /\ [Next]_vars => Trail'
<1> SUFFICES ASSUME IInv, Trail, [Next]_vars PROVE Trail'
  OBVIOUS
<1>1. \A j \in Job : RowMoves(j)
  BY NextMoves
<1>2. TrailMoves
  BY NextMoves
<1>3. SucceededIsAudited'
  BY <1>1, <1>2 DEF Trail, SucceededIsAudited, RowMoves, TrailMoves
<1>4. \A p \in Proc, j \in Job : task'[p][j].pc = "audited" => j \in audited'
  BY <1>2 DEF Trail, TrailMoves
<1>5. \A j \in Job : row'[j].status = "running" => row'[j].retry # "later"
  BY <1>1 DEF Trail, RowMoves, Due
<1>6. QED
  BY <1>3, <1>4, <1>5 DEF Trail

\* Crashes, lost answers and retries included, a row that says succeeded has its
\* line in the audit log.
THEOREM Audited == Spec => []SucceededIsAudited
<1>1. Init => Trail
  BY DEF Init, Trail, SucceededIsAudited, NoTask
<1>2. Trail => SucceededIsAudited
  BY DEF Trail
<1>3. QED
  BY <1>1, <1>2, NextKeepsTrail, Invariance, PTL DEF Spec

\* A row left behind by a dead task is never touched again, by anybody.
THEOREM OrphansStayInert == Spec => OrphansAreInert
<1>1. ASSUME IInv, Trail, [Next]_vars, NEW j \in Job, row[j].status = "running", Unattended(j)
      PROVE  row'[j] = row[j] /\ effects'[j] = effects[j] /\ Unattended(j)'
  <2>1. RowMoves(j) /\ EffectMoves(j) /\ TrailMoves
    BY <1>1, NextMoves
  <2>2. row'[j] = row[j] /\ effects'[j] = effects[j]
    BY <1>1, <2>1 DEF RowMoves, EffectMoves, Due, Unattended, Trail
  <2>3. Unattended(j)'
    BY <1>1, <2>1 DEF TrailMoves, Due, Unattended
  <2>4. QED
    BY <2>2, <2>3
<1>2. IInv /\ Trail /\ [Next]_vars =>
         [\A j \in Job : row[j].status = "running" /\ Unattended(j)
             => row'[j] = row[j] /\ effects'[j] = effects[j] /\ Unattended(j)']_vars
  BY <1>1
<1>3. Init => Trail
  BY DEF Init, Trail, SucceededIsAudited, NoTask
<1>4. QED
  BY <1>2, <1>3, NextKeepsTrail, Invariance, PTL DEF Spec, OrphansAreInert

-----------------------------------------------------------------------------
(* What GHL is told.                                                       *)

\* A step of a task concerns its own row and nobody else's task.
LEMMA StepFrame ==
    ASSUME IInv, NEW p \in Proc, NEW j \in Job, Step(p, j)
    PROVE  /\ \A i \in Job : i # j =>
                 /\ row'[i] = row[i] /\ effects'[i] = effects[i]
                 /\ heard'[i] = heard[i] /\ missed'[i] = missed[i]
                 /\ i \in audited' <=> i \in audited
           /\ \A q \in Proc, i \in Job : q # p \/ i # j => task'[q][i] = task[q][i]
           /\ UNCHANGED <<loop, settings>>
<1> USE DEF IInv
<1>1. \A i \in Job : i # j => row'[i] = row[i]
  <2>1. UNCHANGED row \/ SetSucceeded(j) \/ SetFailedOrDead(p, j)
    BY DEF Step, AcquireSlot, HandlerRefuses, HandlerDryRun, HandlerRaises, EversportsActs,
           RecordAudit, MarkSucceeded, MarkSucceededRaises, MarkFailedOrDead,
           MarkFailedRaises, NotifyFailure
  <2>2. QED
    BY <2>1 DEF SetSucceeded, SetFailedOrDead, TypeOK
<1>2. \A i \in Job : i # j => heard'[i] = heard[i] /\ missed'[i] = missed[i]
  <2>1. UNCHANGED <<heard, missed>> \/ Fire(j, "success") \/ Fire(j, "failed")
    BY DEF Step, AcquireSlot, HandlerRefuses, HandlerDryRun, HandlerRaises, EversportsActs,
           RecordAudit, MarkSucceeded, MarkSucceededRaises, MarkFailedOrDead,
           MarkFailedRaises, NotifyFailure
  <2>2. QED
    BY <2>1 DEF Fire, TypeOK
<1>3. \A q \in Proc, i \in Job : q # p \/ i # j => task'[q][i] = task[q][i]
  <2>1. Finish(p, j) \/ \E pc, e : Goto(p, j, pc, e)
    BY DEF Step, AcquireSlot, HandlerRefuses, HandlerDryRun, HandlerRaises, EversportsActs,
           RecordAudit, MarkSucceeded, MarkSucceededRaises, MarkFailedOrDead,
           MarkFailedRaises, NotifyFailure
  <2>2. CASE Finish(p, j)
    BY <2>2, FinishFrame
  <2>3. ASSUME NEW pc, NEW e, Goto(p, j, pc, e)
        PROVE  \A q \in Proc, i \in Job : q # p \/ i # j => task'[q][i] = task[q][i]
    BY <2>3 DEF Goto, TypeOK
  <2>4. QED
    BY <2>1, <2>2, <2>3
<1>4. \A i \in Job : i # j => effects'[i] = effects[i] /\ (i \in audited' <=> i \in audited)
  <2>1. /\ UNCHANGED effects \/ effects' = [effects EXCEPT ![j] = @ + 1]
        /\ UNCHANGED audited \/ audited' = audited \cup {j}
    BY DEF Step, AcquireSlot, HandlerRefuses, HandlerDryRun, HandlerRaises, EversportsActs,
           RecordAudit, MarkSucceeded, MarkSucceededRaises, MarkFailedOrDead,
           MarkFailedRaises, NotifyFailure
  <2>2. QED
    BY <2>1 DEF TypeOK
<1>5. UNCHANGED <<loop, settings>>
  BY DEF Step, AcquireSlot, HandlerRefuses, HandlerDryRun, HandlerRaises, EversportsActs,
         RecordAudit, MarkSucceeded, MarkSucceededRaises, MarkFailedOrDead,
         MarkFailedRaises, NotifyFailure
<1>6. QED
  BY <1>1, <1>2, <1>3, <1>4, <1>5

\* The outcome of a task that failed, as the row shows it.
LEMMA FailureShown ==
    ASSUME IInv, NEW p \in Proc, NEW j \in Job,
           task[p][j].pc \in {"failing", "killing"}, SetFailedOrDead(p, j)
    PROVE  /\ row'[j].status = IF NewCount(p, j) >= MaxAttempts THEN "dead" ELSE "failed"
           /\ row'[j].error = task[p][j].error
           /\ task[p][j].pc = "killing" => NewCount(p, j) >= MaxAttempts
<1>1. row[j] \in Row /\ row \in [Job -> Row]
  BY DEF IInv, TypeOK
<1>2. /\ row'[j].status = IF NewCount(p, j) >= MaxAttempts THEN "dead" ELSE "failed"
      /\ row'[j].error = task[p][j].error
  BY <1>1 DEF SetFailedOrDead, Row
<1>3. task[p][j].pc = "killing" => NewCount(p, j) >= MaxAttempts
  BY WritebackAssumption DEF NewCount
<1>4. QED
  BY <1>2, <1>3

\* A task that works on its row is alone with it: nobody else is about to report.
LEMMA Alone ==
    ASSUME IInv, NEW p \in Proc, NEW j \in Job, task[p][j].pc \in Holding
    PROVE  /\ row[j].status \in {"running", "succeeded"}
           /\ task[p][j].pc # "failing" => row[j].status = "running"
           /\ \A q \in Proc : q # p => task[q][j].pc \in {"none", "notifying"}
<1>1. \A q \in Proc : q # p => task[q][j].pc \notin Holding /\ task[q][j] \in Task
  BY DEF IInv, OneExecutor, TypeOK
<1>2. QED
  BY <1>1 DEF IInv, HeldRow, Holding, Executing, Task

\* A success GHL heard of whose action the audit log does not have.
Unlogged(j) == "success" \in heard[j] /\ j \notin audited

RowTold(j) ==
    /\ "success" \in heard[j] => effects[j] > 0
    /\ "failed" \in heard[j] \cup missed[j] => row[j].status = "dead"
    /\ "failed" \notin heard[j] \cap missed[j]
    /\ heard[j] = {"success", "failed"} => j \in audited
    /\ Unlogged(j) => row[j].status \in {"running", "dead"}

\* Only a task that ends with an audit error leaves a success unlogged, and it
\* does not report; the task that reports a death is the last of its row.
TaskTold(p, j) ==
    /\ task[p][j].pc = "acted" /\ ~settings[p].dryRun => effects[j] > 0
    /\ task[p][j].pc \in Holding /\ Unlogged(j) =>
          task[p][j].pc = "killing" /\ task[p][j].error = "audit"
    /\ task[p][j].pc = "notifying" =>
          /\ row[j].status = "dead" /\ ~Unlogged(j)
          /\ "failed" \notin heard[j] \cup missed[j]
          /\ \A q \in Proc : q # p => task[q][j].pc = "none"

\* A process gets its settings when it has no task.
DownIdle == \A p \in Proc, j \in Job : loop[p] = "down" => task[p][j].pc = "none"

Told == DownIdle /\ \A j \in Job : RowTold(j) /\ \A p \in Proc : TaskTold(p, j)

\* Steps that report nothing and leave a row to its tasks.
LEMMA ToldStands ==
    ASSUME NEW j \in Job, RowTold(j), \A p \in Proc : TaskTold(p, j),
           row'[j].status = row[j].status, effects'[j] = effects[j],
           heard'[j] = heard[j], missed'[j] = missed[j], j \in audited' <=> j \in audited,
           \A p \in Proc : \/ task'[p][j] = task[p][j] /\ settings'[p] = settings[p]
                           \/ task'[p][j].pc = "none"
    PROVE  RowTold(j)' /\ \A p \in Proc : TaskTold(p, j)'
<1>1. Unlogged(j)' <=> Unlogged(j)
  BY DEF Unlogged
<1>2. RowTold(j)'
  BY <1>1 DEF RowTold
<1>3. ASSUME NEW p \in Proc PROVE TaskTold(p, j)'
  <2>1. CASE task'[p][j].pc = "none"
    BY <2>1 DEF TaskTold, Holding, Executing
  <2>2. CASE task'[p][j] = task[p][j] /\ settings'[p] = settings[p]
    <3>1. \A q \in Proc : task[q][j].pc = "none" => task'[q][j].pc = "none"
      OBVIOUS
    <3>2. QED
      BY <1>1, <2>2, <3>1 DEF TaskTold
  <2>3. QED
    BY <2>1, <2>2
<1>4. QED
  BY <1>2, <1>3

\* Steps in which a task that holds a row moves on, and reports nothing.
LEMMA HolderMoves ==
    ASSUME IInv, NEW p \in Proc, NEW j \in Job, RowTold(j), \A q \in Proc : TaskTold(q, j),
           task[p][j].pc \in Holding,
           UNCHANGED <<settings, heard, missed, audited>>,
           effects'[j] \in {effects[j], effects[j] + 1},
           \A q \in Proc : q # p => task'[q][j].pc = "none",
           Unlogged(j) => row'[j].status \in {"running", "dead"},
           task'[p][j].pc = "acted" /\ ~settings[p].dryRun => effects'[j] > 0,
           task'[p][j].pc \in Holding /\ Unlogged(j) =>
              task'[p][j].pc = "killing" /\ task'[p][j].error = "audit",
           task'[p][j].pc = "notifying" => row'[j].status = "dead" /\ ~Unlogged(j)
    PROVE  RowTold(j)' /\ \A q \in Proc : TaskTold(q, j)'
<1>1. Unlogged(j)' <=> Unlogged(j)
  BY DEF Unlogged
<1>2. "failed" \notin heard[j] \cup missed[j]
  BY Alone DEF RowTold
<1>3. effects[j] \in Nat
  BY DEF IInv, TypeOK
<1>4. RowTold(j)'
  BY <1>1, <1>2, <1>3 DEF RowTold
<1>5. \A q \in Proc : q # p => TaskTold(q, j)'
  BY DEF TaskTold, Holding, Executing
<1>6. TaskTold(p, j)'
  BY <1>1, <1>2 DEF TaskTold
<1>7. QED
  BY <1>4, <1>5, <1>6

LEMMA StepKeepsTold ==
    ASSUME IInv, Told, NEW p \in Proc, NEW j \in Job, Step(p, j)
    PROVE  Told'
<1>1. /\ \A i \in Job : i # j => /\ row'[i] = row[i] /\ effects'[i] = effects[i]
                                 /\ heard'[i] = heard[i] /\ missed'[i] = missed[i]
                                 /\ i \in audited' <=> i \in audited
      /\ \A q \in Proc, i \in Job : q # p \/ i # j => task'[q][i] = task[q][i]
      /\ UNCHANGED <<loop, settings>>
  BY StepFrame
<1>2. ASSUME NEW i \in Job, i # j PROVE RowTold(i)' /\ \A q \in Proc : TaskTold(q, i)'
  <2>1. RowTold(i) /\ \A q \in Proc : TaskTold(q, i)
    BY DEF Told
  <2>2. \A q \in Proc : task'[q][i] = task[q][i] /\ settings'[q] = settings[q]
    BY <1>1, <1>2
  <2>3. QED
    BY <1>1, <1>2, <2>1, <2>2, ToldStands
<1>3. RowTold(j) /\ \A q \in Proc : TaskTold(q, j)
  BY DEF Told
<1>4. TypeOK /\ task[p][j] \in Task /\ effects[j] \in Nat
  BY DEF IInv, TypeOK
<1>5. task[p][j].pc \in Holding \/ task[p][j].pc = "notifying"
  BY DEF Step, AcquireSlot, HandlerRefuses, HandlerDryRun, HandlerRaises, EversportsActs,
         HandlerProceeds, RecordAudit, MarkSucceeded, MarkSucceededRaises, MarkFailedOrDead,
         MarkFailedRaises, NotifyFailure, Holding, Executing
<1>6. DownIdle'
  <2>1. loop[p] # "down"
    BY <1>5 DEF Told, DownIdle, Holding, Executing
  <2>2. QED
    BY <1>1, <2>1 DEF Told, DownIdle
<1>7. SUFFICES RowTold(j)' /\ \A q \in Proc : TaskTold(q, j)'
  BY <1>2, <1>6 DEF Told
\* A task that holds its row is alone with it.
<1>8. ASSUME task[p][j].pc \in Holding
      PROVE  \A q \in Proc : q # p => task'[q][j].pc = "none"
  <2>1. \A q \in Proc : q # p => task[q][j].pc # "notifying"
    BY <1>3, <1>8, Alone DEF TaskTold
  <2>2. QED
    BY <1>1, <1>8, <2>1, Alone
<1>9. ASSUME task[p][j].pc \in Holding, task[p][j].pc # "killing" PROVE ~Unlogged(j)
  BY <1>3, <1>9 DEF TaskTold
\* Up to the handler's return nothing is reported.
<1>10. ASSUME NEW pc \in {"acting", "acted", "failing", "killing"}, NEW e \in Error,
              task[p][j].pc \in {"waiting", "acting"}, Goto(p, j, pc, e),
              UNCHANGED <<row, heard, missed, audited>>,
              effects'[j] \in {effects[j], effects[j] + 1},
              pc = "acted" /\ ~settings[p].dryRun => effects'[j] > 0
       PROVE  RowTold(j)' /\ \A q \in Proc : TaskTold(q, j)'
  <2>1. task'[p][j].pc = pc
    BY <1>4, <1>10, GotoFrame DEF Executing
  <2>2. task[p][j].pc \in Holding
    BY <1>10 DEF Holding, Executing
  <2>3. ~Unlogged(j) /\ \A q \in Proc : q # p => task'[q][j].pc = "none"
    BY <1>8, <1>9, <1>10, <2>2
  <2>4. QED
    BY <1>1, <1>3, <1>10, <2>1, <2>2, <2>3, HolderMoves
<1>11. CASE AcquireSlot(p, j)
  BY <1>10, <1>11 DEF AcquireSlot, Error
<1>12. CASE HandlerRefuses(p, j)
  BY <1>10, <1>12 DEF HandlerRefuses, Error
<1>13. CASE HandlerDryRun(p, j)
  BY <1>10, <1>13 DEF HandlerDryRun, HandlerProceeds, Error
<1>14. CASE HandlerRaises(p, j)
  BY <1>10, <1>14 DEF HandlerRaises, HandlerProceeds, Error
<1>15. CASE EversportsActs(p, j)
  <2>1. effects'[j] = effects[j] + 1 /\ effects'[j] > 0
    BY <1>4, <1>15 DEF EversportsActs, TypeOK
  <2>2. QED
    BY <1>10, <1>15, <2>1 DEF EversportsActs, HandlerProceeds, Error
<1>16. CASE RecordAudit(p, j)
  <2>1. task[p][j].pc = "acted" /\ task[p][j].pc \in Holding /\ UNCHANGED <<row, effects>>
    BY <1>16 DEF RecordAudit, Holding, Executing
  <2>2. row[j].status = "running" /\ ~Unlogged(j) /\ "failed" \notin heard[j] \cup missed[j]
    BY <1>3, <1>9, <2>1, Alone DEF RowTold
  <2>3. /\ "failed" \notin heard'[j] \cup missed'[j]
        /\ "success" \in heard'[j] => "success" \in heard[j] \/ ~settings[p].dryRun
    BY <1>4, <1>16, <2>2 DEF RecordAudit, Fire, TypeOK
  <2>4. \/ task'[p][j].pc = "audited" /\ j \in audited'
        \/ task'[p][j].pc = "killing" /\ task'[p][j].error = "audit"
    BY <1>4, <1>16 DEF RecordAudit, Goto, TypeOK, Task
  <2>5. "success" \in heard'[j] => effects'[j] > 0
    BY <1>3, <2>1, <2>3 DEF RowTold, TaskTold
  <2>6. RowTold(j)'
    BY <2>1, <2>2, <2>3, <2>5 DEF RowTold, Unlogged
  <2>7. TaskTold(p, j)'
    BY <2>4 DEF TaskTold, Unlogged
  <2>8. \A q \in Proc : q # p => TaskTold(q, j)'
    BY <1>8, <2>1 DEF TaskTold, Holding, Executing
  <2>9. QED
    BY <2>6, <2>7, <2>8
<1>17. CASE MarkSucceeded(p, j)
  <2>1. /\ task[p][j].pc \in Holding /\ ~Unlogged(j)
        /\ UNCHANGED <<settings, heard, missed, audited, effects>>
    BY <1>9, <1>17 DEF MarkSucceeded, Holding, Executing
  <2>2. task'[p][j].pc = "none"
    BY <1>4, <1>17, FinishFrame DEF MarkSucceeded
  <2>3. QED
    BY <1>3, <1>8, <2>1, <2>2, HolderMoves DEF Holding, Executing
<1>18. CASE MarkSucceededRaises(p, j)
  <2>1. /\ task[p][j].pc \in Holding /\ ~Unlogged(j)
        /\ UNCHANGED <<settings, heard, missed, audited, effects>>
    BY <1>9, <1>18 DEF MarkSucceededRaises, Holding, Executing
  <2>2. task'[p][j].pc = "failing"
    BY <1>4, <1>18, GotoFrame DEF MarkSucceededRaises, Executing, Error
  <2>3. QED
    BY <1>3, <1>8, <2>1, <2>2, HolderMoves
<1>19. CASE MarkFailedOrDead(p, j) \/ MarkFailedRaises(p, j)
  <2>1. /\ task[p][j].pc \in {"failing", "killing"} /\ task[p][j].pc \in Holding
        /\ UNCHANGED <<settings, heard, missed, audited, effects>>
    BY <1>19 DEF MarkFailedOrDead, MarkFailedRaises, Holding, Executing
  <2>2. Unlogged(j) => task[p][j].pc = "killing" /\ task[p][j].error = "audit"
    BY <1>3, <2>1 DEF TaskTold
  <2>3. CASE UNCHANGED row
    <3>1. task'[p][j].pc = "none" \/ SetFailedOrDead(p, j)
      BY <1>4, <1>19, FinishFrame DEF MarkFailedOrDead, MarkFailedRaises
    <3>2. Unlogged(j) => row'[j].status \in {"running", "dead"}
      BY <1>3, <2>1, <2>3 DEF RowTold, Unlogged
    <3>3. CASE task'[p][j].pc = "none"
      BY <1>3, <1>8, <2>1, <3>2, <3>3, HolderMoves DEF Holding, Executing
    <3>4. CASE SetFailedOrDead(p, j)
      <4>1. row'[j].status \in {"failed", "dead"}
        BY <2>1, <3>4, FailureShown
      <4>2. row[j].status \in {"running", "succeeded"}
        BY <2>1, Alone
      <4>3. QED
        BY <2>3, <4>1, <4>2
    <3>5. QED
      BY <3>1, <3>3, <3>4
  <2>4. CASE SetFailedOrDead(p, j)
    <3>1. /\ row'[j].status = IF NewCount(p, j) >= MaxAttempts THEN "dead" ELSE "failed"
          /\ task[p][j].pc = "killing" => NewCount(p, j) >= MaxAttempts
      BY <2>1, <2>4, FailureShown
    <3>2. Unlogged(j) => row'[j].status \in {"running", "dead"}
      BY <2>2, <3>1
    <3>3. \/ task'[p][j].pc = "none"
          \/ task'[p][j].pc = "notifying" /\ NewCount(p, j) >= MaxAttempts
             /\ task[p][j].error # "audit"
      BY <1>4, <1>19, FinishFrame, GotoFrame
         DEF MarkFailedOrDead, MarkFailedRaises, Executing, Task
    <3>4. task'[p][j].pc = "notifying" => row'[j].status = "dead" /\ ~Unlogged(j)
      BY <2>2, <3>1, <3>3
    <3>5. task'[p][j].pc \notin Holding /\ task'[p][j].pc # "acted"
      BY <3>3 DEF Holding, Executing
    <3>6. QED
      BY <1>3, <1>8, <2>1, <3>2, <3>4, <3>5, HolderMoves
  <2>5. QED
    BY <1>19, <2>3, <2>4 DEF MarkFailedOrDead, MarkFailedRaises
<1>20. CASE NotifyFailure(p, j)
  <2>1. /\ task[p][j].pc = "notifying" /\ UNCHANGED <<row, effects, audited>>
        /\ row[j].status = "dead" /\ ~Unlogged(j)
        /\ "failed" \notin heard[j] \cup missed[j]
        /\ \A q \in Proc : q # p => task[q][j].pc = "none"
    BY <1>3, <1>20 DEF NotifyFailure, TaskTold
  <2>2. /\ "success" \in heard'[j] => "success" \in heard[j]
        /\ "failed" \notin heard'[j] \cap missed'[j]
    BY <1>4, <1>20, <2>1 DEF NotifyFailure, Fire, TypeOK
  <2>3. RowTold(j)'
    BY <1>3, <2>1, <2>2 DEF RowTold, Unlogged
  <2>4. task'[p][j].pc = "none"
    BY <1>4, <1>20, FinishFrame DEF NotifyFailure
  <2>5. \A q \in Proc : task'[q][j].pc = "none"
    BY <1>1, <2>1, <2>4
  <2>6. QED
    BY <2>3, <2>5 DEF TaskTold, Holding, Executing
<1>21. QED
  BY <1>11, <1>12, <1>13, <1>14, <1>15, <1>16, <1>17, <1>18, <1>19, <1>20 DEF Step

LEMMA NextKeepsTold ==
    ASSUME IInv, Told, [Next]_vars
    PROVE  Told'
<1>1. DownIdle /\ \A j \in Job : RowTold(j) /\ \A p \in Proc : TaskTold(p, j)
  BY DEF Told
<1>2. /\ row \in [Job -> Row] /\ task \in [Proc -> [Job -> Task]] /\ effects \in [Job -> Nat]
      /\ loop \in [Proc -> {"down", "polling", "exited", "draining"}]
      /\ settings \in [Proc -> Settings]
  BY DEF IInv, TypeOK
<1>3. CASE UNCHANGED vars
  BY <1>3 DEF vars, Told, DownIdle, RowTold, TaskTold, Unlogged
\* A row that nobody holds may change its status.
<1>4. ASSUME UNCHANGED <<task, loop, settings, effects, audited, heard, missed>>,
             \A j \in Job : \/ row'[j].status = row[j].status
                            \/ /\ row[j].status \in {"absent", "queued", "failed"}
                               /\ row'[j].status \in {"queued", "running", "dead"}
                               /\ row'[j].status = "queued" => row[j].status = "absent"
      PROVE  Told'
  <2>1. ASSUME NEW j \in Job PROVE RowTold(j)' /\ \A p \in Proc : TaskTold(p, j)'
    <3>1. CASE row'[j].status = row[j].status
      BY <1>1, <1>4, <3>1, ToldStands
    <3>2. CASE /\ row[j].status \in {"absent", "queued", "failed"}
               /\ row'[j].status \in {"queued", "running", "dead"}
               /\ row'[j].status = "queued" => row[j].status = "absent"
      <4>1. ~Unlogged(j) /\ "failed" \notin heard[j] \cup missed[j]
        BY <1>1, <3>2 DEF RowTold
      <4>2. RowTold(j)'
        BY <1>1, <1>4, <4>1 DEF RowTold, Unlogged
      <4>3. \A p \in Proc : task[p][j].pc # "notifying"
        BY <1>1, <3>2 DEF TaskTold
      <4>4. \A p \in Proc : TaskTold(p, j)'
        BY <1>1, <1>4, <4>1, <4>3 DEF TaskTold, Unlogged
      <4>5. QED
        BY <4>2, <4>4
    <3>3. QED
      BY <1>4, <3>1, <3>2
  <2>2. DownIdle'
    BY <1>1, <1>4 DEF DownIdle
  <2>3. QED
    BY <2>1, <2>2 DEF Told
<1>5. ASSUME NEW p \in Proc, NEW r \in Request, Enqueue(p, r)
      PROVE  Told'
  <2>1. \A j \in Job : \/ row'[j] = row[j]
                       \/ row[j].status = "absent" /\ row'[j].status = "queued"
    BY <1>2, <1>5 DEF Enqueue
  <2>2. QED
    BY <1>4, <1>5, <2>1 DEF Enqueue
<1>6. ASSUME NEW p \in Proc, NEW r \in Request, CancelPending(p, r.location)
      PROVE  Told'
  <2>1. \A j \in Job :
           \/ row'[j] = row[j]
           \/ row[j].status \in {"queued", "failed"} /\ row'[j].status = "dead"
    BY <1>2, <1>6 DEF CancelPending, Cancellable, Row
  <2>2. QED
    BY <1>4, <1>6, <2>1 DEF CancelPending
<1>7. ASSUME NEW p \in Proc, NEW j \in Job, Claim(p, j)
      PROVE  Told'
  <2>1. /\ UNCHANGED <<loop, settings, effects, audited, heard, missed>>
        /\ row[j].status \in {"queued", "failed"} /\ SetRunning(j) /\ loop[p] = "polling"
    BY <1>7 DEF Claim, Oldest, Due
  <2>2. row'[j].status = "running" /\ \A i \in Job : i # j => row'[i] = row[i]
    BY <2>1, RunningFrame
  <2>3. /\ task'[p][j].pc = "waiting"
        /\ \A q \in Proc, i \in Job : q # p \/ i # j => task'[q][i] = task[q][i]
    BY <1>2, <1>7 DEF Claim
  <2>4. ~Unlogged(j) /\ "failed" \notin heard[j] \cup missed[j]
    BY <1>1, <2>1 DEF RowTold
  <2>5. RowTold(j)'
    BY <1>1, <2>1, <2>4 DEF RowTold, Unlogged
  <2>6. \A q \in Proc : task[q][j].pc # "notifying"
    BY <1>1, <2>1 DEF TaskTold
  <2>7. ASSUME NEW q \in Proc PROVE TaskTold(q, j)'
    <3>1. CASE q = p
      BY <2>1, <2>3, <2>4, <3>1 DEF TaskTold, Unlogged
    <3>2. CASE q # p
      BY <1>1, <2>1, <2>3, <2>4, <2>6, <3>2 DEF TaskTold, Unlogged
    <3>3. QED
      BY <3>1, <3>2
  <2>8. \A i \in Job : i # j => RowTold(i)' /\ \A q \in Proc : TaskTold(q, i)'
    BY <1>1, <2>1, <2>2, <2>3, ToldStands
  <2>9. DownIdle'
    BY <1>1, <2>1, <2>3 DEF DownIdle
  <2>10. QED
    BY <2>5, <2>7, <2>8, <2>9 DEF Told
<1>8. ASSUME NEW p \in Proc, NEW j \in Job, Step(p, j)
      PROVE  Told'
  BY <1>8, StepKeepsTold
\* Loops stop and tasks end; settings change when there is no task.
<1>9. ASSUME UNCHANGED <<effects, audited, heard, missed>>,
             \A j \in Job : row'[j].status = row[j].status,
             \A q \in Proc, j \in Job :
                \/ task'[q][j] = task[q][j] /\ settings'[q] = settings[q]
                \/ task'[q][j].pc = "none",
             DownIdle'
      PROVE  Told'
  BY <1>1, <1>9, ToldStands DEF Told
<1>10. ASSUME NEW p \in Proc, ClaimBreaks(p)
       PROVE  Told'
  <2>1. /\ UNCHANGED <<task, settings, effects, audited, heard, missed>>
        /\ \A q \in Proc : loop'[q] = "down" => loop[q] = "down"
    BY <1>2, <1>10 DEF ClaimBreaks
  <2>2. DownIdle'
    BY <1>1, <2>1 DEF DownIdle
  <2>3. CASE UNCHANGED row
    BY <1>9, <2>1, <2>2, <2>3
  <2>4. ASSUME NEW j \in Job, Oldest(j), SetRunning(j) PROVE Told'
    <3>1. row[j].status \in {"queued", "failed"}
      BY <2>4 DEF Oldest, Due
    <3>2. row'[j].status = "running" /\ \A i \in Job : i # j => row'[i] = row[i]
      BY <2>4, RunningFrame DEF IInv
    <3>3. ~Unlogged(j) /\ "failed" \notin heard[j] \cup missed[j]
      BY <1>1, <3>1 DEF RowTold
    <3>4. RowTold(j)'
      BY <1>1, <2>1, <3>3 DEF RowTold, Unlogged
    <3>5. \A q \in Proc : TaskTold(q, j)'
      BY <1>1, <2>1, <3>1, <3>3 DEF TaskTold, Unlogged
    <3>6. \A i \in Job : i # j => RowTold(i)' /\ \A q \in Proc : TaskTold(q, i)'
      BY <1>1, <2>1, <3>2, ToldStands
    <3>7. QED
      BY <2>2, <3>4, <3>5, <3>6 DEF Told
  <2>5. QED
    BY <1>10, <2>3, <2>4 DEF ClaimBreaks
<1>11. ASSUME NEW p \in Proc, Boot(p) \/ StopRequested(p) \/ Stopped(p)
       PROVE  Told'
  <2>1. /\ UNCHANGED <<row, task, effects, audited, heard, missed>>
        /\ \A q \in Proc : q # p => loop'[q] = loop[q] /\ settings'[q] = settings[q]
    BY <1>2, <1>11 DEF Boot, StopRequested, Stopped
  <2>2. \/ loop'[p] # "down" /\ UNCHANGED settings
        \/ \A j \in Job : task[p][j].pc = "none"
    BY <1>1, <1>2, <1>11 DEF Boot, StopRequested, Stopped, Idle, DownIdle
  <2>3. DownIdle'
    BY <1>1, <2>1, <2>2 DEF DownIdle
  <2>4. \A q \in Proc, j \in Job : \/ task'[q][j] = task[q][j] /\ settings'[q] = settings[q]
                                   \/ task'[q][j].pc = "none"
    BY <2>1, <2>2
  <2>5. QED
    BY <1>9, <2>1, <2>3, <2>4
<1>12. ASSUME NEW p \in Proc, Die(p)
       PROVE  Told'
  <2>1. UNCHANGED <<row, settings, effects, audited, heard, missed>>
    BY <1>12 DEF Die
  <2>2. \A q \in Proc, j \in Job : IF q = p THEN task'[q][j].pc = "none"
                                           ELSE task'[q][j] = task[q][j]
    BY <1>2, <1>12 DEF Die, NoTask
  <2>3. \A q \in Proc : q # p => loop'[q] = loop[q]
    BY <1>2, <1>12 DEF Die
  <2>4. DownIdle'
    BY <1>1, <2>2, <2>3 DEF DownIdle
  <2>5. QED
    BY <1>9, <2>1, <2>2, <2>4
<1>13. ASSUME NEW j \in Job, RetryDelayElapses(j)
       PROVE  Told'
  <2>1. /\ UNCHANGED <<task, loop, settings, effects, audited, heard, missed>>
        /\ \A i \in Job : row'[i].status = row[i].status
    BY <1>2, <1>13 DEF RetryDelayElapses, Row
  <2>2. QED
    BY <1>4, <2>1
<1>14. QED
  BY <1>3, <1>5, <1>6, <1>7, <1>8, <1>10, <1>11, <1>12, <1>13 DEF Next

\* What GHL is told of a row has grounds, for any number of workers, retries and
\* crashes, whichever POST, audit entry, statement or commit answer is lost.
THEOREM ReportsGrounded == Spec => []ReportsAreGrounded
<1>1. Init => Told
  BY DEF Init, Told, DownIdle, RowTold, TaskTold, Unlogged, NoTask, Holding, Executing
<1>2. Told => ReportsAreGrounded
  BY DEF Told, RowTold, ReportsAreGrounded
<1>3. IInv /\ Told /\ [Next]_vars => Told'
  BY NextKeepsTold
<1>4. QED
  BY <1>1, <1>2, <1>3, Invariance, PTL DEF Spec

\* A row that died of its handler or of the guard has been reported, or a task is
\* on its way to report it.
HeardOf(j) ==
    row[j].status = "dead" /\ row[j].error \in {"handler", "safety"} =>
        \/ "failed" \in heard[j] \/ ("webhook" \in Faults /\ "failed" \in missed[j])
        \/ \E p \in Proc : task[p][j].pc = "notifying"

Heard == \A j \in Job : HeardOf(j)

LEMMA StepKeepsHeard ==
    ASSUME IInv, Heard, Hooks, "ambiguous" \notin Faults,
           NEW p \in Proc, NEW j \in Job, Step(p, j)
    PROVE  Heard'
<1>1. /\ \A i \in Job : i # j => /\ row'[i] = row[i]
                                 /\ heard'[i] = heard[i] /\ missed'[i] = missed[i]
      /\ \A q \in Proc, i \in Job : q # p \/ i # j => task'[q][i] = task[q][i]
  BY StepFrame
<1>2. TypeOK /\ task[p][j] \in Task /\ HeardOf(j)
  BY DEF IInv, TypeOK, Heard
<1>3. ASSUME NEW i \in Job, i # j PROVE HeardOf(i)'
  <2>1. HeardOf(i)
    BY DEF Heard
  <2>2. QED
    BY <1>1, <1>3, <2>1 DEF HeardOf
<1>4. SUFFICES HeardOf(j)'
  BY <1>3 DEF Heard
\* While the task holds the row, the row is not dead.
<1>5. ASSUME task[p][j].pc \in Holding, UNCHANGED row PROVE HeardOf(j)'
  BY <1>5, Alone DEF HeardOf
<1>6. CASE \/ AcquireSlot(p, j) \/ HandlerRefuses(p, j) \/ HandlerDryRun(p, j)
           \/ HandlerRaises(p, j) \/ EversportsActs(p, j) \/ RecordAudit(p, j)
  BY <1>5, <1>6 DEF AcquireSlot, HandlerRefuses, HandlerDryRun, HandlerRaises, EversportsActs,
     HandlerProceeds, RecordAudit, Holding, Executing
<1>7. CASE MarkSucceeded(p, j)
  <2>1. row'[j].status = "succeeded"
    BY <1>2, <1>7, SucceededRow DEF MarkSucceeded, TypeOK
  <2>2. QED
    BY <2>1 DEF HeardOf
<1>8. CASE MarkSucceededRaises(p, j) \/ MarkFailedRaises(p, j)
  BY <1>5, <1>8 DEF MarkSucceededRaises, MarkFailedRaises, Holding, Executing
<1>9. CASE MarkFailedOrDead(p, j)
  <2>1. /\ row'[j].status = "dead" => NewCount(p, j) >= MaxAttempts
        /\ row'[j].error = task[p][j].error
    BY <1>9, FailureShown DEF MarkFailedOrDead
  <2>2. CASE NewCount(p, j) >= MaxAttempts /\ task[p][j].error # "audit"
    <3>1. task'[p][j].pc = "notifying"
      BY <1>2, <1>9, <2>2, GotoFrame DEF MarkFailedOrDead, Executing, Task
    <3>2. QED
      BY <3>1 DEF HeardOf
  <2>3. CASE ~(NewCount(p, j) >= MaxAttempts /\ task[p][j].error # "audit")
    BY <2>1, <2>3 DEF HeardOf
  <2>4. QED
    BY <2>2, <2>3
<1>10. CASE NotifyFailure(p, j)
  <2>1. "failed" \in heard'[j] \/ ("webhook" \in Faults /\ "failed" \in missed'[j])
    BY <1>2, <1>10 DEF NotifyFailure, Fire, TypeOK
  <2>2. QED
    BY <2>1 DEF HeardOf
<1>11. QED
  BY <1>6, <1>7, <1>8, <1>9, <1>10 DEF Step

LEMMA NextKeepsHeard ==
    ASSUME IInv, Heard, Hooks, Faults \cap {"crash", "ambiguous"} = {}, [Next]_vars
    PROVE  Heard'
<1>1. row \in [Job -> Row] /\ task \in [Proc -> [Job -> Task]]
  BY DEF IInv, TypeOK
<1>2. CASE UNCHANGED vars
  BY <1>2 DEF vars, Heard, HeardOf
<1>3. ASSUME NEW p \in Proc, NEW r \in Request, Enqueue(p, r)
      PROVE  Heard'
  <2>1. UNCHANGED <<task, heard, missed>>
    BY <1>3 DEF Enqueue
  <2>2. \A j \in Job : row'[j] = row[j] \/ row'[j].status = "queued"
    BY <1>1, <1>3 DEF Enqueue
  <2>3. QED
    BY <2>1, <2>2 DEF Heard, HeardOf
<1>4. ASSUME NEW p \in Proc, NEW r \in Request, CancelPending(p, r.location)
      PROVE  Heard'
  <2>1. UNCHANGED <<task, heard, missed>>
    BY <1>4 DEF CancelPending
  <2>2. \A j \in Job : row'[j] = row[j] \/ row'[j].error = "cancelled"
    BY <1>1, <1>4 DEF CancelPending, Row
  <2>3. QED
    BY <2>1, <2>2 DEF Heard, HeardOf
<1>5. ASSUME NEW p \in Proc, NEW j \in Job, Claim(p, j)
      PROVE  Heard'
  <2>1. UNCHANGED <<heard, missed>> /\ row[j].status \in {"queued", "failed"} /\ SetRunning(j)
    BY <1>5 DEF Claim, Oldest, Due
  <2>2. row'[j].status = "running" /\ \A i \in Job : i # j => row'[i] = row[i]
    BY <2>1, RunningFrame
  <2>3. \A q \in Proc, i \in Job : i # j => task'[q][i] = task[q][i]
    BY <1>1, <1>5 DEF Claim
  <2>4. ASSUME NEW i \in Job, i # j PROVE HeardOf(i)'
    <3>1. HeardOf(i)
      BY DEF Heard
    <3>2. QED
      BY <2>1, <2>2, <2>3, <2>4, <3>1 DEF HeardOf
  <2>5. HeardOf(j)'
    BY <2>2 DEF HeardOf
  <2>6. QED
    BY <2>4, <2>5 DEF Heard
<1>6. ASSUME NEW p \in Proc, NEW j \in Job, Step(p, j)
      PROVE  Heard'
  BY <1>6, StepKeepsHeard
<1>7. ASSUME NEW p \in Proc,
             ClaimBreaks(p) \/ Boot(p) \/ StopRequested(p) \/ Stopped(p) \/ Die(p)
      PROVE  Heard'
  BY <1>7 DEF ClaimBreaks, Boot, StopRequested, Stopped, Die, Heard, HeardOf
<1>8. ASSUME NEW j \in Job, RetryDelayElapses(j)
      PROVE  Heard'
  <2>1. /\ UNCHANGED <<task, heard, missed>>
        /\ \A i \in Job : row'[i].status = row[i].status /\ row'[i].error = row[i].error
    BY <1>1, <1>8 DEF RetryDelayElapses, Row
  <2>2. QED
    BY <2>1 DEF Heard, HeardOf
<1>9. QED
  BY <1>2, <1>3, <1>4, <1>5, <1>6, <1>7, <1>8 DEF Next

\* GHL hears of every row that died of its handler's errors or of the guard, for
\* any number of workers, attempts and rows, also when the database refuses
\* statements; a POST that does not get through is the one excuse, and none where
\* POSTs do not fail.  Needed are a webhook URL, a process that lives to send it,
\* and a database whose error means that nothing was committed: a commit of "dead"
\* whose answer is lost leaves a dead row that nobody reports.
THEOREM FailureHeard ==
    ASSUME Hooks, Faults \cap {"crash", "ambiguous"} = {}
    PROVE  Spec => []ExhaustedIsReported
<1>1. Init => Heard
  BY DEF Init, Heard, HeardOf
<1>2. Heard => ExhaustedIsReported
  BY DEF Heard, HeardOf, ExhaustedIsReported, Unattended
<1>3. IInv /\ Heard /\ [Next]_vars => Heard'
  BY NextKeepsHeard
<1>4. QED
  BY <1>1, <1>2, <1>3, Invariance, PTL DEF Spec

=============================================================================
