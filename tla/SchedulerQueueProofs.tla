------------------------ MODULE SchedulerQueueProofs ------------------------
(***************************************************************************)
(* Safety of the scheduler's queue for any number of rows, processes,      *)
(* locations and enqueuing sessions, any class schedule and time zones,    *)
(* and under every failure the model knows.                                *)
(***************************************************************************)
EXTENDS SchedulerQueue, FiniteSetTheorems, TLAPS

TaskState == Executing \cup {"none", "waiting"}

\* At most one task works on a row.  It got the row as running; only a recovery
\* by another process changes that.
Held(j) ==
    /\ \A p, q \in Proc : task[p][j] # "none" /\ task[q][j] # "none" => p = q
    /\ \A p \in Proc : task[p][j] # "none" =>
          \/ job[j].status = "running"
          \/ job[j].status = "failed" /\ job[j].error = "recovered"

\* A row that was never claimed, and a row whose task still waits, has not run; a
\* row whose task executes it has run.
Started(j) ==
    /\ runs[j] <= 1
    /\ job[j].status \in {"absent", "pending"} \/ job[j].error = "cancelled" => runs[j] = 0
    /\ \A p \in Proc : /\ task[p][j] = "waiting" => runs[j] = 0
                       /\ task[p][j] \in Executing => runs[j] = 1
    /\ job[j].status \in {"absent", "pending", "running"} => job[j].error = "none"

\* What the row and its task say about the commit of the run: they take one whose
\* answer was lost for one that was not made.
Outcome(j) ==
    /\ j \in unheard => j \in synced
    /\ job[j].status \in {"absent", "pending"} => j \notin synced
    /\ job[j].error = "sync" => j \notin synced \/ j \in unheard
    /\ job[j].status = "done" => j \in synced /\ j \notin unheard
    /\ \A p \in Proc : /\ task[p][j] \in {"waiting", "syncing"} => j \notin synced
                       /\ task[p][j] = "raised" => j \notin synced \/ j \in unheard
                       /\ task[p][j] = "committed" => j \in synced /\ j \notin unheard

RowOK(j) == Held(j) /\ Started(j) /\ Outcome(j)

IInv == TypeOK /\ \A j \in Job : RowOK(j)

-----------------------------------------------------------------------------
(* Types: the clock and the enqueuing sessions.                            *)

Others == <<job, task, runs, synced, unheard>>

\* RowOK reads nothing of the clock, the flag, the sessions and the loops.
LEMMA RowsStand ==
    ASSUME IInv, UNCHANGED Others, TypeOK'
    PROVE  IInv'
BY DEF IInv, RowOK, Held, Started, Outcome, Others

LEMMA SlotsAreMinutes ==
    ASSUME NEW l \in Location, NEW type \in JobType, NEW t \in Nat
    PROVE  SlotsOf(l, type, t) \subseteq Nat
<1>1. Offset[l] \in Nat /\ ClassEnds[l] \subseteq Nat
  <2> DEFINE Minutes == 0..1439
  <2>1. Offset \in [Location -> Minutes]
    BY SchedulerAssumption, SMT
  <2>2. ClassEnds \in [Location -> SUBSET Nat]
    BY SchedulerAssumption, SMT
  <2>3. Minutes \subseteq Nat
    OBVIOUS
  <2> HIDE DEF Minutes
  <2>4. QED
    BY <2>1, <2>2, <2>3
<1>2. LocalMinute(l, t) \in Nat /\ LocalMinute(l, t) < 1440
  <2>1. \A n \in Nat : n % 1440 \in Nat /\ n % 1440 < 1440
    OBVIOUS
  <2>2. t + Offset[l] \in Nat
    BY <1>1
  <2>3. QED
    BY <2>1, <2>2 DEF LocalMinute
<1>3. EventSlots(l, t) \subseteq Nat
  BY <1>1 DEF EventSlots
<1>4. (t \div 60) * 60 \in Nat
  OBVIOUS
<1>5. HourlySlots(l, t) \subseteq Nat
  BY <1>4 DEF HourlySlots
<1>6. OvernightSlots(l, t) \subseteq Nat
  <2> DEFINE m == LocalMinute(l, t)
  <2>1. OvernightSlots(l, t) = {IF m < 180 THEN t + 180 - m ELSE t + 1620 - m}
    BY DEF OvernightSlots
  <2>2. m \in Nat /\ m < 1440
    BY <1>2
  <2> HIDE DEF m
  <2>3. (IF m < 180 THEN t + 180 - m ELSE t + 1620 - m) \in Nat
    BY <2>2
  <2>4. QED
    BY <2>1, <2>3
<1>7. QED
  BY <1>3, <1>5, <1>6 DEF SlotsOf, JobType

LEMMA WantedAreRequests ==
    ASSUME TypeOK, NEW l \in Location, NEW types \in SUBSET JobType
    PROVE  Wanted(l, types) \subseteq Request
<1>1. now \in Nat
  BY SchedulerAssumption DEF TypeOK
<1>2. \A ty \in JobType : RunTypeOf(l, ty) \in RunType
  BY DEF RunTypeOf, RunType
<1>3. \A ty \in types : \A at \in SlotsOf(l, ty, now) :
        [loc |-> l, type |-> ty, at |-> at, run |-> RunTypeOf(l, ty)] \in Request
  BY <1>1, <1>2, SlotsAreMinutes DEF Request
<1>4. QED
  BY <1>3 DEF Wanted

LEMMA NoCallTyped == NoCall \in Call
BY DEF NoCall, Call

LEMMA InitIInv == Init => IInv
<1> SUFFICES ASSUME Init PROVE IInv
  OBVIOUS
<1>1. (CHOOSE l \in Location : TRUE) \in Location
  BY SchedulerAssumption
<1>2. Nothing \in Row
  BY <1>1 DEF Nothing, Row, Request, Status, Error, JobType, RunType
<1>3. TypeOK
  BY <1>2, NoCallTyped DEF Init, TypeOK, Executing
<1>4. \A j \in Job : RowOK(j)
  BY DEF Init, RowOK, Held, Started, Executing, Outcome, Nothing
<1>5. QED
  BY <1>3, <1>4 DEF IInv

Machinery == <<job, task, runs, synced, unheard, flag, loop, now>>

LEMMA CallsOnly ==
    ASSUME IInv, UNCHANGED Machinery, call' \in [Caller -> Call]
    PROVE  IInv'
<1>1. TypeOK'
  BY DEF IInv, TypeOK, Machinery
<1>2. QED
  BY <1>1, RowsStand DEF Machinery, Others

LEMMA TickIInv ==
    ASSUME IInv, Tick
    PROVE  IInv'
<1>1. TypeOK'
  BY DEF IInv, TypeOK, Tick
<1>2. QED
  BY <1>1, RowsStand DEF Tick, Others

LEMMA LoopIInv ==
    ASSUME IInv, NEW p \in Proc, Boot(p) \/ StopRequested(p)
    PROVE  IInv'
<1>1. TypeOK'
  BY DEF IInv, TypeOK, Boot, StopRequested
<1>2. QED
  BY <1>1, RowsStand DEF Boot, StopRequested, Others

LEMMA SessionIInv ==
    ASSUME IInv, NEW c \in Caller,
           \/ CronFires(c) \/ CronVisits(c) \/ EnqueueFails(c)
           \/ \E l \in Location : AdminTriggers(c, l)
           \/ \E r \in call[c].todo : CheckSlot(c, r)
    PROVE  IInv'
<1>1. TypeOK /\ call \in [Caller -> Call] /\ call[c] \in Call
  BY DEF IInv, TypeOK
<1>2. ASSUME CronFires(c) PROVE IInv'
  <2>1. PICK ok \in SUBSET Location \ {{}} :
          call' = [call EXCEPT ![c] = [NoCall EXCEPT !.busy = TRUE, !.locs = ok]]
    BY <1>2 DEF CronFires
  <2>2. [NoCall EXCEPT !.busy = TRUE, !.locs = ok] \in Call
    BY DEF NoCall, Call
  <2>3. call' \in [Caller -> Call]
    BY <1>1, <2>1, <2>2
  <2>4. QED
    BY <1>2, <2>3, CallsOnly DEF CronFires, Machinery
<1>3. ASSUME CronVisits(c) PROVE IInv'
  <2>1. PICK l \in call[c].locs :
          call' = [call EXCEPT ![c].locs = @ \ {l}, ![c].todo = Wanted(l, {c.source}),
                     ![c].busy = call[c].locs # {l} \/ Wanted(l, {c.source}) # {}]
    BY <1>3 DEF CronVisits
  <2>2. l \in Location /\ c.source \in JobType
    BY <1>1, <1>3 DEF Call, CronVisits
  <2>3. Wanted(l, {c.source}) \subseteq Request
    BY <1>1, <2>2, WantedAreRequests
  <2>4. (call[c].locs # {l} \/ Wanted(l, {c.source}) # {}) \in BOOLEAN
    OBVIOUS
  <2>5. call' \in [Caller -> Call]
    BY <1>1, <2>1, <2>3, <2>4 DEF Call
  <2>6. QED
    BY <1>3, <2>5, CallsOnly DEF CronVisits, Machinery
<1>4. ASSUME EnqueueFails(c) PROVE IInv'
  <2>1. (call[c].locs # {}) \in BOOLEAN
    OBVIOUS
  <2>2. call' \in [Caller -> Call]
    BY <1>1, <1>4, <2>1 DEF EnqueueFails, Call
  <2>3. QED
    BY <1>4, <2>2, CallsOnly DEF EnqueueFails, Machinery
<1>5. ASSUME NEW l \in Location, AdminTriggers(c, l) PROVE IInv'
  <2>1. PICK types \in {{ty} : ty \in JobType} \cup {JobType} :
          call' = [call EXCEPT ![c] = [NoCall EXCEPT !.busy = Wanted(l, types) # {},
                                                     !.todo = Wanted(l, types)]]
    BY <1>5 DEF AdminTriggers
  <2>2. types \in SUBSET JobType
    OBVIOUS
  <2>3. Wanted(l, types) \subseteq Request
    BY <1>1, <2>2, WantedAreRequests
  <2>4. [NoCall EXCEPT !.busy = Wanted(l, types) # {}, !.todo = Wanted(l, types)] \in Call
    BY <2>3 DEF NoCall, Call
  <2>5. call' \in [Caller -> Call]
    BY <1>1, <2>1, <2>4
  <2>6. QED
    BY <1>5, <2>5, CallsOnly DEF AdminTriggers, Machinery
<1>6. ASSUME NEW r \in call[c].todo, CheckSlot(c, r) PROVE IInv'
  <2>1. r \in Request
    BY <1>1 DEF Call
  <2>2. (IF JobExists(c, r) THEN call[c].plan ELSE call[c].plan \cup {r}) \in SUBSET Request
    BY <1>1, <2>1 DEF Call
  <2>3. (\/ call[c].todo # {r} \/ call[c].locs # {}
         \/ call[c].plan # {} \/ ~JobExists(c, r)) \in BOOLEAN
    OBVIOUS
  <2>4. call' \in [Caller -> Call]
    BY <1>1, <1>6, <2>2, <2>3 DEF CheckSlot, Call
  <2>5. QED
    BY <1>6, <2>4, CallsOnly DEF CheckSlot, Machinery
<1>7. QED
  BY <1>2, <1>3, <1>4, <1>5, <1>6

-----------------------------------------------------------------------------
(* The rows.                                                               *)

\* An invariant row with its tasks.
LEMMA RowFacts ==
    ASSUME IInv, NEW j \in Job
    PROVE  /\ job[j] \in Row
           /\ runs[j] \in Nat
           /\ \A p \in Proc : task[p] \in [Job -> TaskState] /\ task[p][j] \in TaskState
           /\ Held(j) /\ Started(j) /\ Outcome(j)
BY DEF IInv, TypeOK, RowOK, TaskState

LEMMA Rewritten ==
    ASSUME NEW row \in Row, NEW st \in Status, NEW er \in Error
    PROVE  [row EXCEPT !.status = st, !.error = er] \in Row
BY DEF Row

\* A row that no action touches keeps what holds of it.
LEMMA UntouchedRow ==
    ASSUME NEW j \in Job, RowOK(j),
           job'[j] = job[j], runs'[j] = runs[j],
           j \in synced' <=> j \in synced, j \in unheard' <=> j \in unheard,
           \A p \in Proc : task'[p][j] = task[p][j]
    PROVE  RowOK(j)'
BY DEF RowOK, Held, Started, Outcome

\* One task moves to another of its states.
SetTask(p, j, x) == task' = [task EXCEPT ![p][j] = x]

LEMMA TaskMoves ==
    ASSUME IInv, NEW p \in Proc, NEW j \in Job, NEW x \in TaskState, SetTask(p, j, x)
    PROVE  /\ task' \in [Proc -> [Job -> TaskState]]
           /\ task'[p][j] = x
           /\ \A q \in Proc : \A i \in Job : q # p \/ i # j => task'[q][i] = task[q][i]
<1>1. task \in [Proc -> [Job -> TaskState]]
  BY DEF IInv, TypeOK, TaskState
<1>2. QED
  BY <1>1 DEF SetTask

\* Rows rewritten while every task stays where it is: absent rows may be inserted,
\* pending ones cancelled, or claimed for nobody, and running ones recovered.
LEMMA RowsRewritten ==
    ASSUME IInv, UNCHANGED <<task, runs, synced, unheard>>, TypeOK',
           \A j \in Job :
              \/ job'[j] = job[j]
              \/ /\ job[j].status = "pending"
                 /\ job'[j].status = "running" /\ job'[j].error = job[j].error
              \/ /\ job[j].status = "pending"
                 /\ job'[j].status = "failed" /\ job'[j].error = "cancelled"
              \/ /\ job[j].status = "running"
                 /\ job'[j].status = "failed" /\ job'[j].error = "recovered"
              \/ /\ job[j].status = "absent"
                 /\ job'[j].status = "pending" /\ job'[j].error = "none"
    PROVE  IInv'
<1>1. ASSUME NEW j \in Job PROVE RowOK(j)'
  <2>1. Held(j) /\ Started(j) /\ Outcome(j) /\ RowOK(j)
    BY DEF IInv, RowOK
  <2>2. runs'[j] = runs[j] /\ synced' = synced /\ unheard' = unheard /\ task' = task
    OBVIOUS
  <2>3. CASE job'[j] = job[j]
    BY <2>1, <2>2, <2>3, UntouchedRow
  <2>4. CASE /\ job[j].status \in {"absent", "pending", "running"}
             /\ job'[j].status \in {"pending", "failed", "running"}
             /\ job'[j].status = "running" =>
                   job[j].status = "pending" /\ job'[j].error = job[j].error
             /\ job'[j].status = "pending" => job[j].status = "absent" /\ job'[j].error = "none"
             /\ job'[j].status = "failed" =>
                   \/ job[j].status = "pending" /\ job'[j].error = "cancelled"
                   \/ job[j].status = "running" /\ job'[j].error = "recovered"
    <3>1. Held(j)'
      BY <2>1, <2>2, <2>4 DEF Held
    <3>2. Started(j)'
      BY <2>1, <2>2, <2>4 DEF Started
    <3>3. Outcome(j)'
      BY <2>1, <2>2, <2>4 DEF Outcome
    <3>4. QED
      BY <3>1, <3>2, <3>3 DEF RowOK
  <2>5. QED
    BY <2>3, <2>4
<1>2. QED
  BY <1>1 DEF IInv

LEMMA FailedRow ==
    ASSUME NEW r \in Row, NEW er \in Error
    PROVE  LET f == [r EXCEPT !.status = "failed", !.error = er]
           IN  f \in Row /\ f.status = "failed" /\ f.error = er
BY DEF Row, Status

LEMMA CancelIInv ==
    ASSUME IInv, NEW l \in Location, CancelPending(l)
    PROVE  IInv'
<1> DEFINE f(j) == [job[j] EXCEPT !.status = "failed", !.error = "cancelled"]
<1>1. \A j \in Job : job[j] \in Row
  BY RowFacts
<1>2. "cancelled" \in Error
  BY DEF Error
<1>3. \A j \in Job : f(j) \in Row /\ f(j).status = "failed" /\ f(j).error = "cancelled"
  BY <1>1, <1>2, FailedRow
<1>4. job' = [j \in Job |-> IF Cancellable(j, l) THEN f(j) ELSE job[j]]
  BY DEF CancelPending
<1> HIDE DEF f
<1>5. job' \in [Job -> Row]
  BY <1>1, <1>3, <1>4
<1>6. TypeOK'
  BY <1>5 DEF IInv, TypeOK, CancelPending
<1>7. \A j \in Job :
        \/ job'[j] = job[j]
        \/ /\ job[j].status = "pending"
           /\ job'[j].status = "failed" /\ job'[j].error = "cancelled"
  BY <1>3, <1>4 DEF Cancellable
<1>8. QED
  BY <1>6, <1>7, RowsRewritten DEF CancelPending

\* The two UPDATEs of the worker loop, as the rows show them.
LEMMA RecoveredRows ==
    ASSUME IInv, RecoverRunning
    PROVE  /\ job' \in [Job -> Row]
           /\ \A j \in Job :
                 IF job[j].status = "running"
                 THEN job'[j].status = "failed" /\ job'[j].error = "recovered"
                 ELSE job'[j] = job[j]
<1> DEFINE f(j) == [job[j] EXCEPT !.status = "failed", !.error = "recovered"]
<1>1. \A j \in Job : job[j] \in Row
  BY RowFacts
<1>2. "recovered" \in Error
  BY DEF Error
<1>3. \A j \in Job : f(j) \in Row /\ f(j).status = "failed" /\ f(j).error = "recovered"
  BY <1>1, <1>2, FailedRow
<1>4. job' = [j \in Job |-> IF job[j].status = "running" THEN f(j) ELSE job[j]]
  BY DEF RecoverRunning, Recovered
<1> HIDE DEF f
<1>5. job' \in [Job -> Row]
  BY <1>1, <1>3, <1>4
<1>6. QED
  BY <1>3, <1>4, <1>5

LEMMA RunningRow ==
    ASSUME IInv, NEW j \in Job, SetRunning(j)
    PROVE  /\ job' \in [Job -> Row]
           /\ job'[j].status = "running" /\ job'[j].error = job[j].error
           /\ job'[j].request = job[j].request
           /\ \A i \in Job : i # j => job'[i] = job[i]
<1>1. job \in [Job -> Row] /\ job[j] \in Row
  BY DEF IInv, TypeOK
<1>2. [job[j] EXCEPT !.status = "running"] \in Row
  BY <1>1 DEF Row, Status
<1>3. job' = [job EXCEPT ![j] = [job[j] EXCEPT !.status = "running"]]
  BY DEF SetRunning
<1>4. QED
  BY <1>1, <1>2, <1>3 DEF Row

\* A loop that breaks off has recovered, has claimed for nobody, or neither.
LEMMA BreakCases ==
    ASSUME NEW p \in Proc, LoopBreaks(p)
    PROVE  /\ UNCHANGED <<now, flag, call, task, runs, synced, unheard>>
           /\ \/ UNCHANGED job
              \/ loop[p] = "recovering" /\ RecoverRunning
              \/ \E j \in Job : job[j].status = "pending" /\ SetRunning(j)
BY DEF LoopBreaks, Oldest, Due

LEMMA RecoverIInv ==
    ASSUME IInv, NEW p \in Proc, RecoverStuckJobs(p) \/ LoopBreaks(p)
    PROVE  IInv'
<1>1. UNCHANGED <<now, flag, call, task, runs, synced, unheard>>
  BY BreakCases DEF RecoverStuckJobs
<1>2. loop' \in [Proc -> {"down", "recovering", "polling", "exited", "draining"}]
  BY DEF IInv, TypeOK, RecoverStuckJobs, LoopBreaks
<1>3. /\ job' \in [Job -> Row]
      /\ \A j \in Job :
            \/ job'[j] = job[j]
            \/ /\ job[j].status = "pending"
               /\ job'[j].status = "running" /\ job'[j].error = job[j].error
            \/ /\ job[j].status = "running"
               /\ job'[j].status = "failed" /\ job'[j].error = "recovered"
  <2>1. CASE UNCHANGED job
    BY <2>1 DEF IInv, TypeOK
  <2>2. CASE RecoverRunning
    BY <2>2, RecoveredRows
  <2>3. ASSUME NEW j \in Job, job[j].status = "pending", SetRunning(j)
        PROVE  /\ job' \in [Job -> Row]
               /\ job'[j].status = "running" /\ job'[j].error = job[j].error
               /\ \A i \in Job : i # j => job'[i] = job[i]
    BY <2>3, RunningRow
  <2>4. QED
    BY <2>1, <2>2, <2>3, BreakCases DEF RecoverStuckJobs
<1>4. TypeOK'
  BY <1>1, <1>2, <1>3 DEF IInv, TypeOK
<1>5. QED
  BY <1>1, <1>3, <1>4, RowsRewritten

LEMMA CommitEnqueueIInv ==
    ASSUME IInv, NEW c \in Caller, CommitEnqueue(c)
    PROVE  IInv'
<1> DEFINE new == FirstAbsent(Cardinality(call[c].plan))
<1>1. PICK r \in [new -> call[c].plan] :
        job' = [j \in Job |-> IF j \in new THEN [status |-> "pending", error |-> "none",
                                                 request |-> r[j]]
                              ELSE job[j]]
  BY DEF CommitEnqueue
<1>2. call \in [Caller -> Call] /\ call[c] \in Call /\ TypeOK
  BY DEF IInv, TypeOK
<1>3. call[c].plan \subseteq Request
  BY <1>2 DEF Call
<1>4. \A j \in new : j \in Job /\ job[j].status = "absent"
  BY DEF FirstAbsent, Absent
<1>5. \A j \in Job : job[j] \in Row
  BY RowFacts
<1>6. \A q \in Request : [status |-> "pending", error |-> "none", request |-> q] \in Row
  BY DEF Row, Status, Error
<1>7. job' \in [Job -> Row]
  <2> HIDE DEF new
  <2>1. \A j \in new : r[j] \in Request
    BY <1>3
  <2>2. QED
    BY <1>1, <1>5, <1>6, <2>1
<1>8. \A j \in Job :
        \/ job'[j] = job[j]
        \/ /\ job[j].status = "absent"
           /\ job'[j].status = "pending" /\ job'[j].error = "none"
  <2> HIDE DEF new
  <2>1. QED
    BY <1>1, <1>4
<1> DEFINE rest == call[c].locs # {}
<1>9. call' \in [Caller -> Call]
  <2>1. rest \in BOOLEAN /\ call' = [call EXCEPT ![c].plan = {}, ![c].busy = rest]
    BY DEF CommitEnqueue
  <2> HIDE DEF rest
  <2>2. QED
    BY <1>2, <2>1 DEF Call
<1>10. TypeOK'
  BY <1>2, <1>7, <1>9 DEF TypeOK, CommitEnqueue
<1>11. QED
  BY <1>8, <1>10, RowsRewritten DEF CommitEnqueue

-----------------------------------------------------------------------------
(* The tasks.                                                              *)

\* What one action of row j leaves of the other rows.
LEMMA OtherRows ==
    ASSUME IInv, NEW j \in Job,
           \A i \in Job : i # j =>
              /\ job'[i] = job[i] /\ runs'[i] = runs[i]
              /\ (i \in synced' <=> i \in synced) /\ (i \in unheard' <=> i \in unheard)
              /\ \A p \in Proc : task'[p][i] = task[p][i],
           RowOK(j)', TypeOK'
    PROVE  IInv'
<1>1. \A i \in Job : RowOK(i)'
  <2>1. TAKE i \in Job
  <2>2. CASE i # j
    BY <2>2, UntouchedRow DEF IInv
  <2>3. QED
    BY <2>2
<1>2. QED
  BY <1>1 DEF IInv

LEMMA ClaimIInv ==
    ASSUME IInv, NEW p \in Proc, NEW j \in Job, Claim(p, j)
    PROVE  IInv'
<1>1. job[j].status = "pending" /\ job \in [Job -> Row] /\ job[j] \in Row /\ TypeOK
  BY DEF Claim, Oldest, Due, IInv, TypeOK
<1>2. /\ task' \in [Proc -> [Job -> TaskState]]
      /\ task'[p][j] = "waiting"
      /\ \A q \in Proc : \A i \in Job : q # p \/ i # j => task'[q][i] = task[q][i]
  <2>1. SetTask(p, j, "waiting")
    BY DEF Claim, SetTask
  <2>2. "waiting" \in TaskState
    BY DEF TaskState, Executing
  <2>3. QED
    BY <2>1, <2>2, TaskMoves
<1>3. Held(j) /\ Started(j) /\ Outcome(j)
  BY RowFacts
<1>4. \A q \in Proc : task[q][j] = "none"
  BY <1>1, <1>3 DEF Held
<1>5. /\ job' \in [Job -> Row]
      /\ job'[j].status = "running" /\ job'[j].error = job[j].error
      /\ \A i \in Job : i # j => job'[i] = job[i]
  BY RunningRow DEF Claim
<1>6. runs' = runs /\ synced' = synced /\ unheard' = unheard
  BY DEF Claim
<1>7. \A q \in Proc : q # p => task'[q][j] = "none"
  BY <1>2, <1>4
<1>8. RowOK(j)'
  <2>1. Held(j)'
    BY <1>2, <1>5, <1>7 DEF Held
  <2>2. Started(j)'
    BY <1>1, <1>2, <1>3, <1>5, <1>6, <1>7 DEF Started, Executing
  <2>3. Outcome(j)'
    BY <1>1, <1>2, <1>3, <1>5, <1>6, <1>7 DEF Outcome, Started
  <2>4. QED
    BY <2>1, <2>2, <2>3 DEF RowOK
<1>9. TypeOK'
  BY <1>1, <1>2, <1>5 DEF TypeOK, TaskState, Claim
<1>10. QED
  BY <1>2, <1>5, <1>6, <1>8, <1>9, OtherRows

LEMMA StartIInv ==
    ASSUME IInv, NEW p \in Proc, NEW j \in Job, StartSync(p, j)
    PROVE  IInv'
<1>1. task[p][j] = "waiting" /\ runs \in [Job -> Nat] /\ TypeOK
  BY DEF StartSync, IInv, TypeOK
<1>2. /\ task' \in [Proc -> [Job -> TaskState]]
      /\ task'[p][j] = "syncing"
      /\ \A q \in Proc : \A i \in Job : q # p \/ i # j => task'[q][i] = task[q][i]
  <2>1. SetTask(p, j, "syncing")
    BY DEF StartSync, SetTask
  <2>2. "syncing" \in TaskState
    BY DEF TaskState, Executing
  <2>3. QED
    BY <2>1, <2>2, TaskMoves
<1>3. Held(j) /\ Started(j) /\ Outcome(j)
  BY RowFacts
<1>4. runs[j] = 0
  BY <1>1, <1>3 DEF Started
<1>5. /\ runs' \in [Job -> Nat] /\ runs'[j] = 1
      /\ \A i \in Job : i # j => runs'[i] = runs[i]
  BY <1>1, <1>4 DEF StartSync
<1>6. job' = job /\ synced' = synced /\ unheard' = unheard
  BY DEF StartSync
<1>7. \A q \in Proc : q # p => task'[q][j] = "none"
  BY <1>1, <1>2, <1>3 DEF Held
<1>8. \/ job[j].status = "running" /\ job[j].error = "none"
      \/ job[j].status = "failed" /\ job[j].error = "recovered"
  BY <1>1, <1>3 DEF Held, Started
<1>9. RowOK(j)'
  <2>1. Held(j)'
    BY <1>2, <1>6, <1>7, <1>8 DEF Held
  <2>2. Started(j)'
    BY <1>2, <1>5, <1>6, <1>7, <1>8 DEF Started
  <2>3. Outcome(j)'
    BY <1>1, <1>2, <1>3, <1>6, <1>7 DEF Outcome
  <2>4. QED
    BY <2>1, <2>2, <2>3 DEF RowOK
<1>10. TypeOK'
  BY <1>1, <1>2, <1>5 DEF TypeOK, TaskState, StartSync
<1>11. QED
  BY <1>2, <1>5, <1>6, <1>9, <1>10, OtherRows

\* The run ends: it was committed, it was not, or its commit did not answer.
LEMMA SyncEnds ==
    ASSUME IInv, NEW p \in Proc, NEW j \in Job, SyncCommits(p, j) \/ SyncRaises(p, j)
    PROVE  /\ UNCHANGED <<now, job, call, loop, runs>>
           /\ flag' \in [Location -> {"pending", "complete"}]
           /\ \/ /\ SetTask(p, j, "committed")
                 /\ synced' = synced \cup {j} /\ unheard' = unheard
              \/ SetTask(p, j, "raised") /\ UNCHANGED <<synced, unheard>>
              \/ /\ SetTask(p, j, "raised")
                 /\ synced' = synced \cup {j} /\ unheard' = unheard \cup {j}
<1>1. flag' \in [Location -> {"pending", "complete"}]
  BY DEF SyncCommits, SyncRaises, CommitRun, IInv, TypeOK
<1>2. QED
  BY <1>1 DEF SyncCommits, SyncRaises, CommitRun, SetTask

LEMMA SyncEndsIInv ==
    ASSUME IInv, NEW p \in Proc, NEW j \in Job, SyncCommits(p, j) \/ SyncRaises(p, j)
    PROVE  IInv'
<1>1. task[p][j] = "syncing" /\ TypeOK
  BY DEF SyncCommits, SyncRaises, IInv
<1>2. PICK end \in {"committed", "raised"} :
        /\ SetTask(p, j, end)
        /\ \/ end = "committed" /\ synced' = synced \cup {j} /\ unheard' = unheard
           \/ end = "raised" /\ synced' = synced /\ unheard' = unheard
           \/ end = "raised" /\ synced' = synced \cup {j} /\ unheard' = unheard \cup {j}
  BY SyncEnds
<1>3. /\ job' = job /\ runs' = runs /\ now' = now /\ call' = call /\ loop' = loop
      /\ flag' \in [Location -> {"pending", "complete"}]
  BY SyncEnds
<1>4. /\ task' \in [Proc -> [Job -> TaskState]]
      /\ task'[p][j] = end
      /\ \A q \in Proc : \A i \in Job : q # p \/ i # j => task'[q][i] = task[q][i]
  <2>1. end \in TaskState
    BY DEF TaskState, Executing
  <2>2. QED
    BY <1>2, <2>1, TaskMoves
<1>5. Held(j) /\ Started(j) /\ Outcome(j)
  BY RowFacts
<1>6. \A q \in Proc : q # p => task'[q][j] = "none"
  BY <1>1, <1>4, <1>5 DEF Held
<1>7. \/ job[j].status = "running" /\ job[j].error = "none"
      \/ job[j].status = "failed" /\ job[j].error = "recovered"
  BY <1>1, <1>5 DEF Held, Started
<1>8. /\ j \notin synced /\ j \notin unheard
      /\ j \in unheard' => j \in synced' /\ end = "raised"
      /\ end = "committed" => j \in synced'
      /\ end = "raised" => j \notin synced' \/ j \in unheard'
  BY <1>1, <1>2, <1>5 DEF Outcome
<1>9. RowOK(j)'
  <2>1. Held(j)'
    BY <1>3, <1>6, <1>7 DEF Held
  <2>2. Started(j)'
    BY <1>1, <1>3, <1>4, <1>5, <1>6, <1>7 DEF Started, Executing
  <2>3. Outcome(j)'
    BY <1>3, <1>4, <1>6, <1>7, <1>8 DEF Outcome
  <2>4. QED
    BY <2>1, <2>2, <2>3 DEF RowOK
<1>10. TypeOK'
  BY <1>1, <1>2, <1>3, <1>4 DEF TypeOK, TaskState
<1>11. QED
  BY <1>2, <1>3, <1>4, <1>9, <1>10, OtherRows

LEMMA MarkIInv ==
    ASSUME IInv, NEW p \in Proc, NEW j \in Job, MarkJobComplete(p, j)
    PROVE  IInv'
<1> DEFINE er == IF task[p][j] = "raised" THEN "sync" ELSE "none"
<1>1. /\ task[p][j] \in {"committed", "raised"}
      /\ job \in [Job -> Row] /\ job[j] \in Row /\ TypeOK
  BY DEF MarkJobComplete, IInv, TypeOK
<1>2. /\ task' \in [Proc -> [Job -> TaskState]]
      /\ task'[p][j] = "none"
      /\ \A q \in Proc : \A i \in Job : q # p \/ i # j => task'[q][i] = task[q][i]
  <2>1. SetTask(p, j, "none")
    BY DEF MarkJobComplete, SetTask
  <2>2. "none" \in TaskState
    BY DEF TaskState, Executing
  <2>3. QED
    BY <2>1, <2>2, TaskMoves
<1>3. Held(j) /\ Started(j) /\ Outcome(j)
  BY RowFacts
<1>4. /\ job' \in [Job -> Row]
      /\ job'[j].status = OutcomeOf(p, j) /\ job'[j].error = er
      /\ \A i \in Job : i # j => job'[i] = job[i]
  <2>1. OutcomeOf(p, j) \in Status /\ er \in Error
    BY DEF OutcomeOf, Status, Error
  <2>2. [job[j] EXCEPT !.status = OutcomeOf(p, j), !.error = er] \in Row
    BY <1>1, <2>1, Rewritten
  <2>3. job' = [job EXCEPT ![j] = [job[j] EXCEPT !.status = OutcomeOf(p, j), !.error = er]]
    BY <1>1 DEF MarkJobComplete
  <2> HIDE DEF er
  <2>4. QED
    BY <1>1, <2>1, <2>2, <2>3 DEF Row
<1>5. runs' = runs /\ synced' = synced /\ unheard' = unheard
  BY DEF MarkJobComplete
<1>6. \A q \in Proc : task'[q][j] = "none"
  BY <1>1, <1>2, <1>3 DEF Held
<1>7. /\ \/ task[p][j] = "raised" /\ job'[j].status = "failed" /\ job'[j].error = "sync"
            /\ (j \notin synced \/ j \in unheard)
         \/ task[p][j] = "committed" /\ job'[j].status = "done" /\ job'[j].error = "none"
            /\ j \in synced /\ j \notin unheard
      /\ j \in unheard => j \in synced
  BY <1>1, <1>3, <1>4 DEF OutcomeOf, Outcome
<1>8. RowOK(j)'
  <2>1. Held(j)'
    BY <1>6 DEF Held
  <2>2. Started(j)'
    BY <1>3, <1>5, <1>6, <1>7 DEF Started, Executing
  <2>3. Outcome(j)'
    BY <1>5, <1>6, <1>7 DEF Outcome
  <2>4. QED
    BY <2>1, <2>2, <2>3 DEF RowOK
<1>9. TypeOK'
  BY <1>1, <1>2, <1>4 DEF TypeOK, TaskState, MarkJobComplete
<1>10. QED
  BY <1>2, <1>4, <1>5, <1>8, <1>9, OtherRows

\* Tasks that only disappear leave the rows as they should be.
LEMMA TasksVanish ==
    ASSUME IInv, UNCHANGED <<job, runs, synced, unheard>>, TypeOK',
           \A p \in Proc : \A j \in Job :
              task'[p][j] = task[p][j] \/ task'[p][j] = "none"
    PROVE  IInv'
<1>1. ASSUME NEW j \in Job PROVE RowOK(j)'
  <2>1. Held(j) /\ Started(j) /\ Outcome(j)
    BY RowFacts
  <2>2. Held(j)'
    BY <2>1 DEF Held
  <2>3. Started(j)'
    BY <2>1 DEF Started, Executing
  <2>4. Outcome(j)'
    BY <2>1 DEF Outcome
  <2>5. QED
    BY <2>2, <2>3, <2>4 DEF RowOK
<1>2. QED
  BY <1>1 DEF IInv

LEMMA MarkRaisesIInv ==
    ASSUME IInv, NEW p \in Proc, NEW j \in Job, MarkRaises(p, j)
    PROVE  IInv'
<1>1. /\ task' \in [Proc -> [Job -> TaskState]]
      /\ task'[p][j] = "none"
      /\ \A q \in Proc : \A i \in Job : q # p \/ i # j => task'[q][i] = task[q][i]
  <2>1. SetTask(p, j, "none")
    BY DEF MarkRaises, SetTask
  <2>2. "none" \in TaskState
    BY DEF TaskState, Executing
  <2>3. QED
    BY <2>1, <2>2, TaskMoves
<1>2. TypeOK'
  BY <1>1 DEF IInv, TypeOK, TaskState, MarkRaises
<1>3. QED
  BY <1>1, <1>2, TasksVanish DEF MarkRaises

LEMMA ProcessEndsIInv ==
    ASSUME IInv, NEW p \in Proc, Stopped(p) \/ Die(p)
    PROVE  IInv'
<1>1. TypeOK
  BY DEF IInv
<1>2. DropCalls(p) \in [Caller -> Call]
  BY <1>1, NoCallTyped DEF DropCalls, TypeOK
<1>3. /\ task' \in [Proc -> [Job -> TaskState]]
      /\ \A q \in Proc : \A j \in Job : task'[q][j] = task[q][j] \/ task'[q][j] = "none"
  <2>1. task \in [Proc -> [Job -> TaskState]]
    BY <1>1 DEF TypeOK, TaskState
  <2>2. CASE Stopped(p)
    BY <2>1, <2>2 DEF Stopped
  <2>3. CASE Die(p)
    <3>1. [j \in Job |-> "none"] \in [Job -> TaskState]
      BY DEF TaskState
    <3>2. QED
      BY <2>1, <2>3, <3>1 DEF Die
  <2>4. QED
    BY <2>2, <2>3
<1>4. TypeOK'
  BY <1>1, <1>2, <1>3 DEF TypeOK, TaskState, Stopped, Die
<1>5. QED
  BY <1>3, <1>4, TasksVanish DEF Stopped, Die

-----------------------------------------------------------------------------
(* The invariant and what follows from it.                                 *)

LEMMA StutterIInv ==
    ASSUME IInv, UNCHANGED vars
    PROVE  IInv'
BY DEF IInv, TypeOK, RowOK, Held, Started, Outcome, vars

LEMMA NextIInv ==
    ASSUME IInv, [Next]_vars
    PROVE  IInv'
<1>1. CASE Tick
  BY <1>1, TickIInv
<1>2. ASSUME NEW c \in Caller,
             \/ CronFires(c) \/ CronVisits(c) \/ EnqueueFails(c)
             \/ \E l \in Location : AdminTriggers(c, l)
             \/ \E r \in call[c].todo : CheckSlot(c, r)
      PROVE  IInv'
  BY <1>2, SessionIInv
<1>3. ASSUME NEW c \in Caller, CommitEnqueue(c)
      PROVE  IInv'
  BY <1>3, CommitEnqueueIInv
<1>4. ASSUME NEW l \in Location, CancelPending(l)
      PROVE  IInv'
  BY <1>4, CancelIInv
<1>5. ASSUME NEW p \in Proc, NEW j \in Job, Claim(p, j) \/ Step(p, j)
      PROVE  IInv'
  BY <1>5, ClaimIInv, StartIInv, SyncEndsIInv, MarkIInv, MarkRaisesIInv DEF Step
<1>6. ASSUME NEW p \in Proc,
             \/ RecoverStuckJobs(p) \/ LoopBreaks(p)
             \/ Boot(p) \/ StopRequested(p) \/ Stopped(p) \/ Die(p)
      PROVE  IInv'
  BY <1>6, RecoverIInv, LoopIInv, ProcessEndsIInv
<1>7. CASE UNCHANGED vars
  BY <1>7, StutterIInv
<1>8. QED
  BY <1>1, <1>2, <1>3, <1>4, <1>5, <1>6, <1>7 DEF Next

\* The inductive invariant holds in every reachable state.
THEOREM Invariance == Spec => []IInv
<1>1. IInv /\ [Next]_vars => IInv'
  BY NextIInv
<1>2. QED
  BY <1>1, InitIInv, PTL DEF Spec

\* Every variable keeps its type: in particular a row's slot is never anything
\* but minutes of a schedule that orchestrator.py computed.
THEOREM TypeCorrect == Spec => []TypeOK
<1>1. IInv => TypeOK
  BY DEF IInv
<1>2. QED
  BY <1>1, Invariance, PTL

\* No row starts two sync runs, with any number of server processes and
\* recoveries (worker.py: _claim_next_job, recover_stuck_jobs, execute_job).
THEOREM AtMostOneRun == Spec => []RunsOnce
<1>1. IInv => RunsOnce
  BY RowFacts DEF RunsOnce, Started
<1>2. QED
  BY <1>1, Invariance, PTL

\* A row says done only of a run that committed, and reports a sync error only of
\* one that did not, or whose commit did not answer, which lands in the same
\* "except" (worker.py: execute_job, _mark_job_complete).
THEOREM TrueOutcome == Spec => []OutcomeIsTrue
<1>1. IInv => OutcomeIsTrue
  BY RowFacts DEF OutcomeIsTrue, Outcome
<1>2. QED
  BY <1>1, Invariance, PTL

\* A cancellation that the admin was told of is final (cancel_pending_jobs).
THEOREM Cancelled == Spec => []CancelledNeverRuns
<1>1. IInv => CancelledNeverRuns
  <2> SUFFICES ASSUME IInv, NEW j \in Job, job[j].error = "cancelled"
               PROVE  runs[j] = 0 /\ Unattended(j)
    BY DEF CancelledNeverRuns
  <2>1. Held(j) /\ Started(j)
    BY RowFacts
  <2>2. QED
    BY <2>1 DEF Held, Started, Unattended
<1>2. QED
  BY <1>1, Invariance, PTL

\* A step that writes a settled row that no task works on does not exist.
LEMMA SettledStep ==
    ASSUME IInv, [Next]_vars, NEW j \in Job, Settled(j), Unattended(j)
    PROVE  job'[j] = job[j]
<1>1. job \in [Job -> Row] /\ job[j].status \in {"done", "failed"}
  BY DEF IInv, TypeOK, Settled
<1>2. \A p \in Proc : task[p][j] = "none"
  BY DEF Unattended
<1>3. ASSUME NEW c \in Caller, CommitEnqueue(c)
      PROVE  job'[j] = job[j]
  <2> DEFINE new == FirstAbsent(Cardinality(call[c].plan))
  <2>1. j \notin new
    BY <1>1 DEF FirstAbsent, Absent
  <2>2. PICK r \in [new -> call[c].plan] :
          job' = [i \in Job |-> IF i \in new THEN [status |-> "pending", error |-> "none",
                                                   request |-> r[i]]
                                ELSE job[i]]
    BY <1>3 DEF CommitEnqueue
  <2> HIDE DEF new
  <2>3. QED
    BY <2>1, <2>2
<1>4. ASSUME NEW l \in Location, CancelPending(l)
      PROVE  job'[j] = job[j]
  BY <1>1, <1>4 DEF CancelPending, Cancellable
<1>5. ASSUME NEW p \in Proc, RecoverStuckJobs(p) \/ LoopBreaks(p)
      PROVE  job'[j] = job[j]
  <2>1. CASE RecoverRunning
    BY <1>1, <2>1, RecoveredRows
  <2>2. ASSUME NEW i \in Job, job[i].status = "pending", SetRunning(i)
        PROVE  job'[j] = job[j]
    BY <1>1, <2>2, RunningRow
  <2>3. QED
    BY <1>5, <2>1, <2>2, BreakCases DEF RecoverStuckJobs
<1>6. ASSUME NEW p \in Proc, NEW i \in Job, Claim(p, i)
      PROVE  job'[j] = job[j]
  BY <1>1, <1>6, RunningRow DEF Claim, Oldest, Due
<1>7. ASSUME NEW p \in Proc, NEW i \in Job, Step(p, i)
      PROVE  job'[j] = job[j]
  <2>1. CASE MarkJobComplete(p, i)
    <3>1. i # j
      BY <1>2, <2>1 DEF MarkJobComplete
    <3>2. QED
      BY <1>1, <2>1, <3>1 DEF MarkJobComplete
  <2>2. QED
    BY <1>7, <2>1 DEF Step, StartSync, SyncCommits, SyncRaises, MarkRaises
<1>8. CASE Tick
  BY <1>8 DEF Tick
<1>9. ASSUME NEW c \in Caller,
             \/ CronFires(c) \/ CronVisits(c) \/ EnqueueFails(c)
             \/ \E l \in Location : AdminTriggers(c, l)
             \/ \E r \in call[c].todo : CheckSlot(c, r)
      PROVE  job'[j] = job[j]
  BY <1>9 DEF CronFires, CronVisits, EnqueueFails, AdminTriggers, CheckSlot
<1>10. ASSUME NEW p \in Proc,
              Boot(p) \/ StopRequested(p) \/ Stopped(p) \/ Die(p)
       PROVE  job'[j] = job[j]
  BY <1>10 DEF Boot, StopRequested, Stopped, Die
<1>11. CASE UNCHANGED vars
  BY <1>11 DEF vars
<1>12. QED
  BY <1>3, <1>4, <1>5, <1>6, <1>7, <1>8, <1>9, <1>10, <1>11 DEF Next

\* No recovery, claim or cancellation takes a settled job up again
\* (worker.py and cancel_pending_jobs; the UPDATE of _mark_job_complete is the
\* only one without a condition on the status, and it needs the job's task).
THEOREM SettledIsFinal == Spec => SettledStays
<1>1. IInv /\ [Next]_vars =>
        [\A j \in Job : Settled(j) /\ Unattended(j) => job'[j] = job[j]]_vars
  BY SettledStep
<1>2. QED
  BY <1>1, Invariance, PTL DEF Spec, SettledStays

-----------------------------------------------------------------------------
(* Duplicates.  A second invariant on top of IInv, for one server process: *)
(* a second one may recover a row whose task goes on, and that row becomes *)
(* live once more when its task marks it done.                             *)

OneProcess == \A p, q \in Proc : p = q

\* A task belongs to a loop that has recovered, and its row is still running.
Attached ==
    \A p \in Proc, j \in Job : task[p][j] # "none" =>
        loop[p] \notin {"down", "recovering"} /\ job[j].status = "running"

\* A session adds a slot to its transaction only once.
PlanSound == \A c \in Caller : \A q, r \in call[c].plan : SameSlot(q, r) => q = r

LiveAt(s) == {j \in Job : Live(j) /\ SameSlot(job[j].request, s)}
Planning(s) == {c \in Caller : \E q \in call[c].plan : SameSlot(q, s)}

\* Every live job of a slot stands for a session that is not about to add one.
Counted ==
    \A s \in Request :
        Cardinality(LiveAt(s)) + Cardinality(Planning(s)) <= Cardinality(Caller)

Duplicates == Attached /\ PlanSound /\ Counted

\* A step that inserts no live job and adds no slot to a session.
Fades ==
    /\ \A j \in Job : Live(j)' => Live(j) /\ job'[j].request = job[j].request
    /\ \A c \in Caller : call'[c].plan \subseteq call[c].plan

LEMMA Sizes ==
    ASSUME NEW s
    PROVE  /\ IsFiniteSet(LiveAt(s)) /\ Cardinality(LiveAt(s)) \in Nat
           /\ IsFiniteSet(Planning(s)) /\ Cardinality(Planning(s)) \in Nat
           /\ Cardinality(Caller) \in Nat
           /\ Cardinality(Planning(s)) <= Cardinality(Caller)
<1>1. IsFiniteSet(Job) /\ IsFiniteSet(Caller)
  BY SchedulerAssumption, FS_Interval DEF Job
<1>2. LiveAt(s) \subseteq Job /\ Planning(s) \subseteq Caller
  BY DEF LiveAt, Planning
<1>3. QED
  BY <1>1, <1>2, FS_Subset, FS_CardinalityType

\* Subsets of what is counted are counted as well.
LEMMA FewerCounted ==
    ASSUME NEW s, Cardinality(LiveAt(s)) + Cardinality(Planning(s)) <= Cardinality(Caller),
           LiveAt(s)' \subseteq LiveAt(s), Planning(s)' \subseteq Planning(s)
    PROVE  Cardinality(LiveAt(s)') + Cardinality(Planning(s)') <= Cardinality(Caller)
<1>1. /\ IsFiniteSet(LiveAt(s)) /\ Cardinality(LiveAt(s)) \in Nat
      /\ IsFiniteSet(Planning(s)) /\ Cardinality(Planning(s)) \in Nat
      /\ Cardinality(Caller) \in Nat
  BY Sizes
<1>2. /\ Cardinality(LiveAt(s)') \in Nat /\ Cardinality(Planning(s)') \in Nat
      /\ Cardinality(LiveAt(s)') <= Cardinality(LiveAt(s))
      /\ Cardinality(Planning(s)') <= Cardinality(Planning(s))
  BY <1>1, FS_Subset, FS_CardinalityType
<1>3. QED
  BY <1>1, <1>2

LEMMA FadesCounted ==
    ASSUME Counted, PlanSound, Fades
    PROVE  Counted' /\ PlanSound'
<1>1. ASSUME NEW s \in Request
      PROVE  Cardinality(LiveAt(s)') + Cardinality(Planning(s)') <= Cardinality(Caller)
  <2>1. LiveAt(s)' \subseteq LiveAt(s)
    BY DEF LiveAt, Fades
  <2>2. Planning(s)' \subseteq Planning(s)
    BY DEF Planning, Fades
  <2>3. QED
    BY <2>1, <2>2, FewerCounted DEF Counted
<1>2. PlanSound'
  BY DEF PlanSound, Fades
<1>3. QED
  BY <1>1, <1>2 DEF Counted

LEMMA SlotInBucket ==
    ASSUME NEW q \in Request, NEW r \in Request, SameSlot(q, r)
    PROVE  SameBucket(q, r)
<1>1. Bucket(r.type) \in Nat /\ q.at \in Nat /\ r.at \in Nat
  BY DEF Bucket, Request
<1>2. QED
  BY <1>1 DEF SameSlot, SameBucket

LEMMA SlotsAreClasses ==
    ASSUME NEW q, NEW r, NEW s, SameSlot(q, s), SameSlot(r, s)
    PROVE  SameSlot(q, r)
BY DEF SameSlot

LEMMA NoCallPlansNothing == NoCall.plan = {}
BY DEF NoCall

\* A row that keeps its status and its slot.
LEMMA SameRow ==
    ASSUME NEW j \in Job, job'[j] = job[j]
    PROVE  Live(j)' => Live(j) /\ job'[j].request = job[j].request
BY DEF Live

\* The enqueuing sessions: only CheckSlot adds to a plan.
LEMMA SessionFades ==
    ASSUME IInv, NEW c \in Caller,
           \/ CronFires(c) \/ CronVisits(c) \/ EnqueueFails(c)
           \/ \E l \in Location : AdminTriggers(c, l)
    PROVE  Fades
<1>1. call \in [Caller -> Call] /\ call[c] \in Call
  BY DEF IInv, TypeOK
<1>2. job' = job
  BY DEF CronFires, CronVisits, EnqueueFails, AdminTriggers
<1>3. \A d \in Caller : call'[d].plan \subseteq call[d].plan
  <2>1. CASE CronFires(c)
    <3>1. PICK ok \in SUBSET Location \ {{}} :
            call' = [call EXCEPT ![c] = [NoCall EXCEPT !.busy = TRUE, !.locs = ok]]
      BY <2>1 DEF CronFires
    <3>2. [NoCall EXCEPT !.busy = TRUE, !.locs = ok].plan = {}
      BY DEF NoCall
    <3>3. QED
      BY <1>1, <3>1, <3>2
  <2>2. CASE CronVisits(c)
    <3>1. PICK l \in call[c].locs :
            call' = [call EXCEPT ![c].locs = @ \ {l}, ![c].todo = Wanted(l, {c.source}),
                       ![c].busy = call[c].locs # {l} \/ Wanted(l, {c.source}) # {}]
      BY <2>2 DEF CronVisits
    <3>2. QED
      BY <1>1, <3>1 DEF Call
  <2>3. CASE EnqueueFails(c)
    BY <1>1, <2>3 DEF EnqueueFails, Call
  <2>4. ASSUME NEW l \in Location, AdminTriggers(c, l)
        PROVE  \A d \in Caller : call'[d].plan \subseteq call[d].plan
    <3>1. PICK types \in {{ty} : ty \in JobType} \cup {JobType} :
            call' = [call EXCEPT ![c] = [NoCall EXCEPT !.busy = Wanted(l, types) # {},
                                                       !.todo = Wanted(l, types)]]
      BY <2>4 DEF AdminTriggers
    <3>2. [NoCall EXCEPT !.busy = Wanted(l, types) # {}, !.todo = Wanted(l, types)].plan = {}
      BY DEF NoCall
    <3>3. QED
      BY <1>1, <3>1, <3>2
  <2>5. QED
    BY <2>1, <2>2, <2>3, <2>4
<1>4. QED
  BY <1>2, <1>3, SameRow DEF Fades

\* The rows: one process is enough for a recovery to meet no task.
LEMMA RowsFade ==
    ASSUME IInv,
           \/ \E l \in Location : CancelPending(l)
           \/ \E p \in Proc : RecoverStuckJobs(p) \/ LoopBreaks(p)
           \/ \E p \in Proc, j \in Job : Claim(p, j)
    PROVE  Fades
<1>1. \A j \in Job : job[j] \in Row
  BY RowFacts
<1>2. job \in [Job -> Row]
  BY DEF IInv, TypeOK
<1>3. \A j \in Job : Live(j)' => Live(j) /\ job'[j].request = job[j].request
  <2> SUFFICES ASSUME NEW j \in Job PROVE Live(j)' => Live(j) /\ job'[j].request = job[j].request
    OBVIOUS
  <2>1. ASSUME NEW l \in Location, CancelPending(l)
        PROVE  Live(j)' => Live(j) /\ job'[j].request = job[j].request
    <3> DEFINE f == [job[j] EXCEPT !.status = "failed", !.error = "cancelled"]
    <3>1. job'[j] = IF Cancellable(j, l) THEN f ELSE job[j]
      BY <2>1 DEF CancelPending
    <3>2. f.status = "failed"
      BY <1>1, FailedRow DEF Error
    <3> HIDE DEF f
    <3>3. QED
      BY <3>1, <3>2 DEF Live
  <2>2. ASSUME RecoverRunning
        PROVE  Live(j)' => Live(j) /\ job'[j].request = job[j].request
    BY <2>2, RecoveredRows DEF Live
  <2>3. ASSUME NEW i \in Job, job[i].status = "pending", SetRunning(i)
        PROVE  Live(j)' => Live(j) /\ job'[j].request = job[j].request
    BY <2>3, RunningRow DEF Live
  <2>4. CASE UNCHANGED job
    BY <2>4, SameRow
  <2>5. QED
    BY <2>1, <2>2, <2>3, <2>4, BreakCases DEF RecoverStuckJobs, Claim, Oldest, Due
<1>4. call' = call
  BY BreakCases DEF CancelPending, RecoverStuckJobs, Claim
<1>5. QED
  BY <1>3, <1>4 DEF Fades

LEMMA StepFades ==
    ASSUME IInv, Attached, NEW p \in Proc, NEW j \in Job, Step(p, j)
    PROVE  Fades
<1>1. job \in [Job -> Row] /\ job[j] \in Row
  BY DEF IInv, TypeOK
<1>2. call' = call
  BY DEF Step, StartSync, SyncCommits, SyncRaises, MarkJobComplete, MarkRaises
<1>3. ASSUME MarkJobComplete(p, j), NEW i \in Job
      PROVE  Live(i)' => Live(i) /\ job'[i].request = job[i].request
  <2> DEFINE er == IF task[p][j] = "raised" THEN "sync" ELSE "none"
  <2>1. job[j].status = "running"
    BY <1>3 DEF MarkJobComplete, Attached
  <2>2. job' = [job EXCEPT ![j].status = OutcomeOf(p, j), ![j].error = er]
    BY <1>3 DEF MarkJobComplete
  <2> HIDE DEF er
  <2>3. job'[i] = job[i] \/ (i = j /\ job'[i].request = job[i].request)
    BY <1>1, <2>2 DEF Row
  <2>4. QED
    BY <2>1, <2>3 DEF Live
<1>4. MarkJobComplete(p, j) \/ job' = job
  BY DEF Step, StartSync, SyncCommits, SyncRaises, MarkRaises
<1>5. QED
  BY <1>2, <1>3, <1>4, SameRow DEF Fades

LEMMA LoopFades ==
    ASSUME IInv,
           \/ Tick \/ UNCHANGED vars
           \/ \E p \in Proc : Boot(p) \/ StopRequested(p) \/ Stopped(p) \/ Die(p)
    PROVE  Fades
<1>1. job' = job
  BY DEF Tick, vars, Boot, StopRequested, Stopped, Die
<1>2. call' = call \/ \E p \in Proc : call' = DropCalls(p)
  BY DEF Tick, vars, Boot, StopRequested, Stopped, Die
<1>3. \A c \in Caller : call'[c].plan \subseteq call[c].plan
  BY <1>2, NoCallPlansNothing DEF DropCalls
<1>4. QED
  BY <1>1, <1>3, SameRow DEF Fades

\* A slot joins a plan only while no live job of it is in the table.
LEMMA CheckSlotCounted ==
    ASSUME IInv, Counted, PlanSound, NEW c \in Caller, NEW r \in call[c].todo, CheckSlot(c, r)
    PROVE  Counted' /\ PlanSound'
<1>1. /\ call \in [Caller -> Call] /\ call[c] \in Call /\ r \in Request
      /\ call[c].plan \subseteq Request
  BY DEF IInv, TypeOK, Call
<1>2. \A j \in Job : job[j].request \in Request
  BY RowFacts DEF Row
<1>3. job' = job
  BY DEF CheckSlot
<1>4. /\ call'[c].plan = IF JobExists(c, r) THEN call[c].plan ELSE call[c].plan \cup {r}
      /\ \A d \in Caller : d # c => call'[d] = call[d]
  BY <1>1 DEF CheckSlot, Call
<1>5. CASE JobExists(c, r)
  <2>1. Fades
    BY <1>3, <1>4, <1>5, SameRow DEF Fades
  <2>2. QED
    BY <2>1, FadesCounted
<1>6. CASE ~JobExists(c, r)
  <2>1. \A j \in Job : Live(j) => ~SameSlot(job[j].request, r)
    BY <1>1, <1>2, <1>6, SlotInBucket DEF JobExists
  <2>2. \A q \in call[c].plan : ~SameSlot(q, r)
    BY <1>1, <1>6, SlotInBucket DEF JobExists
  <2>3. PlanSound'
    <3> SUFFICES ASSUME NEW d \in Caller, NEW u \in call'[d].plan, NEW v \in call'[d].plan,
                        SameSlot(u, v)
                 PROVE  u = v
      BY DEF PlanSound
    <3>1. CASE d # c
      BY <1>4, <3>1 DEF PlanSound
    <3>2. CASE d = c
      <4>1. u \in call[c].plan \cup {r} /\ v \in call[c].plan \cup {r}
        BY <1>4, <1>6, <3>2
      <4>2. SameSlot(v, u)
        BY DEF SameSlot
      <4>3. QED
        BY <2>2, <4>1, <4>2 DEF PlanSound
    <3>3. QED
      BY <3>1, <3>2
  <2>4. ASSUME NEW s \in Request
        PROVE  Cardinality(LiveAt(s)') + Cardinality(Planning(s)') <= Cardinality(Caller)
    <3>1. LiveAt(s)' \subseteq LiveAt(s)
      BY <1>3, SameRow DEF LiveAt
    <3>2. CASE ~SameSlot(r, s)
      <4>1. Planning(s)' \subseteq Planning(s)
        BY <1>4, <1>6, <3>2 DEF Planning
      <4>2. QED
        BY <3>1, <4>1, FewerCounted DEF Counted
    <3>3. CASE SameSlot(r, s)
      <4>1. LiveAt(s) = {}
        BY <2>1, <3>3, SlotsAreClasses DEF LiveAt
      <4>2. Cardinality(LiveAt(s)') = 0
        BY <3>1, <4>1, FS_EmptySet
      <4>3. Planning(s)' \subseteq Caller /\ IsFiniteSet(Caller)
        BY SchedulerAssumption DEF Planning
      <4>4. /\ Cardinality(Planning(s)') \in Nat
            /\ Cardinality(Planning(s)') <= Cardinality(Caller)
        BY <4>3, FS_Subset, FS_CardinalityType
      <4>5. QED
        BY <4>2, <4>4
    <3>4. QED
      BY <3>2, <3>3
  <2>5. QED
    BY <2>3, <2>4 DEF Counted
<1>7. QED
  BY <1>5, <1>6

\* A commit inserts at most one live job of a slot, and then the session that
\* inserts it stops planning it.
LEMMA CommitCounted ==
    ASSUME IInv, Counted, PlanSound, NEW c \in Caller, CommitEnqueue(c)
    PROVE  Counted' /\ PlanSound'
<1> DEFINE new == FirstAbsent(Cardinality(call[c].plan))
<1>1. PICK r \in [new -> call[c].plan] :
        /\ \A i, j \in new : i < j => r[i] # r[j] /\ r[i].at <= r[j].at
        /\ job' = [j \in Job |-> IF j \in new THEN [status |-> "pending", error |-> "none",
                                                    request |-> r[j]]
                                 ELSE job[j]]
  BY DEF CommitEnqueue
<1>2. call \in [Caller -> Call] /\ call[c] \in Call
  BY DEF IInv, TypeOK
<1>3. new \subseteq Job /\ Job \subseteq Nat
  BY DEF FirstAbsent, Absent, Job
<1> HIDE DEF new
<1>4. /\ call'[c].plan = {}
      /\ \A d \in Caller : d # c => call'[d] = call[d]
  BY <1>2 DEF CommitEnqueue, Call
<1>5. /\ \A j \in new : job'[j].request = r[j] /\ r[j] \in call[c].plan
      /\ \A j \in Job \ new : job'[j] = job[j]
  BY <1>1, <1>3
<1>6. PlanSound'
  BY <1>4 DEF PlanSound
<1>7. ASSUME NEW s \in Request
      PROVE  Cardinality(LiveAt(s)') + Cardinality(Planning(s)') <= Cardinality(Caller)
  <2>1. Planning(s)' = Planning(s) \ {c}
    BY <1>4 DEF Planning
  <2>2. \A j \in LiveAt(s)' : j \in LiveAt(s) \/ (j \in new /\ SameSlot(r[j], s))
    <3>1. TAKE j \in LiveAt(s)'
    <3>2. j \in Job /\ Live(j)' /\ SameSlot(job'[j].request, s)
      BY DEF LiveAt
    <3>3. CASE j \in new
      BY <1>5, <3>2, <3>3
    <3>4. CASE j \notin new
      BY <1>5, <3>2, <3>4, SameRow DEF LiveAt
    <3>5. QED
      BY <3>3, <3>4
  <2>3. CASE c \notin Planning(s)
    <3>1. \A j \in new : ~SameSlot(r[j], s)
      BY <1>5, <2>3 DEF Planning
    <3>2. LiveAt(s)' \subseteq LiveAt(s)
      BY <2>2, <3>1
    <3>3. QED
      BY <2>1, <3>2, FewerCounted DEF Counted
  <2>4. CASE c \in Planning(s)
    <3>1. PICK q \in call[c].plan : SameSlot(q, s)
      BY <2>4 DEF Planning
    <3>2. \A j \in new : SameSlot(r[j], s) => r[j] = q
      BY <1>5, <3>1, SlotsAreClasses DEF PlanSound
    <3>3. PICK k : \A j \in new : r[j] = q => j = k
      <4>1. CASE \E i \in new : r[i] = q
        <5>1. PICK i \in new : r[i] = q
          BY <4>1
        <5>2. \A j \in new : r[j] = q => j = i
          <6>1. TAKE j \in new
          <6>2. i \in Nat /\ j \in Nat
            BY <1>3
          <6>3. i < j \/ j < i \/ i = j
            BY <6>2
          <6>4. QED
            BY <1>1, <5>1, <6>3
        <5>3. QED
          BY <5>2
      <4>2. QED
        BY <4>1
    <3>4. LiveAt(s)' \subseteq LiveAt(s) \cup {k}
      BY <2>2, <3>2, <3>3
    <3>5. /\ IsFiniteSet(LiveAt(s)) /\ Cardinality(LiveAt(s)) \in Nat
          /\ IsFiniteSet(Planning(s)) /\ Cardinality(Planning(s)) \in Nat
          /\ Cardinality(Caller) \in Nat
      BY Sizes
    <3>6. /\ IsFiniteSet(LiveAt(s) \cup {k})
          /\ Cardinality(LiveAt(s) \cup {k}) <= Cardinality(LiveAt(s)) + 1
      <4>1. /\ IsFiniteSet(LiveAt(s) \cup {k})
            /\ Cardinality(LiveAt(s) \cup {k}) =
                  IF k \in LiveAt(s) THEN Cardinality(LiveAt(s)) ELSE Cardinality(LiveAt(s)) + 1
        BY <3>5, FS_AddElement
      <4>2. QED
        BY <3>5, <4>1
    <3>7. /\ Cardinality(LiveAt(s)') <= Cardinality(LiveAt(s) \cup {k})
          /\ Cardinality(LiveAt(s)') \in Nat /\ Cardinality(LiveAt(s) \cup {k}) \in Nat
      BY <3>4, <3>6, FS_Subset, FS_CardinalityType
    <3>8. Cardinality(Planning(s)') = Cardinality(Planning(s)) - 1
      BY <2>1, <2>4, <3>5, FS_RemoveElement
    <3>9. Cardinality(LiveAt(s)) + Cardinality(Planning(s)) <= Cardinality(Caller)
      BY DEF Counted
    <3>10. QED
      BY <3>5, <3>6, <3>7, <3>8, <3>9
  <2>5. QED
    BY <2>3, <2>4
<1>8. QED
  BY <1>6, <1>7 DEF Counted

-----------------------------------------------------------------------------
(* Tasks stay with their rows.                                             *)

LEMMA InitDuplicates == Init => Duplicates
<1> SUFFICES ASSUME Init PROVE Duplicates
  OBVIOUS
<1>1. Attached
  BY DEF Init, Attached
<1>2. PlanSound
  BY NoCallPlansNothing DEF Init, PlanSound
<1>3. ASSUME NEW s \in Request
      PROVE  Cardinality(LiveAt(s)) + Cardinality(Planning(s)) <= Cardinality(Caller)
  <2>1. \A j \in Job : ~Live(j)
    BY DEF Init, Live, Nothing
  <2>2. LiveAt(s) = {}
    BY <2>1 DEF LiveAt
  <2>3. Cardinality(LiveAt(s)) = 0
    BY <2>2, FS_EmptySet
  <2>4. QED
    BY <2>3, Sizes
<1>4. QED
  BY <1>1, <1>2, <1>3 DEF Duplicates, Counted

\* Steps that leave the tasks and the loops alone.
LEMMA SessionsAttached ==
    ASSUME IInv, Attached, UNCHANGED <<task, loop>>,
           \A j \in Job : job[j].status = "running" => job'[j].status = "running"
    PROVE  Attached'
BY DEF Attached

LEMMA NextAttached ==
    ASSUME OneProcess, IInv, IInv', Attached, [Next]_vars
    PROVE  Attached'
<1>1. /\ job \in [Job -> Row] /\ task \in [Proc -> [Job -> TaskState]]
      /\ loop \in [Proc -> {"down", "recovering", "polling", "exited", "draining"}]
  BY DEF IInv, TypeOK, TaskState
<1>2. CASE UNCHANGED <<job, task, loop>>
  BY <1>2 DEF Attached
<1>3. ASSUME NEW c \in Caller, CommitEnqueue(c)
      PROVE  Attached'
  <2> DEFINE new == FirstAbsent(Cardinality(call[c].plan))
  <2>1. PICK r \in [new -> call[c].plan] :
          job' = [j \in Job |-> IF j \in new THEN [status |-> "pending", error |-> "none",
                                                   request |-> r[j]]
                                ELSE job[j]]
    BY <1>3 DEF CommitEnqueue
  <2>2. \A j \in new : job[j].status = "absent"
    BY DEF FirstAbsent, Absent
  <2> HIDE DEF new
  <2>3. \A j \in Job : job[j].status = "running" => job'[j].status = "running"
    BY <2>1, <2>2
  <2>4. QED
    BY <1>3, <2>3, SessionsAttached DEF CommitEnqueue
<1>4. ASSUME NEW l \in Location, CancelPending(l)
      PROVE  Attached'
  <2>1. \A j \in Job : job[j].status = "running" => job'[j].status = "running"
    BY <1>4 DEF CancelPending, Cancellable
  <2>2. QED
    BY <1>4, <2>1, SessionsAttached DEF CancelPending
<1>5. ASSUME NEW p \in Proc, RecoverStuckJobs(p)
      PROVE  Attached'
  <2>1. \A j \in Job : task[p][j] = "none"
    BY <1>5 DEF RecoverStuckJobs, Attached
  <2>2. \A q \in Proc : q = p
    BY DEF OneProcess
  <2>3. task' = task
    BY <1>5 DEF RecoverStuckJobs
  <2>4. QED
    BY <2>1, <2>2, <2>3 DEF Attached
<1>6. ASSUME NEW p \in Proc, NEW j \in Job, Claim(p, j)
      PROVE  Attached'
  <2>1. loop[p] = "polling" /\ loop' = loop /\ task' = [task EXCEPT ![p][j] = "waiting"]
    BY <1>6 DEF Claim
  <2>3. job'[j].status = "running" /\ \A i \in Job : i # j => job'[i] = job[i]
    BY <1>6, RunningRow DEF Claim
  <2>4. \A q \in Proc, i \in Job : i # j => task'[q][i] = task[q][i]
    BY <1>1, <2>1
  <2>5. \A q \in Proc : q = p
    BY DEF OneProcess
  <2>6. QED
    BY <2>1, <2>3, <2>4, <2>5 DEF Attached
<1>7. ASSUME NEW p \in Proc, NEW j \in Job, Step(p, j)
      PROVE  Attached'
  <2>1. loop' = loop
    BY <1>7 DEF Step, StartSync, SyncCommits, SyncRaises, MarkJobComplete, MarkRaises
  <2>2. \A q \in Proc, i \in Job : task'[q][i] # "none" => task[q][i] # "none"
    BY <1>1, <1>7 DEF Step, StartSync, SyncCommits, SyncRaises, MarkJobComplete, MarkRaises
  <2>3. CASE MarkJobComplete(p, j)
    <3>1. task'[p][j] = "none"
      BY <1>1, <2>3 DEF MarkJobComplete
    <3>2. \A i \in Job : i # j => job'[i] = job[i]
      BY <1>1, <2>3 DEF MarkJobComplete
    <3>3. \A q \in Proc : q = p
      BY DEF OneProcess
    <3>4. QED
      BY <2>1, <2>2, <3>1, <3>2, <3>3 DEF Attached
  <2>4. CASE ~MarkJobComplete(p, j)
    <3>1. job' = job
      BY <1>7, <2>4 DEF Step, StartSync, SyncCommits, SyncRaises, MarkRaises
    <3>2. QED
      BY <2>1, <2>2, <3>1 DEF Attached
  <2>5. QED
    BY <2>3, <2>4
<1>8. ASSUME NEW p \in Proc, LoopBreaks(p) \/ Boot(p) \/ StopRequested(p)
      PROVE  Attached'
  <2>1. task' = task
    BY <1>8, BreakCases DEF Boot, StopRequested
  <2>2. /\ \A q \in Proc : q # p => loop'[q] = loop[q]
        /\ \/ loop'[p] \in {"exited", "draining"}
           \/ loop[p] = "down"
    BY <1>1, <1>8 DEF LoopBreaks, Boot, StopRequested
  <2>3. CASE \A j \in Job : job[j].status = "running" => job'[j].status = "running"
    BY <2>1, <2>2, <2>3 DEF Attached
  <2>4. CASE loop[p] = "recovering" /\ RecoverRunning
    <3>1. \A j \in Job : task[p][j] = "none"
      BY <2>4 DEF Attached
    <3>2. \A q \in Proc : q = p
      BY DEF OneProcess
    <3>3. QED
      BY <2>1, <3>1, <3>2 DEF Attached
  <2>5. ASSUME NEW j \in Job, job[j].status = "pending", SetRunning(j)
        PROVE  \A i \in Job : job[i].status = "running" => job'[i].status = "running"
    BY <2>5, RunningRow
  <2>6. QED
    BY <1>8, <2>3, <2>4, <2>5, BreakCases DEF Boot, StopRequested
<1>9. ASSUME NEW p \in Proc, Stopped(p) \/ Die(p)
      PROVE  Attached'
  <2>1. /\ job' = job
        /\ \A j \in Job : task'[p][j] = "none"
        /\ \A q \in Proc : q # p => loop'[q] = loop[q] /\ task'[q] = task[q]
    BY <1>1, <1>9 DEF Stopped, Die
  <2>2. QED
    BY <2>1 DEF Attached
<1>10. ASSUME NEW c \in Caller,
             \/ CronFires(c) \/ CronVisits(c) \/ EnqueueFails(c)
             \/ \E l \in Location : AdminTriggers(c, l)
             \/ \E r \in call[c].todo : CheckSlot(c, r)
       PROVE  UNCHANGED <<job, task, loop>>
  BY <1>10 DEF CronFires, CronVisits, EnqueueFails, AdminTriggers, CheckSlot
<1>11. Tick \/ UNCHANGED vars => UNCHANGED <<job, task, loop>>
  BY DEF Tick, vars
<1>12. QED
  BY <1>2, <1>3, <1>4, <1>5, <1>6, <1>7, <1>8, <1>9, <1>10, <1>11 DEF Next

LEMMA NextDuplicates ==
    ASSUME OneProcess, IInv, IInv', Duplicates, [Next]_vars
    PROVE  Duplicates'
<1>1. Attached /\ PlanSound /\ Counted
  BY DEF Duplicates
<1>2. Attached'
  BY <1>1, NextAttached
<1>3. ASSUME NEW c \in Caller,
             \/ CronFires(c) \/ CronVisits(c) \/ EnqueueFails(c)
             \/ \E l \in Location : AdminTriggers(c, l)
      PROVE  Counted' /\ PlanSound'
  BY <1>1, <1>3, SessionFades, FadesCounted
<1>4. ASSUME NEW c \in Caller, CommitEnqueue(c) \/ \E r \in call[c].todo : CheckSlot(c, r)
      PROVE  Counted' /\ PlanSound'
  BY <1>1, <1>4, CommitCounted, CheckSlotCounted
<1>5. ASSUME \/ \E l \in Location : CancelPending(l)
             \/ \E p \in Proc : RecoverStuckJobs(p) \/ LoopBreaks(p)
             \/ \E p \in Proc, j \in Job : Claim(p, j)
      PROVE  Counted' /\ PlanSound'
  BY <1>1, <1>5, RowsFade, FadesCounted
<1>6. ASSUME NEW p \in Proc, NEW j \in Job, Step(p, j)
      PROVE  Counted' /\ PlanSound'
  BY <1>1, <1>6, StepFades, FadesCounted
<1>7. ASSUME \/ Tick \/ UNCHANGED vars
             \/ \E p \in Proc : Boot(p) \/ StopRequested(p) \/ Stopped(p) \/ Die(p)
      PROVE  Counted' /\ PlanSound'
  BY <1>1, <1>7, LoopFades, FadesCounted
<1>8. Counted' /\ PlanSound'
  BY <1>3, <1>4, <1>5, <1>6, <1>7 DEF Next
<1>9. QED
  BY <1>2, <1>8 DEF Duplicates

\* In a single server process, a slot never has more live jobs than there are
\* sessions that may enqueue it, whatever the cron jobs and the trigger endpoint
\* interleave between the check of _job_exists and the commit (orchestrator.py).
THEOREM FewDuplicates ==
    ASSUME OneProcess
    PROVE  Spec => []DuplicatesBounded
<1>1. IInv /\ Duplicates => DuplicatesBounded
  <2> SUFFICES ASSUME IInv, Duplicates, NEW i \in Job
               PROVE  Cardinality(LiveAt(job[i].request)) <= Cardinality(Caller)
    BY DEF DuplicatesBounded, LiveAt
  <2>1. job[i].request \in Request
    BY RowFacts DEF Row
  <2>2. Cardinality(LiveAt(job[i].request)) + Cardinality(Planning(job[i].request))
           <= Cardinality(Caller)
    BY <2>1 DEF Duplicates, Counted
  <2>3. QED
    BY <2>2, Sizes
<1>2. IInv /\ IInv' /\ Duplicates /\ [Next]_vars => Duplicates'
  BY NextDuplicates
<1>3. QED
  BY <1>1, <1>2, Invariance, InitDuplicates, PTL DEF Spec

-----------------------------------------------------------------------------
(* The contract of a job.                                                  *)

\* What the contract sees of a row depends on the row and its run alone.
LEMMA LookStands ==
    ASSUME NEW j \in Job,
           job'[j] = job[j], runs'[j] = runs[j],
           j \in synced' <=> j \in synced, j \in unheard' <=> j \in unheard
    PROVE  StageOf(j)' = StageOf(j) /\ VerdictOf(j)' = VerdictOf(j)
<1>1. RowStage(j)' = RowStage(j)
  BY DEF RowStage
<1>2. StageOf(j)' = StageOf(j)
  BY <1>1 DEF StageOf
<1>3. VerdictOf(j)' = VerdictOf(j)
  BY DEF VerdictOf
<1>4. QED
  BY <1>2, <1>3

Unseen == \A j \in Job : StageOf(j)' = StageOf(j) /\ VerdictOf(j)' = VerdictOf(j)

LEMMA UnseenStutters ==
    ASSUME Unseen
    PROVE  UNCHANGED Contract!ContractVars
<1>1. [j \in Job |-> StageOf(j)'] = [j \in Job |-> StageOf(j)]
  BY DEF Unseen
<1>2. [j \in Job |-> VerdictOf(j)'] = [j \in Job |-> VerdictOf(j)]
  BY DEF Unseen
<1>3. QED
  BY <1>1, <1>2 DEF Contract!ContractVars

\* A set of jobs moves on, and nothing else is seen to change.
LEMMA Moves ==
    ASSUME NEW S \in SUBSET Job, NEW from, NEW to,
           \A j \in S : StageOf(j) = from /\ StageOf(j)' = to,
           \A j \in Job \ S : StageOf(j)' = StageOf(j),
           \A j \in Job : VerdictOf(j)' = VerdictOf(j)
    PROVE  Contract!Move(S, from, to)
<1>1. [j \in Job |-> StageOf(j)'] =
         [j \in Job |-> IF j \in S THEN to ELSE [i \in Job |-> StageOf(i)][j]]
  OBVIOUS
<1>2. [j \in Job |-> VerdictOf(j)'] = [j \in Job |-> VerdictOf(j)]
  OBVIOUS
<1>3. S \subseteq {j \in Job : [i \in Job |-> StageOf(i)][j] = from}
  OBVIOUS
<1>4. QED
  BY <1>1, <1>2, <1>3 DEF Contract!Move

\* One step of one row: the others look as before.
OneRow(j) == \A i \in Job \ {j} : StageOf(i)' = StageOf(i) /\ VerdictOf(i)' = VerdictOf(i)

LEMMA OneMoves ==
    ASSUME NEW j \in Job, OneRow(j), NEW from, NEW to,
           StageOf(j) = from, StageOf(j)' = to, VerdictOf(j)' = VerdictOf(j)
    PROVE  Contract!Move({j}, from, to)
BY Moves DEF OneRow

LEMMA InitContract == Init => Contract!ContractInit
<1> SUFFICES ASSUME Init PROVE Contract!ContractInit
  OBVIOUS
<1>1. \A j \in Job : StageOf(j) = "none" /\ VerdictOf(j) = "open"
  BY DEF Init, StageOf, RowStage, VerdictOf, Nothing
<1>2. QED
  BY <1>1 DEF Contract!ContractInit

\* Only rows that change are seen to change.
LEMMA CommitContract ==
    ASSUME IInv, NEW c \in Caller, CommitEnqueue(c)
    PROVE  \E S \in SUBSET Job : Contract!AskMany(S)
<1> DEFINE new == FirstAbsent(Cardinality(call[c].plan))
<1>1. PICK r \in [new -> call[c].plan] :
        job' = [j \in Job |-> IF j \in new THEN [status |-> "pending", error |-> "none",
                                                 request |-> r[j]]
                              ELSE job[j]]
  BY DEF CommitEnqueue
<1>2. new \subseteq Job /\ \A j \in new : job[j].status = "absent"
  BY DEF FirstAbsent, Absent
<1>3. runs' = runs /\ synced' = synced /\ unheard' = unheard
  BY DEF CommitEnqueue
<1> HIDE DEF new
<1>4. ASSUME NEW j \in new
      PROVE  /\ StageOf(j) = "none" /\ StageOf(j)' = "asked"
             /\ VerdictOf(j)' = VerdictOf(j)
  <2>1. j \in Job /\ Started(j) /\ Outcome(j)
    BY <1>2, RowFacts
  <2>2. runs[j] = 0 /\ j \notin synced /\ job[j].error = "none"
    BY <1>2, <2>1 DEF Started, Outcome
  <2>3. job'[j].status = "pending" /\ job'[j].error = "none"
    BY <1>1, <2>1
  <2>4. QED
    BY <1>2, <1>3, <2>2, <2>3 DEF StageOf, RowStage, VerdictOf
<1>5. ASSUME NEW j \in Job \ new
      PROVE  StageOf(j)' = StageOf(j) /\ VerdictOf(j)' = VerdictOf(j)
  BY <1>1, <1>3, LookStands
<1>6. Contract!Move(new, "none", "asked")
  BY <1>2, <1>4, <1>5, Moves
<1>7. QED
  BY <1>2, <1>6 DEF Contract!AskMany

LEMMA CancelContract ==
    ASSUME IInv, NEW l \in Location, CancelPending(l)
    PROVE  \E S \in SUBSET Job : Contract!CancelMany(S)
<1> DEFINE S == {j \in Job : Cancellable(j, l)}
<1>1. runs' = runs /\ synced' = synced /\ unheard' = unheard
  BY DEF CancelPending
<1>2. ASSUME NEW j \in S
      PROVE  /\ StageOf(j) = "asked" /\ StageOf(j)' = "cancelled"
             /\ VerdictOf(j)' = VerdictOf(j)
  <2>1. job[j] \in Row /\ Started(j) /\ Outcome(j) /\ job[j].status = "pending"
    BY RowFacts DEF Cancellable
  <2>2. runs[j] = 0 /\ j \notin synced /\ job[j].error = "none"
    BY <2>1 DEF Started, Outcome
  <2>3. job'[j] = [job[j] EXCEPT !.status = "failed", !.error = "cancelled"]
    BY DEF CancelPending
  <2>4. job'[j].status = "failed" /\ job'[j].error = "cancelled"
    BY <2>1, <2>3 DEF Row
  <2>5. QED
    BY <1>1, <2>1, <2>2, <2>4 DEF StageOf, RowStage, VerdictOf
<1>3. ASSUME NEW j \in Job \ S
      PROVE  StageOf(j)' = StageOf(j) /\ VerdictOf(j)' = VerdictOf(j)
  BY <1>1, LookStands DEF CancelPending
<1> HIDE DEF S
<1>4. S \in SUBSET Job
  BY DEF S
<1>5. Contract!Move(S, "asked", "cancelled")
  BY <1>2, <1>3, <1>4, Moves
<1>6. QED
  BY <1>4, <1>5 DEF Contract!CancelMany

LEMMA RecoverContract ==
    ASSUME IInv, RecoverRunning, UNCHANGED <<runs, synced, unheard>>
    PROVE  \E S \in SUBSET Job : Contract!GiveUpMany(S)
<1> DEFINE S == {j \in Job : job[j].status = "running"}
<1>1. runs' = runs /\ synced' = synced /\ unheard' = unheard
  OBVIOUS
<1>2. ASSUME NEW j \in S
      PROVE  /\ StageOf(j) \in {"taken", "begun", "accomplished", "unheard"}
             /\ StageOf(j)' = StageOf(j)
             /\ VerdictOf(j) = "open" /\ VerdictOf(j)' = "recovered"
  <2>1. job[j] \in Row /\ Started(j) /\ job[j].status = "running" /\ runs[j] \in Nat
    BY RowFacts
  <2>2. job[j].error = "none" /\ runs[j] \in {0, 1}
    BY <2>1 DEF Started
  <2>3. job'[j].status = "failed" /\ job'[j].error = "recovered"
    BY <2>1, RecoveredRows
  <2>4. VerdictOf(j) = "open" /\ VerdictOf(j)' = "recovered"
    BY <2>1, <2>2, <2>3 DEF VerdictOf
  <2>5. RowStage(j) = "taken" /\ RowStage(j)' = "taken"
    BY <2>1, <2>2, <2>3 DEF RowStage
  <2>6. QED
    BY <1>1, <2>2, <2>4, <2>5 DEF StageOf
<1>3. ASSUME NEW j \in Job \ S
      PROVE  StageOf(j)' = StageOf(j) /\ VerdictOf(j)' = VerdictOf(j)
  BY <1>1, RecoveredRows, LookStands
<1> HIDE DEF S
<1>4. S \in SUBSET Job
  BY DEF S
<1>5. S \subseteq {j \in Job : /\ [i \in Job |-> StageOf(i)][j]
                                      \in {"taken", "begun", "accomplished", "unheard"}
                               /\ [i \in Job |-> VerdictOf(i)][j] = "open"}
  BY <1>2, <1>4
<1>6. [j \in Job |-> VerdictOf(j)'] =
        [j \in Job |-> IF j \in S THEN "recovered" ELSE [i \in Job |-> VerdictOf(i)][j]]
  BY <1>2, <1>3
<1>7. [j \in Job |-> StageOf(j)'] = [j \in Job |-> StageOf(j)]
  BY <1>2, <1>3
<1>8. QED
  BY <1>4, <1>5, <1>6, <1>7 DEF Contract!GiveUpMany

LEMMA ClaimContract ==
    ASSUME IInv, NEW j \in Job, job[j].status = "pending", SetRunning(j),
           UNCHANGED <<runs, synced, unheard>>
    PROVE  Contract!Take(j)
<1>1. job \in [Job -> Row] /\ job[j] \in Row /\ Started(j) /\ Outcome(j) /\ job[j].status = "pending"
  BY RowFacts DEF IInv, TypeOK
<1>2. runs[j] = 0 /\ j \notin synced /\ job[j].error = "none"
  BY <1>1 DEF Started, Outcome
<1>3. /\ job'[j].status = "running" /\ job'[j].error = "none"
      /\ \A i \in Job \ {j} : job'[i] = job[i]
      /\ runs' = runs /\ synced' = synced /\ unheard' = unheard
  BY <1>1, <1>2, RunningRow
<1>4. StageOf(j) = "asked" /\ StageOf(j)' = "taken" /\ VerdictOf(j)' = VerdictOf(j)
  BY <1>1, <1>2, <1>3 DEF StageOf, RowStage, VerdictOf
<1>5. OneRow(j)
  BY <1>3, LookStands DEF OneRow
<1>6. QED
  BY <1>4, <1>5, OneMoves DEF Contract!Take

LEMMA StartContract ==
    ASSUME IInv, NEW p \in Proc, NEW j \in Job, StartSync(p, j)
    PROVE  Contract!Begin(j)
<1>1. Held(j) /\ Started(j) /\ Outcome(j) /\ task[p][j] = "waiting" /\ runs \in [Job -> Nat]
  BY RowFacts DEF StartSync, IInv, TypeOK
<1>2. /\ runs[j] = 0 /\ j \notin synced
      /\ \/ job[j].status = "running" /\ job[j].error = "none"
         \/ job[j].status = "failed" /\ job[j].error = "recovered"
  BY <1>1 DEF Held, Started, Outcome
<1>3. /\ job' = job /\ synced' = synced /\ unheard' = unheard
      /\ runs'[j] = 1 /\ \A i \in Job \ {j} : runs'[i] = runs[i]
  BY <1>1, <1>2 DEF StartSync
<1>4. StageOf(j) = "taken" /\ StageOf(j)' = "begun" /\ VerdictOf(j)' = VerdictOf(j)
  BY <1>2, <1>3 DEF StageOf, RowStage, VerdictOf
<1>5. OneRow(j)
  BY <1>3, LookStands DEF OneRow
<1>6. QED
  BY <1>4, <1>5, OneMoves DEF Contract!Begin

LEMMA CommitsContract ==
    ASSUME IInv, NEW p \in Proc, NEW j \in Job, SyncCommits(p, j) \/ SyncRaises(p, j),
           synced' = synced \cup {j}, unheard' \in {unheard, unheard \cup {j}}
    PROVE  Contract!Accomplish(j)
<1>1. Held(j) /\ Started(j) /\ Outcome(j) /\ task[p][j] = "syncing"
  BY RowFacts DEF SyncCommits, SyncRaises
<1>2. /\ runs[j] = 1 /\ j \notin synced /\ j \notin unheard
      /\ \/ job[j].status = "running" /\ job[j].error = "none"
         \/ job[j].status = "failed" /\ job[j].error = "recovered"
  BY <1>1 DEF Held, Started, Outcome, Executing
<1>3. job' = job /\ runs' = runs
  BY SyncEnds
<1>4. PICK to \in {"accomplished", "unheard"} : StageOf(j)' = to
  <2>1. runs'[j] = 1 /\ j \in synced'
    BY <1>2, <1>3
  <2>2. QED
    BY <2>1 DEF StageOf
<1>5. StageOf(j) = "begun"
  BY <1>2 DEF StageOf
<1>6. VerdictOf(j)' = VerdictOf(j) /\ VerdictOf(j) # "raised"
  BY <1>2, <1>3 DEF VerdictOf
<1>7. OneRow(j)
  BY <1>3, LookStands DEF OneRow
<1>8. Contract!Move({j}, "begun", to)
  BY <1>4, <1>5, <1>6, <1>7, OneMoves
<1>9. [i \in Job |-> VerdictOf(i)][j] # "raised"
  BY <1>6
<1>10. Contract!Move({j}, "begun", "accomplished") \/ Contract!Move({j}, "begun", "unheard")
  BY <1>4, <1>8
<1>11. QED
  BY <1>9, <1>10 DEF Contract!Accomplish

LEMMA MarkContract ==
    ASSUME IInv, NEW p \in Proc, NEW j \in Job, MarkJobComplete(p, j)
    PROVE  Contract!Judge(j)
<1>1. /\ Held(j) /\ Started(j) /\ Outcome(j) /\ task[p][j] \in {"committed", "raised"}
      /\ job \in [Job -> Row] /\ job[j] \in Row
  BY RowFacts DEF MarkJobComplete, IInv, TypeOK
<1>2. /\ runs[j] = 1
      /\ \/ job[j].status = "running" /\ job[j].error = "none"
         \/ job[j].status = "failed" /\ job[j].error = "recovered"
  BY <1>1 DEF Held, Started, Executing
<1>3. /\ \/ /\ task[p][j] = "raised" /\ (j \notin synced \/ j \in unheard)
            /\ job'[j].status = "failed" /\ job'[j].error = "sync"
         \/ /\ task[p][j] = "committed" /\ j \in synced /\ j \notin unheard
            /\ job'[j].status = "done" /\ job'[j].error = "none"
      /\ \A i \in Job \ {j} : job'[i] = job[i]
      /\ runs' = runs /\ synced' = synced /\ unheard' = unheard
  BY <1>1 DEF Outcome, OutcomeOf, MarkJobComplete, Row
<1>4. /\ VerdictOf(j) \in {"open", "recovered"} /\ StageOf(j)' = StageOf(j)
      /\ \/ StageOf(j) = "accomplished" /\ VerdictOf(j)' = "done"
         \/ StageOf(j) \in {"begun", "unheard"} /\ VerdictOf(j)' = "raised"
  <2>1. VerdictOf(j) \in {"open", "recovered"}
    BY <1>2 DEF VerdictOf
  <2>2. StageOf(j)' = StageOf(j)
    BY <1>2, <1>3 DEF StageOf
  <2>3. \/ j \in synced /\ j \notin unheard /\ VerdictOf(j)' = "done"
        \/ (j \notin synced \/ j \in unheard) /\ VerdictOf(j)' = "raised"
    BY <1>3 DEF VerdictOf
  <2>4. QED
    BY <1>2, <2>1, <2>2, <2>3 DEF StageOf
<1>5. OneRow(j)
  BY <1>3, LookStands DEF OneRow
<1> DEFINE said == [i \in Job |-> VerdictOf(i)]
           stage == [i \in Job |-> StageOf(i)]
<1>6. [i \in Job |-> VerdictOf(i)'] = [said EXCEPT ![j] = VerdictOf(j)']
  BY <1>5 DEF OneRow
<1>7. [i \in Job |-> StageOf(i)'] = stage
  BY <1>4, <1>5 DEF OneRow
<1>8. said[j] \in {"open", "recovered"}
  BY <1>4
<1>9. \/ stage[j] = "accomplished" /\ said' = [said EXCEPT ![j] = "done"]
      \/ stage[j] \in {"begun", "unheard"} /\ said' = [said EXCEPT ![j] = "raised"]
  BY <1>4, <1>6
<1>10. QED
  BY <1>7, <1>8, <1>9 DEF Contract!Judge

\* A run that is rolled back, a lost outcome, the clock, the sessions and the
\* processes are nothing to the contract.
LEMMA QuietSteps ==
    ASSUME UNCHANGED <<job, synced, unheard>>,
           \/ Tick \/ UNCHANGED vars
           \/ \E c \in Caller :
                 \/ CronFires(c) \/ CronVisits(c) \/ EnqueueFails(c)
                 \/ \E l \in Location : AdminTriggers(c, l)
                 \/ \E r \in call[c].todo : CheckSlot(c, r)
           \/ \E p \in Proc, j \in Job : SyncRaises(p, j) \/ MarkRaises(p, j)
           \/ \E p \in Proc : LoopBreaks(p) \/ Boot(p) \/ StopRequested(p) \/ Stopped(p) \/ Die(p)
    PROVE  UNCHANGED Contract!ContractVars
<1>1. job' = job /\ runs' = runs /\ synced' = synced /\ unheard' = unheard
  BY DEF Tick, vars, CronFires, CronVisits, EnqueueFails, AdminTriggers, CheckSlot,
         SyncRaises, MarkRaises, LoopBreaks, Boot, StopRequested, Stopped, Die
<1>2. Unseen
  BY <1>1, LookStands DEF Unseen
<1>3. QED
  BY <1>2, UnseenStutters

LEMMA NextContract ==
    ASSUME IInv, [Next]_vars
    PROVE  [Contract!ContractNext]_Contract!ContractVars
<1>1. ASSUME NEW c \in Caller, CommitEnqueue(c)
      PROVE  Contract!ContractNext
  BY <1>1, CommitContract DEF Contract!ContractNext
<1>2. ASSUME NEW l \in Location, CancelPending(l)
      PROVE  Contract!ContractNext
  BY <1>2, CancelContract DEF Contract!ContractNext
<1>3. ASSUME RecoverRunning, UNCHANGED <<runs, synced, unheard>>
      PROVE  Contract!ContractNext
  BY <1>3, RecoverContract DEF Contract!ContractNext
<1>4. ASSUME NEW j \in Job, job[j].status = "pending", SetRunning(j),
             UNCHANGED <<runs, synced, unheard>>
      PROVE  Contract!ContractNext
  BY <1>4, ClaimContract DEF Contract!ContractNext
<1>5. ASSUME NEW p \in Proc, RecoverStuckJobs(p)
      PROVE  Contract!ContractNext
  BY <1>3, <1>5 DEF RecoverStuckJobs
<1>6. ASSUME NEW p \in Proc, NEW j \in Job,
             Claim(p, j) \/ StartSync(p, j) \/ MarkJobComplete(p, j)
      PROVE  Contract!ContractNext
  <2>1. CASE Claim(p, j)
    BY <1>4, <2>1 DEF Claim, Oldest, Due
  <2>2. QED
    BY <1>6, <2>1, StartContract, MarkContract DEF Contract!ContractNext
<1>7. ASSUME NEW p \in Proc, NEW j \in Job, SyncCommits(p, j) \/ SyncRaises(p, j)
      PROVE  Contract!ContractNext \/ UNCHANGED Contract!ContractVars
  <2>1. CASE synced' = synced \cup {j} /\ unheard' \in {unheard, unheard \cup {j}}
    BY <1>7, <2>1, CommitsContract DEF Contract!ContractNext
  <2>2. CASE SyncRaises(p, j) /\ UNCHANGED <<synced, unheard>>
    BY <2>2, QuietSteps DEF SyncRaises
  <2>3. QED
    BY <1>7, <2>1, <2>2 DEF SyncCommits, SyncRaises, CommitRun
<1>8. ASSUME NEW p \in Proc, LoopBreaks(p)
      PROVE  Contract!ContractNext \/ UNCHANGED Contract!ContractVars
  <2>1. CASE UNCHANGED job
    BY <1>8, <2>1, BreakCases, QuietSteps
  <2>2. QED
    BY <1>3, <1>4, <1>8, <2>1, BreakCases
<1>9. ASSUME \/ Tick \/ UNCHANGED vars
             \/ \E c \in Caller :
                   \/ CronFires(c) \/ CronVisits(c) \/ EnqueueFails(c)
                   \/ \E l \in Location : AdminTriggers(c, l)
                   \/ \E r \in call[c].todo : CheckSlot(c, r)
             \/ \E p \in Proc, j \in Job : MarkRaises(p, j)
             \/ \E p \in Proc : Boot(p) \/ StopRequested(p) \/ Stopped(p) \/ Die(p)
      PROVE  UNCHANGED Contract!ContractVars
  <2>1. UNCHANGED <<job, synced, unheard>>
    BY <1>9 DEF Tick, vars, CronFires, CronVisits, EnqueueFails, AdminTriggers, CheckSlot,
       MarkRaises, Boot, StopRequested, Stopped, Die
  <2>2. QED
    BY <1>9, <2>1, QuietSteps
<1>10. QED
  BY <1>1, <1>2, <1>5, <1>6, <1>7, <1>8, <1>9 DEF Next, Step

\* The scheduler's table, sessions, loops and processes implement the contract of
\* a job: a cancelled job never begins, none begins twice, only a recovery's
\* verdict is replaced, by that of the job's own run, and that run is called
\* failed only when it was rolled back or its commit did not answer (worker.py,
\* orchestrator.py and cancel_pending_jobs).
THEOREM Implements == Spec => KeepsJobContract
<1>1. Init => Contract!ContractInit
  BY InitContract
<1>2. IInv /\ [Next]_vars => [Contract!ContractNext]_Contract!ContractVars
  BY NextContract
<1>3. QED
  BY <1>1, <1>2, Invariance, PTL DEF Spec, KeepsJobContract, Contract!ContractSpec

=============================================================================
