---------------------------- MODULE SchedulerQueue ----------------------------
(***************************************************************************)
(* The scheduler_jobs table: the sessions that enqueue sync runs (the cron *)
(* jobs of app/scheduler/cron.py and the trigger endpoint, both through    *)
(* app/scheduler/orchestrator.py), the admin's cancellation, and the       *)
(* worker loop of each server process (app/scheduler/worker.py).           *)
(*                                                                         *)
(* A check for an existing job and the insert it allows are two steps, as  *)
(* are the commit of a sync run and the commit of its job's outcome.  What *)
(* a sync run does inside its transaction is the subject of SyncRun.       *)
(***************************************************************************)
EXTENDS Naturals, FiniteSets

CONSTANTS Location,
          Proc,           \* server processes
          Caller,         \* sessions that enqueue: [proc, source], see Source
          MaxJobs,        \* bound: rows ever inserted
          MaxConcurrent,  \* MAX_CONCURRENT_JOBS, per process
          ClassEnds,      \* ClassEnds[l]: minutes at which classes end
          Offset,         \* Offset[l]: local time minus UTC, in minutes, mod 1440
          Instants,       \* the minutes at which the clock stops
          Faults          \* which failures of the environment may happen

JobType == {"event_driven", "hourly_catchup", "overnight"}

\* A cron job is one session per type (max_instances=1); "admin" is a request
\* to the trigger endpoint.
Source == JobType \cup {"admin"}

ASSUME SchedulerAssumption ==
    /\ Location # {}
    /\ Caller \subseteq [proc : Proc, source : Source] /\ IsFiniteSet(Caller)
    /\ MaxJobs \in Nat
    /\ MaxConcurrent \in Nat \ {0}
    /\ ClassEnds \in [Location -> SUBSET Nat]
    /\ Offset \in [Location -> 0..1439]
    /\ Instants \subseteq Nat /\ Instants # {}
    /\ Faults \subseteq {"crash", "database", "ambiguous"}

VARIABLES now,    \* minutes, UTC
          job,    \* the table: one record per row id
          flag,   \* locations.historical_sync_flag
          call,   \* what each enqueuing session is doing
          loop,   \* the worker loop of each process
          task,   \* task[p][j]: where execute_job is for row j in process p
          runs,   \* how often run_sync was started for a row
          synced, \* rows whose run_sync was committed
          unheard \* those of them whose task never got the answer to the commit

vars == <<now, job, flag, call, loop, task, runs, synced, unheard>>

Job == 1..MaxJobs
RunType == {"incremental", "historical_backfill"}
Status == {"absent", "pending", "running", "done", "failed"}
Error == {"none", "sync", "recovered", "cancelled"}

Request == [loc : Location, type : JobType, at : Nat, run : RunType]
Row == [status : Status, request : Request, error : Error]

\* locs: locations the cron job still has to visit; todo: slots still to check;
\* plan: rows added to the session and not yet committed.
Call == [busy : BOOLEAN, locs : SUBSET Location, todo : SUBSET Request, plan : SUBSET Request]
NoCall == [busy |-> FALSE, locs |-> {}, todo |-> {}, plan |-> {}]

Executing == {"syncing", "committed", "raised"}

TypeOK ==
    /\ now \in Instants
    /\ job \in [Job -> Row]
    /\ flag \in [Location -> {"pending", "complete"}]
    /\ call \in [Caller -> Call]
    /\ loop \in [Proc -> {"down", "recovering", "polling", "exited", "draining"}]
    /\ task \in [Proc -> [Job -> Executing \cup {"none", "waiting"}]]
    /\ runs \in [Job -> Nat]
    /\ synced \subseteq Job /\ unheard \subseteq Job

Nothing == [status |-> "absent", error |-> "none",
            request |-> [loc |-> CHOOSE l \in Location : TRUE, type |-> "overnight",
                         at |-> 0, run |-> "incremental"]]

Init ==
    /\ now \in Instants /\ \A t \in Instants : now <= t
    /\ job = [j \in Job |-> Nothing]
    /\ flag = [l \in Location |-> "pending"]
    /\ call = [c \in Caller |-> NoCall]
    /\ loop = [p \in Proc |-> "down"]
    /\ task = [p \in Proc |-> [j \in Job |-> "none"]]
    /\ runs = [j \in Job |-> 0]
    /\ synced = {} /\ unheard = {}

\* The clock moves to the next instant.
Tick ==
    /\ \E t \in Instants : /\ now < t /\ now' = t
                           /\ \A u \in Instants : now < u => t <= u
    /\ UNCHANGED <<job, flag, call, loop, task, runs, synced, unheard>>

-----------------------------------------------------------------------------
(* orchestrator.py: when a job of each type is due.                        *)

Day(t) == t \div 1440
LocalMinute(l, t) == (t + Offset[l]) % 1440

\* compute_daily_schedule: 15 minutes after each class of the UTC day.
EventSlots(l, t) == {e + 15 : e \in {x \in ClassEnds[l] : Day(x) = Day(t)}}

\* The current whole hour, from 07:00 to 22:00 local.
HourlySlots(l, t) ==
    LET at == (t \div 60) * 60
    IN  {u \in {at} : LocalMinute(l, u) \div 60 \in 7..22}

\* The next 03:00 local, strictly after t.
OvernightSlots(l, t) ==
    LET m == LocalMinute(l, t)
    IN  {IF m < 180 THEN t + 180 - m ELSE t + 1620 - m}

SlotsOf(l, type, t) ==
    CASE type = "event_driven"   -> EventSlots(l, t)
      [] type = "hourly_catchup" -> HourlySlots(l, t)
      [] type = "overnight"      -> OvernightSlots(l, t)

RunTypeOf(l, type) ==
    IF type = "overnight" /\ flag[l] # "complete" THEN "historical_backfill" ELSE "incremental"

Wanted(l, types) ==
    UNION {{[loc |-> l, type |-> ty, at |-> at, run |-> RunTypeOf(l, ty)] :
               at \in SlotsOf(l, ty, now)} : ty \in types}

Bucket(type) == IF type = "overnight" THEN 30 ELSE 5

SameBucket(q, r) ==
    /\ q.loc = r.loc /\ q.type = r.type
    /\ q.at <= r.at + Bucket(r.type) /\ r.at <= q.at + Bucket(r.type)

\* Mutant: pending jobs do not suppress a new one.
LiveButPending(j) == job[j].status \in {"running", "done"}

Live(j) == job[j].status \in {"pending", "running", "done"}

\* _job_exists: committed rows, and rows this session has added (autoflush).
JobExists(c, r) ==
    \/ \E j \in Job : Live(j) /\ SameBucket(job[j].request, r)
    \/ \E q \in call[c].plan : SameBucket(q, r)

-----------------------------------------------------------------------------
(* Enqueuing sessions.                                                     *)

Serving(p) == loop[p] \in {"recovering", "polling", "exited"}

\* The triggers of get_scheduler.
CronMatches(type, t) ==
    CASE type = "event_driven"   -> t % 1440 = 360
      [] type = "hourly_catchup" -> t % 60 = 0
      [] type = "overnight"      -> t % 1440 = 180

\* _for_all_locations first reads the locations whose cookie state is "ok".
CronFires(c) ==
    /\ c.source \in JobType
    /\ Serving(c.proc)
    /\ ~call[c].busy
    /\ CronMatches(c.source, now)
    /\ \E ok \in SUBSET Location \ {{}} :
          call' = [call EXCEPT ![c] = [NoCall EXCEPT !.busy = TRUE, !.locs = ok]]
    /\ UNCHANGED <<now, job, flag, loop, task, runs, synced, unheard>>

CronVisits(c) ==
    /\ c.source \in JobType
    /\ call[c].todo = {} /\ call[c].plan = {}
    /\ \E l \in call[c].locs :
          call' = [call EXCEPT ![c].locs = @ \ {l}, ![c].todo = Wanted(l, {c.source}),
                               ![c].busy = call[c].locs # {l} \/ Wanted(l, {c.source}) # {}]
    /\ UNCHANGED <<now, job, flag, loop, task, runs, synced, unheard>>

\* POST /scheduler/trigger/{location_id}: one type, or all in one transaction.
AdminTriggers(c, l) ==
    /\ c.source = "admin"
    /\ Serving(c.proc)
    /\ ~call[c].busy
    /\ \E types \in {{ty} : ty \in JobType} \cup {JobType} :
          call' = [call EXCEPT ![c] = [NoCall EXCEPT !.busy = Wanted(l, types) # {},
                                                     !.todo = Wanted(l, types)]]
    /\ UNCHANGED <<now, job, flag, loop, task, runs, synced, unheard>>

\* The slots of a type are checked in ascending order.
CheckSlot(c, r) ==
    /\ r \in call[c].todo
    /\ \A q \in call[c].todo : q.type = r.type => r.at <= q.at
    /\ call' = [call EXCEPT ![c].todo = @ \ {r},
                            ![c].plan = IF JobExists(c, r) THEN @ ELSE @ \cup {r},
                            ![c].busy = \/ call[c].todo # {r} \/ call[c].locs # {}
                                        \/ call[c].plan # {} \/ ~JobExists(c, r)]
    /\ UNCHANGED <<now, job, flag, loop, task, runs, synced, unheard>>

Absent == {j \in Job : job[j].status = "absent"}
FirstAbsent(n) == {j \in Absent : Cardinality({i \in Absent : i < j}) < n}

\* The rows get the next ids in the order of their slots.
CommitEnqueue(c) ==
    /\ call[c].todo = {} /\ call[c].plan # {}
    /\ Cardinality(Absent) >= Cardinality(call[c].plan)
    /\ LET new == FirstAbsent(Cardinality(call[c].plan))
       IN  \E r \in [new -> call[c].plan] :
              /\ \A i, j \in new : i < j => r[i] # r[j] /\ r[i].at <= r[j].at
              /\ job' = [j \in Job |-> IF j \in new THEN [status |-> "pending", error |-> "none",
                                                          request |-> r[j]]
                                       ELSE job[j]]
    /\ call' = [call EXCEPT ![c].plan = {}, ![c].busy = call[c].locs # {}]
    /\ UNCHANGED <<now, flag, loop, task, runs, synced, unheard>>

\* A database error rolls the session back.  The cron job logs it and goes on
\* with its next location; the request answers 500.
EnqueueFails(c) ==
    /\ "database" \in Faults
    /\ call[c].todo \cup call[c].plan # {}
    /\ call' = [call EXCEPT ![c].todo = {}, ![c].plan = {}, ![c].busy = call[c].locs # {}]
    /\ UNCHANGED <<now, job, flag, loop, task, runs, synced, unheard>>

\* Mutant: the endpoint cancels running jobs too.
CancellableRunning(j, l) ==
    job[j].status \in {"pending", "running"} /\ job[j].request.loc = l

Cancellable(j, l) == job[j].status = "pending" /\ job[j].request.loc = l

CancelPending(l) ==
    /\ \E p \in Proc : Serving(p)
    /\ job' = [j \in Job |-> IF Cancellable(j, l)
                             THEN [job[j] EXCEPT !.status = "failed", !.error = "cancelled"]
                             ELSE job[j]]
    /\ UNCHANGED <<now, flag, call, loop, task, runs, synced, unheard>>

-----------------------------------------------------------------------------
(* The worker loop.                                                        *)

\* Mutant: a recovered job goes back to pending.
RecoveredAgain(j) == [job[j] EXCEPT !.status = "pending"]
\* Mutant: nothing is recovered.
NotRecovered(j) == job[j]

Recovered(j) == [job[j] EXCEPT !.status = "failed", !.error = "recovered"]

\* recover_stuck_jobs: every running row, whoever runs it.
RecoverRunning ==
    job' = [j \in Job |-> IF job[j].status = "running" THEN Recovered(j) ELSE job[j]]

\* Once per boot, before the loop.
RecoverStuckJobs(p) ==
    /\ loop[p] = "recovering"
    /\ RecoverRunning
    /\ loop' = [loop EXCEPT ![p] = "polling"]
    /\ UNCHANGED <<now, flag, call, task, runs, synced, unheard>>

\* Mutant: failed rows are retried.
DueOrFailed(j) == job[j].status \in {"pending", "failed"} /\ job[j].request.at <= now

\* What _claim_next_job may take.
Due(j) == job[j].status = "pending" /\ job[j].request.at <= now

Oldest(j) == Due(j) /\ \A i \in Job : Due(i) => job[j].request.at <= job[i].request.at

SetRunning(j) == job' = [job EXCEPT ![j].status = "running"]

Claim(p, j) ==
    /\ loop[p] = "polling"
    /\ Oldest(j)
    /\ SetRunning(j)
    /\ task' = [task EXCEPT ![p][j] = "waiting"]
    /\ UNCHANGED <<now, flag, call, loop, runs, synced, unheard>>

\* A database exception in the recovery or in a claim ends the loop for good.  A
\* commit whose answer was lost has recovered the rows all the same, or leaves a
\* running row that no task holds.  (An enqueuing session, a cancellation and
\* _mark_job_complete end as they would have with the answer.)
LoopBreaks(p) ==
    /\ "database" \in Faults
    /\ loop[p] \in {"recovering", "polling"}
    /\ loop' = [loop EXCEPT ![p] = "exited"]
    /\ \/ UNCHANGED job
       \/ /\ "ambiguous" \in Faults
          /\ \/ loop[p] = "recovering" /\ RecoverRunning
             \/ loop[p] = "polling" /\ \E j \in Job : Oldest(j) /\ SetRunning(j)
    /\ UNCHANGED <<now, flag, call, task, runs, synced, unheard>>

-----------------------------------------------------------------------------
(* execute_job, in a task of its own.                                      *)

StartSync(p, j) ==
    /\ task[p][j] = "waiting"
    /\ Cardinality({i \in Job : task[p][i] \in Executing}) < MaxConcurrent
    /\ task' = [task EXCEPT ![p][j] = "syncing"]
    /\ runs' = [runs EXCEPT ![j] = @ + 1]
    /\ UNCHANGED <<now, job, flag, call, loop, synced, unheard>>

\* The commit of run_sync's transaction: run_bootstrap sets the flag whatever the
\* run type.  A location that is not onboarded is skipped and changes nothing.
CommitRun(j) ==
    /\ \/ flag' = [flag EXCEPT ![job[j].request.loc] = "complete"]
       \/ UNCHANGED flag
    /\ synced' = synced \cup {j}

SyncCommits(p, j) ==
    /\ task[p][j] = "syncing"
    /\ CommitRun(j)
    /\ task' = [task EXCEPT ![p][j] = "committed"]
    /\ UNCHANGED <<now, job, call, loop, runs, unheard>>

\* SessionExpiredError or any other exception, and the session rolls back; or the
\* commit took effect, its answer was lost, and it raises inside the same try.
SyncRaises(p, j) ==
    /\ task[p][j] = "syncing"
    /\ \/ UNCHANGED <<flag, synced, unheard>>
       \/ /\ "ambiguous" \in Faults
          /\ CommitRun(j)
          /\ unheard' = unheard \cup {j}
    /\ task' = [task EXCEPT ![p][j] = "raised"]
    /\ UNCHANGED <<now, job, call, loop, runs>>

\* Mutant: a status that is none of the column's.
OutcomeMisspelt(p, j) == IF task[p][j] = "raised" THEN "failed" ELSE "complete"
\* Mutant: the error is not passed on.
OutcomeAlwaysDone(p, j) == "done"

OutcomeOf(p, j) == IF task[p][j] = "raised" THEN "failed" ELSE "done"

\* _mark_job_complete: an UPDATE by id, whatever the row says by now.
MarkJobComplete(p, j) ==
    /\ task[p][j] \in {"committed", "raised"}
    /\ job' = [job EXCEPT ![j].status = OutcomeOf(p, j),
                          ![j].error = IF task[p][j] = "raised" THEN "sync" ELSE "none"]
    /\ task' = [task EXCEPT ![p][j] = "none"]
    /\ UNCHANGED <<now, flag, call, loop, runs, synced, unheard>>

\* The UPDATE raises in the task: the row stays running until some boot.
MarkRaises(p, j) ==
    /\ "database" \in Faults
    /\ task[p][j] \in {"committed", "raised"}
    /\ task' = [task EXCEPT ![p][j] = "none"]
    /\ UNCHANGED <<now, job, flag, call, loop, runs, synced, unheard>>

-----------------------------------------------------------------------------
(* Process lifetime.                                                       *)

Boot(p) ==
    /\ loop[p] = "down"
    /\ loop' = [loop EXCEPT ![p] = "recovering"]
    /\ UNCHANGED <<now, job, flag, call, task, runs, synced, unheard>>

StopRequested(p) ==
    /\ Serving(p) /\ loop[p] # "recovering"
    /\ loop' = [loop EXCEPT ![p] = "draining"]
    /\ UNCHANGED <<now, job, flag, call, task, runs, synced, unheard>>

DropCalls(p) == [c \in Caller |-> IF c.proc = p THEN NoCall ELSE call[c]]

\* The loop has waited for its tasks; sessions still enqueuing are cut off.
Stopped(p) ==
    /\ loop[p] = "draining"
    /\ \A j \in Job : task[p][j] = "none"
    /\ loop' = [loop EXCEPT ![p] = "down"]
    /\ call' = DropCalls(p)
    /\ UNCHANGED <<now, job, flag, task, runs, synced, unheard>>

\* A kill, or the 30 s shutdown timeout: open transactions are rolled back.
Die(p) ==
    /\ "crash" \in Faults
    /\ loop[p] # "down"
    /\ loop' = [loop EXCEPT ![p] = "down"]
    /\ task' = [task EXCEPT ![p] = [j \in Job |-> "none"]]
    /\ call' = DropCalls(p)
    /\ UNCHANGED <<now, job, flag, runs, synced, unheard>>

Step(p, j) ==
    \/ StartSync(p, j)
    \/ SyncCommits(p, j)
    \/ SyncRaises(p, j)
    \/ MarkJobComplete(p, j)
    \/ MarkRaises(p, j)

Next ==
    \/ Tick
    \/ \E c \in Caller :
          \/ CronFires(c) \/ CronVisits(c) \/ CommitEnqueue(c) \/ EnqueueFails(c)
          \/ \E l \in Location : AdminTriggers(c, l)
          \/ \E r \in call[c].todo : CheckSlot(c, r)
    \/ \E l \in Location : CancelPending(l)
    \/ \E p \in Proc, j \in Job : Claim(p, j) \/ Step(p, j)
    \/ \E p \in Proc : \/ RecoverStuckJobs(p) \/ LoopBreaks(p)
                       \/ Boot(p) \/ StopRequested(p) \/ Stopped(p) \/ Die(p)

Spec == Init /\ [][Next]_vars

\* Clocks advance, a process that is down is started again by its platform, and
\* a process that is up runs its loop and its tasks.  The loop claims right
\* after the recovery, so crashes do not excuse it (SF).
Fairness ==
    /\ WF_vars(Tick)
    /\ \A p \in Proc, j \in Job : SF_vars(Claim(p, j)) /\ WF_vars(Step(p, j))
    /\ \A p \in Proc : /\ WF_vars(Boot(p)) /\ WF_vars(Stopped(p))
                       /\ SF_vars(RecoverStuckJobs(p))

FairSpec == Spec /\ Fairness

-----------------------------------------------------------------------------
(* Properties.                                                             *)

Unattended(j) == \A p \in Proc : task[p][j] = "none"
Settled(j) == job[j].status \in {"done", "failed"}

\* A job starts at most one sync run in its life, whatever crashes, boots and
\* recoveries in other processes do to its row meanwhile.
RunsOnce == \A j \in Job : runs[j] <= 1

\* The outcome in the table is the outcome of the run, although it is written
\* in a second transaction and the row may have been recovered in between: done
\* only for a run that was committed, and a sync error for one that was committed
\* only when the answer to that commit was lost on the way to the task.
OutcomeIsTrue ==
    \A j \in Job : /\ job[j].status = "done" => j \in synced \ unheard
                   /\ job[j].error = "sync" => j \notin synced \ unheard

\* A job the admin cancelled was never started and never will be, however the
\* cancellation races with the claims.
CancelledNeverRuns ==
    \A j \in Job : job[j].error = "cancelled" => runs[j] = 0 /\ Unattended(j)

\* Only the task of a job changes it once it is settled: no recovery, claim or
\* cancellation takes a settled job up again.
SettledStays ==
    [][\A j \in Job : Settled(j) /\ Unattended(j) => job'[j] = job[j]]_vars

SameSlot(q, r) == q.loc = r.loc /\ q.type = r.type /\ q.at = r.at

\* Within one process, only sessions whose checks overlap can enqueue a slot
\* twice: no slot has more live jobs than there are enqueuing sessions, however
\* often the cron jobs and the admin fire.
DuplicatesBounded ==
    \A i \in Job : Live(i) =>
        Cardinality({j \in Job : Live(j) /\ SameSlot(job[j].request, job[i].request)})
            <= Cardinality(Caller)

\* A due job is settled in the end, also when the process that runs it dies.
DueJobSettles == \A j \in Job : Due(j) ~> Settled(j)

-----------------------------------------------------------------------------
(* The contract of a job: how far it has come, told by its run where it    *)
(* has begun one, and what its row says of it.                             *)

RowStage(j) ==
    CASE job[j].status = "absent"     -> "none"
      [] job[j].status = "pending"    -> "asked"
      [] job[j].error = "cancelled"   -> "cancelled"
      [] OTHER                        -> "taken"

\* The contract has no stage for a job that has begun twice.
StageOf(j) ==
    CASE runs[j] = 0                             -> RowStage(j)
      [] runs[j] = 1 /\ j \notin synced           -> "begun"
      [] runs[j] = 1 /\ j \in synced \ unheard    -> "accomplished"
      [] runs[j] = 1 /\ j \in synced \cap unheard -> "unheard"
      [] OTHER                                   -> "repeated"

VerdictOf(j) ==
    CASE job[j].status = "done"     -> "done"
      [] job[j].error = "sync"      -> "raised"
      [] job[j].error = "recovered" -> "recovered"
      [] OTHER                      -> "open"

Contract ==
    INSTANCE SchedulerContract WITH
        Job     <- Job,
        stage   <- [j \in Job |-> StageOf(j)],
        verdict <- [j \in Job |-> VerdictOf(j)]

\* Every step of the scheduler, of whatever process, is a step of the contract or
\* leaves it unchanged: nothing that was cancelled begins, nothing begins twice,
\* no verdict but a recovery's is ever replaced, and only a run whose commit did
\* not answer is called failed although its work is there.
KeepsJobContract == Contract!ContractSpec

=============================================================================
