--------------------------- MODULE WritebackQueue ---------------------------
(***************************************************************************)
(* The writeback_jobs table, the admin endpoints that insert and cancel    *)
(* its rows (app/api/v1/admin/writeback.py), and the worker loops that     *)
(* claim and execute them (app/writeback/executor.py), one loop per server *)
(* process.  A claimed row is handed to an asyncio task of its own; every  *)
(* await of that task is a point where other tasks, other processes, the   *)
(* admin and crashes interleave, so it is a step of its own here.          *)
(***************************************************************************)
EXTENDS Naturals, FiniteSets

CONSTANTS Request,        \* the payloads clients submit (records, see MakeKey)
          Proc,           \* server processes, each with one worker loop
          MaxJobs,        \* bound: rows ever inserted
          MaxAttempts,    \* MAX_ATTEMPTS
          MaxConcurrent,  \* MAX_CONCURRENT_JOBS, per process
          Hooks,          \* execute_writeback_job is given webhook URLs; the
                          \* worker loop of this commit gives it none
          Deployments,    \* the settings a process may be started with
          Faults          \* which failures of the environment may happen

Settings == [mode : {"dev", "prod"}, dryRun : BOOLEAN]

ASSUME WritebackAssumption ==
    /\ Request # {}
    /\ MaxJobs \in Nat
    /\ MaxAttempts \in Nat \ {0}
    /\ MaxConcurrent \in Nat \ {0}
    /\ Hooks \in BOOLEAN
    /\ Deployments \subseteq Settings
    /\ Faults \subseteq {"crash", "database", "ambiguous", "audit", "webhook"}

VARIABLES row,       \* the table: one record per row id, in created_at order
          task,      \* task[p][j]: the asyncio task of process p for row j
          loop,      \* the worker loop of each process
          settings,  \* WRITEBACK_SAFETY_MODE and WRITEBACK_DRY_RUN of a process
          effects,   \* Eversports actions performed for a row
          audited,   \* rows with a line in the audit log
          heard,     \* the reports of a row that GHL got
          missed     \* the reports of a row whose POST did not get through

vars == <<row, task, loop, settings, effects, audited, heard, missed>>

Job == 1..MaxJobs

Status == {"absent", "queued", "running", "succeeded", "failed", "dead"}
Error == {"none", "handler", "safety", "audit", "cancelled"}

\* request is what was submitted, retry is next_retry_at seen from now.
Row == [status : Status, request : Request, attempts : 0..MaxAttempts,
        retry : {"none", "later", "due"}, error : Error]

\* Where the coroutine execute_writeback_job is; snap is the attempt_count the
\* claim returned to it.  "waiting" is a task blocked on the semaphore.
Executing == {"acting", "acted", "audited", "failing", "killing", "notifying"}
Holding == (Executing \ {"notifying"}) \cup {"waiting"}
Task == [pc : Executing \cup {"none", "waiting"}, snap : 0..MaxAttempts,
         error : Error]
NoTask == [pc |-> "none", snap |-> 0, error |-> "none"]

TypeOK ==
    /\ row \in [Job -> Row]
    /\ task \in [Proc -> [Job -> Task]]
    /\ loop \in [Proc -> {"down", "polling", "exited", "draining"}]
    /\ settings \in [Proc -> Settings]
    /\ effects \in [Job -> Nat]
    /\ audited \subseteq Job
    /\ heard \in [Job -> SUBSET {"success", "failed"}]
    /\ missed \in [Job -> SUBSET {"success", "failed"}]

Init ==
    /\ row = [j \in Job |-> [status |-> "absent", request |-> CHOOSE r \in Request : TRUE,
                             attempts |-> 0, retry |-> "none", error |-> "none"]]
    /\ task = [p \in Proc |-> [j \in Job |-> NoTask]]
    /\ loop = [p \in Proc |-> "down"]
    /\ settings = [p \in Proc |-> [mode |-> "dev", dryRun |-> TRUE]]
    /\ effects = [j \in Job |-> 0]
    /\ audited = {}
    /\ heard = [j \in Job |-> {}]
    /\ missed = [j \in Job |-> {}]

-----------------------------------------------------------------------------
(* Idempotency keys and the safety guard.                                  *)

\* What the sha256 of each derivation tells apart: the two strings it joins.
\* Only create_customer's key contains the location.
MakeKey(r) ==
    CASE r.type = "create_customer" -> <<r.location, r.subject>>
      [] r.type = "cancel_booking"  -> <<r.subject, "cancel">>
      [] OTHER                      -> <<r.subject, r.session>>

TargetAllowed(mode, r) == mode = "prod" \/ r.target = "whitelisted"

-----------------------------------------------------------------------------
(* The endpoints: POST /jobs and DELETE /jobs/{location}/pending.          *)

Up(p) == loop[p] \in {"polling", "exited"}

KeyTaken(r) == \E j \in Job : row[j].status # "absent" /\ MakeKey(row[j].request) = MakeKey(r)

\* The endpoint's dev-mode check; a date it cannot parse counts as "now".
Admitted(mode, r) == TargetAllowed(mode, r) /\ (mode = "prod" \/ r.parses)

\* 422 when not admitted, 409 when the unique index on idempotency_key refuses
\* the INSERT: neither changes the table.
Enqueue(p, r) ==
    /\ Up(p)
    /\ Admitted(settings[p].mode, r)
    /\ ~KeyTaken(r)
    /\ \E j \in Job :
          /\ row[j].status = "absent"
          /\ \A i \in Job : i < j => row[i].status # "absent"
          /\ row' = [row EXCEPT ![j] = [status |-> "queued", request |-> r, attempts |-> 0,
                                       retry |-> "none", error |-> "none"]]
    /\ UNCHANGED <<task, loop, settings, effects, audited, heard, missed>>

\* Mutant: the endpoint cancels running rows too.
CancellableRunning(j, l) ==
    row[j].status \in {"queued", "failed", "running"} /\ row[j].request.location = l

Cancellable(j, l) ==
    row[j].status \in {"queued", "failed"} /\ row[j].request.location = l

\* One UPDATE over every queued or failed row of a location.
CancelPending(p, l) ==
    /\ Up(p)
    /\ row' = [j \in Job |-> IF Cancellable(j, l)
                             THEN [row[j] EXCEPT !.status = "dead", !.error = "cancelled"]
                             ELSE row[j]]
    /\ UNCHANGED <<task, loop, settings, effects, audited, heard, missed>>

-----------------------------------------------------------------------------
(* The worker loop.                                                        *)

\* Mutants: running rows are taken up again; failed rows are forgotten.
DueOrRunning(j) ==
    row[j].status \in {"queued", "failed", "running"} /\ row[j].retry \in {"none", "due"}
DueQueuedOnly(j) == row[j].status = "queued" /\ row[j].retry \in {"none", "due"}

Due(j) == row[j].status \in {"queued", "failed"} /\ row[j].retry \in {"none", "due"}

Oldest(j) == Due(j) /\ \A i \in Job : Due(i) => j <= i

SetRunning(j) == row' = [row EXCEPT ![j].status = "running"]

\* _claim_next_job in one transaction (FOR UPDATE SKIP LOCKED), then
\* create_task.  The loop claims again at once, whatever the semaphore says.
Claim(p, j) ==
    /\ loop[p] = "polling"
    /\ Oldest(j)
    /\ SetRunning(j)
    /\ task' = [task EXCEPT ![p][j] = [pc |-> "waiting", snap |-> row[j].attempts,
                                      error |-> "none"]]
    /\ UNCHANGED <<loop, settings, effects, audited, heard, missed>>

\* A database exception escapes the while loop: the loop never claims again,
\* and a commit whose answer was lost leaves a running row that no task holds.
ClaimBreaks(p) ==
    /\ "database" \in Faults
    /\ loop[p] = "polling"
    /\ loop' = [loop EXCEPT ![p] = "exited"]
    /\ \/ UNCHANGED row
       \/ "ambiguous" \in Faults /\ \E j \in Job : Oldest(j) /\ SetRunning(j)
    /\ UNCHANGED <<task, settings, effects, audited, heard, missed>>

\* next_retry_at passes.
RetryDelayElapses(j) ==
    /\ row[j].retry = "later"
    /\ row' = [row EXCEPT ![j].retry = "due"]
    /\ UNCHANGED <<task, loop, settings, effects, audited, heard, missed>>

-----------------------------------------------------------------------------
(* execute_writeback_job, in a task.                                       *)

Goto(p, j, pc, error) ==
    task' = [task EXCEPT ![p][j].pc = pc, ![p][j].error = error]

Finish(p, j) == task' = [task EXCEPT ![p][j] = NoTask]

Slots(p) == Cardinality({j \in Job : task[p][j].pc \in Executing})

AcquireSlot(p, j) ==
    /\ task[p][j].pc = "waiting"
    /\ Slots(p) < MaxConcurrent
    /\ Goto(p, j, "acting", "none")
    /\ UNCHANGED <<row, loop, settings, effects, audited, heard, missed>>

\* The handler parses the payload, then asks the safety guard, then acts.
HandlerRefuses(p, j) ==
    /\ task[p][j].pc = "acting"
    /\ \/ ~row[j].request.parses /\ Goto(p, j, "failing", "handler")
       \/ /\ row[j].request.parses
          /\ ~TargetAllowed(settings[p].mode, row[j].request)
          /\ Goto(p, j, "killing", "safety")
    /\ UNCHANGED <<row, loop, settings, effects, audited, heard, missed>>

HandlerProceeds(p, j) ==
    /\ task[p][j].pc = "acting"
    /\ row[j].request.parses
    /\ TargetAllowed(settings[p].mode, row[j].request)

HandlerDryRun(p, j) ==
    /\ HandlerProceeds(p, j)
    /\ settings[p].dryRun
    /\ Goto(p, j, "acted", "none")
    /\ UNCHANGED <<row, loop, settings, effects, audited, heard, missed>>

\* The live branch raises before it has changed anything in Eversports.
HandlerRaises(p, j) ==
    /\ HandlerProceeds(p, j)
    /\ ~settings[p].dryRun
    /\ Goto(p, j, "failing", "handler")
    /\ UNCHANGED <<row, loop, settings, effects, audited, heard, missed>>

\* The action reaches Eversports (external): its answer arrives, or is lost and
\* the handler raises.  At this commit the live branch of every handler is a
\* TODO that raises (HandlerRaises); the executor is written for handlers that
\* act, as its tests run it, and so is checked here.
EversportsActs(p, j) ==
    /\ HandlerProceeds(p, j)
    /\ ~settings[p].dryRun
    /\ effects' = [effects EXCEPT ![j] = @ + 1]
    /\ Goto(p, j, "acted", "none") \/ Goto(p, j, "failing", "handler")
    /\ UNCHANGED <<row, loop, settings, audited, heard, missed>>

\* _fire_ghl_webhook: nothing without a URL.  A POST that is refused or times
\* out is logged and no more, the task goes on; one that GHL got although its
\* answer was lost is heard all the same.
Fire(j, label) ==
    \/ /\ heard' = [heard EXCEPT ![j] = IF Hooks THEN @ \cup {label} ELSE @]
       /\ UNCHANGED missed
    \/ /\ Hooks /\ "webhook" \in Faults
       /\ missed' = [missed EXCEPT ![j] = @ \cup {label}]
       /\ UNCHANGED heard

\* Mutant: an audit error is logged and ignored.
RecordAuditSwallows(p, j) ==
    /\ task[p][j].pc = "acted"
    /\ IF settings[p].dryRun THEN UNCHANGED <<heard, missed>> ELSE Fire(j, "success")
    /\ audited' = audited \cup {j} \/ ("audit" \in Faults /\ UNCHANGED audited)
    /\ Goto(p, j, "audited", "none")
    /\ UNCHANGED <<row, loop, settings, effects>>

\* The success webhook (live only) precedes the audit entry, which can fail
\* before the line is written or, live, when the email is refused after it.
RecordAudit(p, j) ==
    /\ task[p][j].pc = "acted"
    /\ IF settings[p].dryRun THEN UNCHANGED <<heard, missed>> ELSE Fire(j, "success")
    /\ \/ audited' = audited \cup {j} /\ Goto(p, j, "audited", "none")
       \/ /\ "audit" \in Faults
          /\ \/ UNCHANGED audited
             \/ ~settings[p].dryRun /\ audited' = audited \cup {j}
          /\ Goto(p, j, "killing", "audit")
    /\ UNCHANGED <<row, loop, settings, effects>>

SetSucceeded(j) == row' = [row EXCEPT ![j].status = "succeeded", ![j].error = "none"]

MarkSucceeded(p, j) ==
    /\ task[p][j].pc = "audited"
    /\ SetSucceeded(j)
    /\ Finish(p, j)
    /\ UNCHANGED <<loop, settings, effects, audited, heard, missed>>

\* The UPDATE raises inside the try block and lands in "except Exception".
MarkSucceededRaises(p, j) ==
    /\ "database" \in Faults
    /\ task[p][j].pc = "audited"
    /\ UNCHANGED row \/ ("ambiguous" \in Faults /\ SetSucceeded(j))
    /\ Goto(p, j, "failing", "handler")
    /\ UNCHANGED <<loop, settings, effects, audited, heard, missed>>

-----------------------------------------------------------------------------
(* _mark_failed_or_dead and what follows it.                               *)

\* Mutants: MAX_ATTEMPTS instead of MAX_ATTEMPTS - 1; the increment forgotten.
NewCountPastMax(p, j) ==
    (IF task[p][j].pc = "killing" THEN MaxAttempts ELSE task[p][j].snap) + 1
NewCountForgotten(p, j) ==
    IF task[p][j].pc = "killing" THEN MaxAttempts ELSE task[p][j].snap

\* The attempt_count argument plus one: SafetyGuardError and AuditError pass
\* MAX_ATTEMPTS - 1.
NewCount(p, j) ==
    IF task[p][j].pc = "killing" THEN MaxAttempts ELSE task[p][j].snap + 1

SetFailedOrDead(p, j) ==
    row' = [row EXCEPT ![j].status = IF NewCount(p, j) >= MaxAttempts THEN "dead" ELSE "failed",
                       ![j].attempts = NewCount(p, j),
                       ![j].retry = IF NewCount(p, j) >= MaxAttempts THEN "none" ELSE "later",
                       ![j].error = task[p][j].error]

\* Mutants: no webhook for a dead row; one after an AuditError too.
MarkFailedSilently(p, j) ==
    /\ task[p][j].pc \in {"failing", "killing"}
    /\ SetFailedOrDead(p, j)
    /\ Finish(p, j)
    /\ UNCHANGED <<loop, settings, effects, audited, heard, missed>>
MarkFailedAlwaysNotifies(p, j) ==
    /\ task[p][j].pc \in {"failing", "killing"}
    /\ SetFailedOrDead(p, j)
    /\ IF NewCount(p, j) >= MaxAttempts THEN Goto(p, j, "notifying", "none") ELSE Finish(p, j)
    /\ UNCHANGED <<loop, settings, effects, audited, heard, missed>>

\* A dead row is followed by the failure webhook, except after an AuditError.
MarkFailedOrDead(p, j) ==
    /\ task[p][j].pc \in {"failing", "killing"}
    /\ SetFailedOrDead(p, j)
    /\ IF NewCount(p, j) >= MaxAttempts /\ task[p][j].error # "audit"
       THEN Goto(p, j, "notifying", task[p][j].error)
       ELSE Finish(p, j)
    /\ UNCHANGED <<loop, settings, effects, audited, heard, missed>>

\* The UPDATE raises inside an except block: the task dies, nobody retries it.
MarkFailedRaises(p, j) ==
    /\ "database" \in Faults
    /\ task[p][j].pc \in {"failing", "killing"}
    /\ UNCHANGED row \/ ("ambiguous" \in Faults /\ SetFailedOrDead(p, j))
    /\ Finish(p, j)
    /\ UNCHANGED <<loop, settings, effects, audited, heard, missed>>

NotifyFailure(p, j) ==
    /\ task[p][j].pc = "notifying"
    /\ Fire(j, "failed")
    /\ Finish(p, j)
    /\ UNCHANGED <<row, loop, settings, effects, audited>>

-----------------------------------------------------------------------------
(* Process lifetime: app/main.py's lifespan, and kills.                    *)

Boot(p) ==
    /\ loop[p] = "down"
    /\ loop' = [loop EXCEPT ![p] = "polling"]
    /\ \E s \in Deployments : settings' = [settings EXCEPT ![p] = s]
    /\ UNCHANGED <<row, task, effects, audited, heard, missed>>

Idle(p) == \A j \in Job : task[p][j].pc = "none"

\* stop_event: no further claim, then gather(*active).
StopRequested(p) ==
    /\ Up(p)
    /\ loop' = [loop EXCEPT ![p] = "draining"]
    /\ UNCHANGED <<row, task, settings, effects, audited, heard, missed>>

Stopped(p) ==
    /\ loop[p] = "draining"
    /\ Idle(p)
    /\ loop' = [loop EXCEPT ![p] = "down"]
    /\ UNCHANGED <<row, task, settings, effects, audited, heard, missed>>

\* A kill, or the 30 s shutdown timeout cancelling the gathered tasks.
Die(p) ==
    /\ "crash" \in Faults
    /\ loop[p] # "down"
    /\ loop' = [loop EXCEPT ![p] = "down"]
    /\ task' = [task EXCEPT ![p] = [j \in Job |-> NoTask]]
    /\ UNCHANGED <<row, settings, effects, audited, heard, missed>>

Step(p, j) ==
    \/ AcquireSlot(p, j)
    \/ HandlerRefuses(p, j)
    \/ HandlerDryRun(p, j)
    \/ HandlerRaises(p, j)
    \/ EversportsActs(p, j)
    \/ RecordAudit(p, j)
    \/ MarkSucceeded(p, j)
    \/ MarkSucceededRaises(p, j)
    \/ MarkFailedOrDead(p, j)
    \/ MarkFailedRaises(p, j)
    \/ NotifyFailure(p, j)

Next ==
    \/ \E p \in Proc, r \in Request : Enqueue(p, r) \/ CancelPending(p, r.location)
    \/ \E p \in Proc, j \in Job : Claim(p, j) \/ Step(p, j)
    \/ \E p \in Proc : ClaimBreaks(p) \/ Boot(p) \/ StopRequested(p) \/ Stopped(p) \/ Die(p)
    \/ \E j \in Job : RetryDelayElapses(j)

Spec == Init /\ [][Next]_vars

\* A process that is up keeps running its loop and its tasks, and clocks
\* advance.  The loop claims first thing after every boot, so restarts do not
\* excuse it (SF).  Clients, the admin, the deployer and the failures owe nothing.
Fairness ==
    /\ \A p \in Proc, j \in Job : SF_vars(Claim(p, j)) /\ WF_vars(Step(p, j))
    /\ \A p \in Proc : WF_vars(Boot(p)) /\ WF_vars(Stopped(p))
    /\ \A j \in Job : WF_vars(RetryDelayElapses(j))

FairSpec == Spec /\ Fairness

-----------------------------------------------------------------------------
(* Properties.                                                             *)

\* However claims, cancellations, shutdowns and failing commits interleave, at
\* most one task in the whole fleet executes a given row.
OneExecutor ==
    \A p, q \in Proc, j \in Job :
        task[p][j].pc \in Holding /\ task[q][j].pc \in Holding => p = q

\* The attempt_count a task was handed when it claimed its row is still the one
\* in the table when the task writes the outcome: no failed attempt is lost.
SnapshotFresh ==
    \A p \in Proc, j \in Job :
        task[p][j].pc \in Holding => task[p][j].snap = row[j].attempts

\* One idempotency key never causes more than MAX_ATTEMPTS actions in
\* Eversports, whatever is retried, cancelled, submitted again or crashed.
ActionsBounded ==
    /\ \A j \in Job : effects[j] <= MaxAttempts
    /\ \A i, j \in Job :
          i # j /\ effects[i] > 0 /\ effects[j] > 0
            => MakeKey(row[i].request) # MakeKey(row[j].request)

\* A row says succeeded only when the audit log has its line, even though the
\* line, the webhook and the row are written in three separate steps.
SucceededIsAudited ==
    \A j \in Job : row[j].status = "succeeded" => j \in audited

\* A dead row, cancelled by the admin included, stays dead and causes no action
\* in Eversports any more.
DeadIsInert ==
    [][\A j \in Job : row[j].status = "dead"
          => row'[j].status = "dead" /\ effects'[j] = effects[j]]_vars

Unattended(j) == \A p \in Proc : task[p][j].pc = "none"

\* A row whose task died is never taken up again: a crash or a failing commit
\* can lose an action, and never repeats one.
OrphansAreInert ==
    [][\A j \in Job : row[j].status = "running" /\ Unattended(j)
          => row'[j] = row[j] /\ effects'[j] = effects[j] /\ Unattended(j)']_vars

\* With no failure but those of the handler, the audit log and restarts in good
\* order, every queued job reaches an outcome.
JobSettles ==
    \A j \in Job : row[j].status = "queued" ~> row[j].status \in {"succeeded", "dead"}

\* Unless the process dies first, GHL hears of every row that died of its
\* handler's errors or of the safety guard, or the POST that would have told it
\* failed: the code's promise ends there, nobody sends it again.
ExhaustedIsReported ==
    \A j \in Job :
        row[j].status = "dead" /\ row[j].error \in {"handler", "safety"} /\ Unattended(j)
          => "failed" \in heard[j] \/ ("webhook" \in Faults /\ "failed" \in missed[j])

\* What GHL is told has grounds, although the success webhook is sent before the
\* audit entry and the row are written, and each of the three may fail: success
\* means that Eversports was changed, failure that the row is dead, and it is
\* sent once.  GHL hears both only of an action that the audit log has: the
\* update to succeeded raised after the webhook, and so did every later attempt.
ReportsAreGrounded ==
    \A j \in Job :
        /\ "success" \in heard[j] => effects[j] > 0
        /\ "failed" \in heard[j] \cup missed[j] => row[j].status = "dead"
        /\ "failed" \notin heard[j] \cap missed[j]
        /\ heard[j] = {"success", "failed"} => j \in audited

-----------------------------------------------------------------------------
(* The contract this queue keeps while a database error means that nothing *)
(* was committed: the state of a key is the state of the row that has it.  *)

Keys == {MakeKey(r) : r \in Request}

RowsOf(k) == {j \in Job : row[j].status # "absent" /\ MakeKey(row[j].request) = k}

OutcomeOf(status) ==
    CASE status = "succeeded" -> "done"
      [] status = "dead"      -> "abandoned"
      [] OTHER                -> "open"

Contract ==
    INSTANCE WritebackContract WITH
        Key     <- Keys,
        Bound   <- MaxAttempts,
        outcome <- [k \in Keys |-> IF RowsOf(k) = {} THEN "none"
                                   ELSE OutcomeOf(row[CHOOSE j \in RowsOf(k) : TRUE].status)],
        tries   <- [k \in Keys |-> IF RowsOf(k) = {} THEN 0
                                   ELSE effects[CHOOSE j \in RowsOf(k) : TRUE]]

\* Every step of the queue is a step of the contract or leaves it unchanged.
KeepsContract == Contract!ContractSpec

=============================================================================
