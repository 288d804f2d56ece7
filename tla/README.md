# A TLA+ verification of the Eversports / GoHighLevel connector

The connector copies a studio's bookings from Eversports into Postgres, pushes
what changed to GoHighLevel (GHL), answers messages that arrive through GHL, and
writes bookings back to Eversports. It is one Python program: FastAPI handlers,
an APScheduler and two worker loops share each server process; several processes
share one Postgres database; Eversports, GHL and the language model are reached
over the network. `app/` holds the program, `scripts/` the operator's tools,
`requirements_v2/`, `DEV_SPEC.md` and `HANDOFF.md` what it is meant to do.

This directory models that program in TLA+, checks the models with TLC on small
instances and proves what matters most with TLAPS.

## The system

| Part | State it keeps | Operations | What is hard about it | What makes it correct |
|---|---|---|---|---|
| Writeback queue: `app/writeback/`, `admin/writeback.py` | `writeback_jobs` rows, the audit log, actions done in Eversports | enqueue, cancel, claim, execute, mark, webhooks, boot, shutdown | two processes, several tasks each; a handler acts and then its row is written; retries | one executor per row; bounded actions per idempotency key; succeeded rows are audited; dead rows stay dead |
| Scheduler: `app/scheduler/`, `admin/scheduler.py` | `scheduler_jobs` rows, `historical_sync_flag` | three cron triggers, trigger endpoint, cancel, recovery, claim, execute, mark | check-then-insert; recovery by a booting process; two commits per job; clock and time zones | a job runs once; its row tells the truth; due jobs settle; no duplicates |
| Sync runner: `app/scrapers/`, `admin/sync.py` | a transaction around the whole run, its copy of the `locations` row, `sync_log` | fetch, ingest, push, flag, log | stale copy; everything lost on a late failure | runs end, are logged, do not push over each other |
| GHL client and OAuth: `app/ghl/client.py`, `admin/ghl_oauth.py` | `ghl_oauth_token_cache` | refresh, forced refresh, callback, status, revoke | rotating refresh tokens written by several sessions | the stored pair is the one GHL knows |
| Contact sync and delta engine: `app/ghl/sync.py`, `tags.py`, `pipelines.py`, `app/delta/` | `ghl_prev_state`, `ghl_tag_timestamps`, `ghl_contact_id`, the contact in GHL | compute delta, upsert, tags, moves, snapshot | GHL is not transactional; snapshot against live state; the 60 s guard | GHL converges to what the flags ask for |
| Ingest: `app/ingest/`, `admin/bootstrap.py` | contacts, bookings, sessions, `sync_log`, the flag | parse, classify, upsert, reset | overlapping exports in overlapping transactions; rows without email; an undo by run | what a file had is in the tables; every row names a logged run; bookings have their contact; transactions end |
| Consent: `app/consent/`, `admin/consent.py` | `consent_audit` rows, GHL fields | gate, record, tokens, STOP | fields in GHL, audit in Postgres | nothing is sent against a revocation |
| Inbound webhook and gatekeeper: `webhooks/ghl_inbound.py`, `app/gatekeeper/` | `gatekeeper_log` | classify, route, noise policy | order of the rules; redelivery | every STOP is honoured |
| AI budget: `app/ai/`, `gatekeeper/audit.py` | `ai_usage` rows, alert memory of each process | check, call, fall back, log, warn | check and log are far apart, perhaps in two months | the cap is passed by one call of each caller at most; the owner is not mailed again and again |
| Configuration, sessions, health, migrations, probe scripts | none that changes while the program runs | | | |

They interact through the database (the `locations` row is written by five of
them), through calls (`execute_job` calls `run_sync`, which calls
`run_bootstrap` and `sync_all_contacts_for_location`), and through GHL.
`PROJECT.json` lists the hazards of each part at their lines.

## Modules

| Module | Models | Role |
|---|---|---|
| `WritebackQueue` | executor loop, tasks, endpoints, safety guard, audit | component |
| `WritebackContract` | the promise for one idempotency key | abstract specification; `WritebackQueue` maps its rows to it |
| `WritebackQueueProofs`, `WritebackRefinement` | | theorems about `WritebackQueue`; that it implements `WritebackContract` |
| `SchedulerQueue` | orchestrator, cron, worker loop, endpoints | component |
| `SchedulerContract` | the promise for one scheduler job | abstract specification; `SchedulerQueue` maps its rows to it |
| `SyncRun` | sync runs of one location, token refresh, cookie import, OAuth endpoints | component; what happens inside a job of `SchedulerQueue` |
| `ContactFlags` | `compute_flags` and `compute_delta` | operators, no state |
| `ContactSync` | the push of contacts to GHL, call by call | component; what happens between a run's ingest and its commit in `SyncRun` |
| `InboundMessage` | webhook, gatekeeper, STOP, consent gate and endpoints | component |
| `Ingest` | `run_bootstrap` and `reset_bootstrap` as overlapping transactions | component; the inside of a run's ingest in `SyncRun`, and the two bootstrap endpoints |
| `AiBudget` | budget check, model call, usage row, warning | component; `InboundMessage`'s classification is one of its callers |
| `SchedulerQueueProofs`, `SyncRunProofs`, `ContactSyncProofs`, `InboundMessageProofs`, `IngestProofs`, `AiBudgetProofs` | | theorems about the component each is named for |
| `MC...` | constants for TLC | one per component |

A process that is up runs asyncio tasks that interleave at every await, so each
await is a step: the state of a coroutine is a `pc`, and what it read earlier is
kept beside it. A database transaction is one step when nothing else is awaited
inside it; a sync run's transaction is not, and its lock on the row is explicit.

### WritebackQueue

`row` is the table, `task[p][j]` the coroutine of process `p` for row `j`,
`snap` the attempt count `_claim_next_job` returned, `loop` the worker loop.
`Claim` is `_claim_next_job` with the `create_task` that follows it;
`AcquireSlot` is the semaphore; `HandlerRefuses`, `HandlerDryRun`,
`HandlerRaises` and `EversportsActs` are the handler's outcomes; `RecordAudit`
is the success webhook and `record_writeback`; `MarkSucceeded` and
`MarkFailedOrDead` are the final updates. `effects`, `audited`, `heard` and
`missed` record what happened outside the database: GHL hears a webhook, or the
POST is lost and `_fire_ghl_webhook` swallows the error ("webhook"), and the
task goes on either way (`Fire`). Each commit can fail ("database"), and its
answer can be lost after it took effect ("ambiguous").

Two things are wider than this commit: the live branch of each handler is still
a `NotImplementedError`, and the worker loop passes no webhook URLs. The
executor is written, and tested, for handlers that act and callers that give
URLs, and is checked for both.

### SchedulerQueue

`call[c]` is a session that enqueues (a cron job visiting location after
location, or a request): `CheckSlot` is one pass through `_job_exists`,
`CommitEnqueue` the commit. `SlotsOf` computes the slots as the orchestrator
does: 15 minutes after each class of the UTC day, the whole hour between 07:00
and 22:00 local, the next 03:00 local. `task[p][j]` is `execute_job`:
`SyncCommits` and `MarkJobComplete` are its two commits. `SchedulerContract` has
neither the table nor the processes: a job's `stage` is how far it has come, its
`verdict` what its row says of it. A recovery may give a wrong verdict, because it
cannot tell a dead task from a live one; the contract says what remains true.
A commit may take effect and its answer be lost ("ambiguous"): the sync's then
raises into the except branch, and the job is marked failed with an error though
its location was synced. `unheard` remembers the jobs whose commit went that way;
a claim answered like this leaves the loop broken and the row running.

### SyncRun

`location` is the committed row, `run[r]` a run with its copy of the row, `lock`
the run whose transaction has updated the row, `ghl` the OAuth server (pairs
issued, near expiry, revoked). GHL gives a new refresh token with each refresh
and forgets the old one; the client stores whatever it is given
(`_refresh_token`). `lost` is the pair issued last when its transaction failed.
`grants` are the pairs that OAuth callbacks have exchanged a code for and not
yet stored: nothing keeps callbacks apart (`CallbackExchanges`), so there may be
several, and they commit in any order (`CallbackStores`). `overtaken` remembers
the pairs, those under way and the stored one if it is such, that a later
exchange has overtaken. Nothing writes `cookie_state = 'expired'`: the only code
that would is reached from `new_page`, which no run calls.

### ContactFlags and ContactSync

`ContactFlags` writes the tags, stages and fields a contact should have as
operators on the facts `compute_flags` reads: dates become the side of a
threshold, products their class. `ContactSync` runs one push at a time
(`PushesSerialised` in `SyncRun` is why that is enough). `row` is the committed
contact with its snapshot, `txn` the same as the open transaction sees it,
`push` the batch, `ghl` the contacts in GHL. `Visit` is `compute_delta`;
`UpsertContact`, `UpdateContact`, `AddTags`, `RemoveTags` and `MovePipeline` are
the calls in their order; `Record` builds the snapshot, `Commit` and `Abort` end
the transaction. Each call can be refused, or take effect and lose its answer.
`unsure` remembers which facts a push that did not end well may have left in GHL.
`known` are the pipelines and the custom fields the sub-account has. What it lacks
is left out of the call (`Pushed`, `SetStage`) and recorded as pushed all the same
(`Record`); `skipped` remembers, for the properties, which ones.

### InboundMessage

One customer. `handler[m]` is the request that handles a message: `Receive`,
`Classify` (any category, sure or not: the language model is owed nothing),
`CommitDecision`, `HandleStop` with `RecordRevocation`, or `StopRaises`.
`Answer200` delivers the answer; `CarryOut` is the GHL workflow that takes its
actions one by one in their order. Consent lives in GHL (`ghl`), so a sending
workflow (`send`) reads it, asks `ConsentGate`, and sends later. A request that
failed, or whose answer was lost, may be delivered again. Tokens and signatures
only reject requests, which then change nothing; keyword matching is the Boolean
`stop`. Three categories suffice for the instance, since routing only asks which
class a category is in.

### Ingest

`db` has the committed rows, keyed by what a unique index lets one row have (a
*place*), `new` the same with what open transactions have written, `writer` who
wrote it. `run[r]` is one call of `run_bootstrap`: `at` is how many rows of its
files it has done, `ids` is `email_to_contact_id`. `UpsertContact` is one pass
of step 2b's first loop, `InsertBooking`, `RecordNoShow` and `InsertSession` the
rows of the three files in their order, `LogAndFlag` steps 7 and 8; `Commit` and
`RunRollsBack` are the caller's, the endpoint or a sync run. `reset[q]` is one
`POST /bootstrap/reset`: `ReadLast`, then `DeleteRow` row by row through
bookings, contacts, sessions and the log, then `FinishReset`.

The database is Postgres at READ COMMITTED. A writer waits for the transaction
that has written the same place; `ON CONFLICT` decides only once that has ended;
`DO NOTHING` then takes no lock; `UPDATE` and `DELETE` pass over what they do not
see. `Victim` is the deadlock detector. The branches for SQLite serve the tests
and are left out. A row or file that does not parse is one that is not there
(`run_bootstrap` swallows both). A contact's many columns are stood for by `by`,
its `bootstrap_run_id`, which the upsert sets with them. People without an address
have a contact each, and one booking place between them for each class
(`BookingPlace`), as `_synthesise_booking_id` has it.

### AiBudget

`call[c]` is one call: `Begin` (or `Refuse`) is `check_budget` with
`assert_budget_available`, then the model is awaited; `FallBack` is the second
model of `AnthropicClient.complete`; `Answer` is the answer with `log_ai_usage`,
whose `ts` decides the month; `Record` is the caller's commit; `Lose` is every
way in which nothing is recorded. `monitor[w]` is a `check_budget` followed by
`maybe_send_soft_cap_warning` in one process: `warned` is `_soft_cap_warned`,
compared in `Warn` and written in `MailSent`, with the mail awaited between
them. `mails` counts the warnings reported as sent, by month. A budget of 0 has
no cap.

This is wider than the commit: of the callers only the gatekeeper's classifier
exists, and it asks nobody. The others are the call sites `budget.py` describes
in its docstring; so far only its tests call it.

## Runs

| Run | Question | Instance |
|---|---|---|
| `writeback_faults` | safety under every fault, what GHL is told included | 2 processes, 2 keys, 2 rows, 2 attempts, semaphore 1, webhooks on, dev dry-run and prod live deployments |
| `writeback_live` | settling, is GHL told of what died, refinement of `WritebackContract` | 2 processes, 2 rows, 2 attempts; a malformed payload, and two payloads with one key; audit failures and lost webhooks |
| `scheduler_faults` | safety under crashes, database errors, lost answers to commits, cancellation; refinement of `SchedulerContract` | 2 processes with a cron job each, 2 rows, overlapping class ends |
| `scheduler_settles` | how many duplicates a race can make; liveness with crashes | 1 process, its cron job and the admin, 3 rows |
| `sync_faults` | safety and liveness of concurrent runs and OAuth callbacks | 2 runs, 3 token pairs, callbacks at once, every fault |
| `sync_expiry` | violated: an expired session is recorded | 2 runs |
| `sync_logged` | violated: a failed run leaves a `sync_log` row | 2 runs |
| `contact_faults` | does a repeated push heal a failed one; tag guard; markers; no double contacts | 1 contact, 3 sets of facts, a missing pipeline and a missing field, every fault |
| `inbound_faults` | STOP against opt-ins, sends and redelivery; routing of sensitive messages | 2 deliveries (two messages, or one twice), 1 send, 3 settings of the location, every fault |
| `inbound_stop` | violated: every STOP is recorded | 1 message, no faults |
| `ingest_faults` | is what is left in the tables logged, owned and complete; do deadlocks resolve | 2 runs, 2 resets, 3 exports of 4 people (two without address, on one class) and 2 classes (one without trainer), every fault |
| `ai_budget` | by how much the cap is passed; how often the owner is warned | 2 callers, 2 warnings at once, 2 months, a budget of 5 and calls of 1 or 2, every fault |

Bounds. Two processes and two rows are enough for every race between a row's
executors, since no action relates three rows except the order of claims; two
attempts let a row fail, wait, and die; a semaphore of one makes tasks wait.
`MaxJobs`, `MaxTokens` and `MaxCookies` bound unbounded counters: past them the
action that would exceed them is disabled, which the liveness properties do not
depend on. The clock of `SchedulerQueue` stops only at the instants that matter
for the instance. Runs of `WritebackQueue` and `SyncRun` do not check deadlock:
when every row is used and settled, or every run has ended, nothing is left to
do. Nor does `Ingest`'s: when every transaction has ended, nothing is left. The
other models check it.

One contact is enough for TLC in `ContactSync`: contacts share nothing but the
end of the batch and the commit, and both happen at every point of a contact's
push. Its facts are ones `run_bootstrap` can write (expiry, sessions remaining
and sessions per week are always NULL); `MaxId` 2 leaves room for a second GHL
contact; the pipeline for cards and the field with the package are missing until
the studio sets them up, between any two pushes. In `InboundMessage` the two
messages are interchangeable (symmetry; no liveness is checked there), and two
deliveries give both two racing messages and a repeated one.

The three exports of `Ingest` hold what two transactions can dispute: the same two
people in opposite orders (two runs deadlock on contacts), one booking with
different attendance, a class both files have, one that has no trainer and so
never conflicts, and two people without an address who are new contacts in every
run and share a booking id. With two runs
and two resets one transaction can commit, another take its rows over, a third
delete them and a fourth wait. In `AiBudget` the budget is less than three of the
dearest calls, so that the cap is met in the middle of a call; two months are
enough for a call or a mail to cross the boundary. `Essential` bounds the calls
that no cap stops; callers and warnings are interchangeable (symmetry; no
liveness is checked there).

`RunsEnd` is stated as one formula over all runs (at last none is active for ever):
each run of the model starts once, so this says of every run what a response
property per run would, and one formula keeps the check short.

Fairness. The event loop runs what is runnable (WF on each task step); a worker
loop that is up claims (SF on `Claim`, because restarts disable it again and
again); platforms start processes again (WF on `Boot`); clocks advance. Clients,
the admin, the deployer, crashes and errors are owed nothing. In `SyncRun` a
started run goes on, Postgres serves waiting transactions (SF on `Persist`), and
a push ends because contacts are finitely many (SF on `PushDone`). In `Ingest` a
transaction that has begun and waits for nobody goes on, and Postgres finds
deadlocks (WF on `Goes`); nobody owes it a rollback.

## Where code and documents disagree

Three runs are expected to find a violation: each checks a sentence of a
docstring, and `PROJECT.json` quotes it with its line. `ExpiryRecorded`: a
refused session leaves `cookie_state` at `ok`, so the cron jobs go on enqueuing
runs that cannot succeed. `FailureLogged`: the error row is rolled back with the
run it reports. `EveryStopRecorded`: `consent_audit` knows three channels, and a
STOP on any other raises before anything is recorded or answered.

Further disagreements that the models reproduce and no run is spent on:

- `admin/writeback.py:205` answers 409 "if a non-dead job" has the key; the unique
  index refuses the key of a dead or cancelled row too (`KeyTaken`).
- `executor.py:32` sends the failure webhook "on dead"; after an `AuditError` none
  is sent (`MarkFailedOrDead`).
- `orchestrator.py:23` calls repeated enqueuing safe; two sessions can both pass
  `_job_exists` and insert. `DuplicatesBounded` says how far this goes.
- `07_foundation_layer.md:936` reserves the flag `complete` for a finished
  backfill; `run_bootstrap` sets it in every run (`SyncCommits`).
- `client.py:16` refreshes tokens "automatically"; a run refreshes with the token
  it read at its start, and fails when another has rotated it (`RefreshRefused`).
- `worker.py:17` marks a job failed on "any other exception"; one is the lost answer
  to a commit that took effect, and the job of a synced location then reads failed
  (`SyncRaises`). `OutcomeIsTrue` and the contract count it by what the task heard.
- `ghl_oauth.py:183` exchanges the code and "stores" the tokens; of two callbacks
  that are under way at once the one with the older pair may store last, and the
  row then has a pair GHL has replaced (`CallbackStores`). `TokenCurrent` and
  `TokenForward` except such pairs, and only them.
- `sync.py:177` puts "all current custom field values" into the snapshot, also of
  fields whose key the sub-account lacks, which `client.py:276` skips with a warning:
  no later push sets them, even when the studio registers the key. A skipped pipeline
  move goes the same way (`NewSkipped`, `Skipped`). A changed value is pushed again.
- `_synthesise_booking_id` gives all bookings without an address on one class one id:
  the second person's is dropped by `ON CONFLICT DO NOTHING`, in one upload or in
  two, and no row or count tells (`InsertBooking`). `FilesKept` vouches for the
  bookings of people with an address, and for the class having one of the others.
- `03_ghl_pipelines.md:52` calls the Converted stages terminal; a contact whose
  trial leaves the 30 day window is moved back (`LeadStage`).
- `_determine_active_package` ignores the location's keyword map, which
  `compute_flags` uses, so the two can class one product differently.
- `07_foundation_layer.md:376` touches "only new/changed rows"; a booking that
  exists is never refreshed (`on_conflict_do_nothing`), and `admin/bootstrap.py:64`
  promises "zero new rows" where contacts without email are inserted again.
- `worker.py:64` recovers jobs of a process "that died"; a process that boots fails
  the running jobs of a live one too (`Recovered`).
- `flags.py:263` must check "the live GHL state"; the tags that decide about the
  stage Lost are those of the last snapshot, where a workflow's tag never is.
- `ingest/bootstrap.py:27` has a reset "precisely undo a run"; it deletes contacts that
  were there before the run and were only updated by it, whose older bookings then
  point nowhere, and it cannot bring back what the run changed (`DeleteRow`). The
  last run is the one whose transaction began last, not the one that committed last
  (`Last`), and the flag goes to `pending` though older runs are still logged
  (`FinishReset`).
- `admin/bootstrap.py:132` names a flag value `bootstrapped`, which nothing writes.
- `budget.py:58` sends "at most one email" per month; the month is noted after the
  mail was awaited, so `MailsBounded` allows n(n + 1)/2 of n concurrent senders,
  and a mail that SMTP accepted before it raised is sent again. A status of the old
  month that is warned in the new one takes the new month's warning (`Warn`).
- `budget.py:234` refuses at 100 %; `Overshoot` says by how much calls that are
  under way together pass it. What was billed and not recorded (a primary that
  answered and then raised, an answer the classifier cannot parse, a rollback) is
  not counted at all (`Lose`, `FallBack`).
- `ai/client.py:194` disables the fallback for `None`; `None` means the default model.
- `admin/consent.py:19`: the preference centre "calls GHL to update fields"; it
  only writes rows (`UpdatePreferenceCentre`), so it cannot reverse an opt-out as
  `08_consent_model.md:145` says: the tag stays and the gate denies.
- `ghl_inbound.py:135` has the message id "for dedup"; nothing reads it.
- `gate.py:123`: "Never raises"; a denial on a social channel would, in `_insert`.
  The endpoint admits only the three audited channels.
- A voice message that is not a STOP is refused by the constraint on
  `gatekeeper_log` and answered 500, also when the model saw an opt-out
  (`CommitDecision`).
- `router.py:88`: an opt-out must "never merely page the owner"; below the
  confidence threshold it does (`Effective`).

## Proofs

`WritebackQueueProofs` proves, for any set of requests and processes and any
bounds, the safety properties `writeback_faults` checks, for every fault. The
inductive invariant `IInv` says, besides `TypeOK`: a row that some task holds is
running, held by no other, and its attempt count is the task's snapshot
(`HeldRow`); actions are paid for by attempts, the current one included
(`Ledger`); a queued row has not acted (`NotYetActed`); no two rows have one key
(`OneRowPerKey`). Neither exclusion nor the bound on actions is inductive alone:
exclusion needs that only rows that are not running are claimed, the bound needs
exclusion for the snapshot to be fresh. The proof first shows what each step may
do to one row (`NextMoves`), and derives the invariants and the action
properties from that. The assumptions are those of `WritebackAssumption`.

Two invariants on top of `IInv` give the webhook properties of the two runs.
`Told` follows what GHL heard of a row, or missed, beside where its task is: no
success before the handler has acted, no failure before the row is dead, and
nothing after. `ReportsGrounded` is proved for every fault. GHL can hear both
success and failure of one action: a success webhook is sent, the final update
raises, and the row is dead and reported so in the end. The theorem says that
this takes exactly that, an action whose audit line was written. `Heard` says
that a dead row is reported, its POST was lost, or its task is about to report
it. `FailureHeard` admits refused statements and lost POSTs, but no crash and no
lost answer to a commit: the one loses the task that would report, the other
leaves a dead row whose task does not know. Where a POST is lost it promises no
more than that it was sent once, which is all the code does (`_fire_ghl_webhook`
logs the error and nobody retries).

`WritebackRefinement` proves that the queue implements `WritebackContract`
(`Implements`), under one more assumption: `"ambiguous"` is not among the faults.
A commit whose answer is lost lets a row that says succeeded be written dead,
which the contract forbids, and TLC finds that at once when the fault is
admitted. What `IInv` lacks for it is `NoLie`: a task in its except branch still
has a running row. `RowStep` and `SameView` say what a step on one row does to
the state of its key, and each action is then an `Ask`, a `Try`, a `Settle`, an
`AbandonMany` or a stutter.

`SchedulerQueueProofs` proves the five safety properties of `scheduler_faults`,
and the one of `scheduler_settles`, for any rows, processes, locations and class
schedules. A row's invariant has three parts. `Held`: one task at most works on
a row, and the row is running unless a recovery has failed it under the task.
`Started`: a row that is pending or whose task waits has not run. `Outcome`:
what row and task say of the run's commit, where a commit whose answer was lost
(`unheard`) counts as what the task heard, a failure. `RunsOnce` needs the first
two, since only a pending row is claimed and a recovered one, though settled,
may still have a task; `OutcomeIsTrue` needs the third, because
`_mark_job_complete` writes whatever the row says by then. `DuplicatesBounded`
is counted (`Counted`): the live jobs of a slot and the sessions about to add
one are together no more than there are sessions, because a session that finds a
live job adds none, and one that finds none counts for itself. A commit turns
sessions into jobs, one for one, since a transaction has a slot only once
(`PlanSound`). `FewDuplicates` assumes one server process: a second one that
boots fails a running job, a new one is enqueued in its place, and the first job
is live again when its task marks it done (TLC finds it with two). `Implements`
maps a job's stage to its runs where it has any and to its row where it has
none; a second run would have no stage. Each action is then a step of the
contract for the jobs it moves, or a stutter: `Claim` a `Take`, `StartSync` a
`Begin`, `SyncCommits` an `Accomplish`, a commit without an answer the step to
the stage "unheard", which only the verdict of a failed run follows,
`MarkJobComplete` a `Judge`, `RecoverStuckJobs` a `GiveUpMany`. That a cancelled
row never runs, which no run checks by itself, is both part of the contract and
a theorem (`Cancelled`).

`SyncRunProofs` proves the three safety properties of `sync_faults` for any runs,
callbacks and token pairs. `RunOK` ties the lock to the part of a run that writes.
Token pairs are numbered by issue; `Ages` says that what a run is about to write is
newer than the row, `GrantIsNewest` that of the callbacks under way those nobody has
overtaken have the newest pair of all, and `CurrentIsKept` that the pair GHL accepts
is in the row, on its way there, or lost, and that what could be written over it was
overtaken. `TokenCurrent` is what is left of the last when nobody writes.

`ContactSyncProofs` proves the four properties of `contact_faults` for any
contacts and any subset of the facts. `Books` keeps the open transaction and
the batch in step with the table; `Links` gives each linked row a GHL contact of
its own and a timestamp for every tag that its snapshot has and GHL got within
60 s; `Guarded` says the removals in hand spare both the markers and the fresh
tags. The snapshot is why the guard holds after a crash: a tag without a
timestamp is in no committed snapshot, so no push wants to remove it.

`RepeatHeals` says nothing of a push under way, and a failed push can leave
anything its calls had reached. Its second invariant, `Agree`, states what holds
in between. `Explains`: wherever GHL and a snapshot differ, the difference was
asked for by facts that are still owed, those in doubt or those of a push the
batch has begun; the table and the transaction owe different ones. It leaves out
the stages and fields in `skipped`, and `NewSkipped` is where a field enters or
leaves that set: with the snapshot that records it, set in GHL or not. `Phases`:
what the push at hand has done by now, call by call. `Sound`: a tag with a
timestamp is in GHL, so that a removal the guard puts off is not recorded as
made. `Ended`: what a push recorded, with which a commit settles a doubt about
the same facts (`NothingDue`). A call moves GHL towards the facts at hand only
(`Serves`), and `ThenExplained` composes that with what was explained before;
`RecordExplained` is the heart: once all calls have returned, the new snapshot
needs those facts no more. `Heals` is `Agree` between two batches. `Owes` is
`Explains` at all times, and `Settles` says that a push that ended would find
nothing to do on the same facts but removals put off by the guard.

`InboundMessageProofs` proves the three properties of `inbound_faults` for any
messages, deliveries, sends and settings. `HandlersOK` says how far a request
may be while a STOP is unrecorded and which parts of an answer can be left;
`SendsOK` says a workflow that got leave read tags and fields the gate allows;
`RowsOK` says the same of a logged route; `ToldTagged` says the tag precedes the
confirmation. `ToldIsFinal` needs all of the order in which an answer is carried
out.

`IngestProofs` proves the four safety properties of `ingest_faults` for any
people, classes, uploads, runs and resets. The invariant has one part per place
(`PlaceOK`: a written row has an open writer and bears its id or the one it had;
a contact keeps its id, a booking has that of its person's contact) and one per
run (`RunOK`: the ids a run holds are those of contacts it has written).
`DeletedWithRows`, that a reset takes the log row after the rows that name it,
is what `Traceable` lacks. `Kept` does the same for `FilesKept`: a row that a
run skipped, because `DO NOTHING` found it, was already committed, so the
rollback of whoever inserted it is past (`FilesThere`). That the booking of
somebody with an address is theirs, and not just some row at its place, follows
from `BookingsOwned` and from the contact having one place (`FilesOwned`); for
people without an address there is no such step, since their place is shared.
Each step writes one place or ends one transaction, and `PlaceStands` and
`OthersKept` carry the invariant over everything the step leaves alone.

`AiBudgetProofs` proves the three safety properties of `ai_budget` for any
callers, warnings, budget, costs and months. `SpendOK` counts, for each month,
the dearest cost for every non-essential call under way that may yet land in it
(`Within`): a call may begin only below the budget, and a recorded cost replaces
its caller's share. `MailsOK` is the potential behind n(n + 1)/2: a mail of a
month that has not been noted uses up a sender, and a late note of an older
month gives back fewer senders each time.

The assumptions of each are the `ASSUME`s of its component: finite bounds, and
constants within the types the code gives them.

Model-checked only: liveness (`JobSettles`, `DueJobSettles`, `RunsEnd`,
`TransactionsEnd`), which needs fairness and `ENABLED`, and the three violations.
Every safety property of the other runs has its theorem.

## Plan

A composition of `Ingest` with `ContactSync`, where a reset deletes a contact while
its push is under way.

Two gaps that no property covers, because the code promises nothing there: a
database error in a claim ends the worker loop until the process restarts
(`ClaimBreaks`), and a process that is down at 06:00 UTC enqueues none of that
day's event-driven jobs (the cron trigger does not catch up).

Not modelled: CSV and phone formats, HTML and prompts, the language model's
choices beyond their range, health and listing endpoints, migrations, and the
probe scripts; staff who edit GHL by hand, lead forms that create contacts there,
and the client's back-off on 429.
