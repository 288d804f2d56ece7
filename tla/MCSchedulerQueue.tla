-------------------------- MODULE MCSchedulerQueue --------------------------
(* Small instances of SchedulerQueue for TLC.                              *)
EXTENDS SchedulerQueue, TLC

CONSTANTS l1, p1, p2

Admin(p) == [proc |-> p, source |-> "admin"]
Cron(p, type) == [proc |-> p, source |-> type]

\* Overlapping requests in one process; cron jobs of two processes.
MCAdminAndCron == {Admin(p1), Cron(p1, "hourly_catchup")}
MCTwoCrons == {Cron(p1, "hourly_catchup"), Cron(p2, "event_driven")}

MCNoClasses == (l1 :> {})

\* Classes ending at 05:45, 05:49 and 05:51 UTC: the slots 06:00, 06:04 and
\* 06:06 fall into overlapping buckets.
MCClasses == (l1 :> {345, 349, 351})

\* Local time is one hour ahead of UTC: 06:00 UTC opens the catch-up window.
MCOffset == (l1 :> 60)

=============================================================================
