------------------------------ MODULE MCSyncRun ------------------------------
(***************************************************************************)
(* SyncRun with a few runs, cookie exports and token pairs.                *)
(***************************************************************************)
EXTENDS SyncRun, TLC

CONSTANTS r1, r2

MCTwoRuns == {r1, r2}

=============================================================================
