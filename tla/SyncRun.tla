------------------------------- MODULE SyncRun -------------------------------
(***************************************************************************)
(* Sync runs of one location (app/scrapers/sync_runner.py) and everybody   *)
(* else who writes its row in the locations table: the operator importing  *)
(* cookies (scripts/import_cookies.py), the OAuth endpoints                *)
(* (app/api/v1/admin/ghl_oauth.py), and the GHL client of each run         *)
(* refreshing its token (app/ghl/client.py).                               *)
(*                                                                         *)
(* A run is one database transaction around many network calls: it reads   *)
(* the location once, at its start, keeps that copy to its end, and writes *)
(* what it learned when it commits, if it commits.                         *)
(***************************************************************************)
EXTENDS Naturals, FiniteSets

CONSTANTS Run,         \* sync runs, from the worker or from POST /sync
          MaxCookies,  \* bound: cookie exports
          MaxTokens,   \* bound: token pairs GHL issues
          Faults       \* which failures of the environment may happen

ASSUME SyncAssumption ==
    /\ MaxCookies \in Nat
    /\ MaxTokens \in Nat
    /\ Faults \subseteq {"crash", "database", "timeout", "uninstall"}

Cookies == 0..MaxCookies   \* which export is in the column; 0 is NULL
Token == 0..MaxTokens      \* which token pair is in the column; 0 is NULL

VARIABLES location,   \* the committed row
          lock,       \* the run whose transaction has updated the row, or none
          run,        \* what each run is doing
          logged,     \* runs with a committed sync_log row
          eversports, \* the cookies Eversports accepts, if any
          ghl,        \* the OAuth server: last pair issued, pairs near expiry
          grants,     \* pairs that callbacks have obtained and not yet stored
          overtaken,  \* history: pairs in a callback's hands when another got a newer one
          lost        \* the pair GHL issued last, if whoever got it could not store it

vars == <<location, lock, run, logged, eversports, ghl, grants, overtaken, lost>>

None == "none"
ASSUME RunIsNotNone == None \notin Run

Active == {"fetching", "fetched", "pushing", "refreshing", "finishing"}
Ended == {"committed", "rolled_back", "expired", "skipped", "died"}

\* cookies and token are the run's copy of the row; wrote is the token its
\* transaction has written, if any; log says that it has added a
\* sync_log row.
RunState == [pc : {"idle"} \cup Active \cup Ended, cookies : Cookies, token : Token,
             wrote : Token, log : BOOLEAN]

TypeOK ==
    /\ location \in [state : {"unset", "ok", "expired"}, cookies : Cookies, token : Token]
    /\ lock \in Run \cup {None}
    /\ run \in [Run -> RunState]
    /\ logged \subseteq Run
    /\ eversports \in Cookies
    /\ ghl \in [issued : Token, current : Token, old : SUBSET Token, revoked : SUBSET Token]
    /\ grants \subseteq Token
    /\ overtaken \subseteq Token
    /\ lost \subseteq Token

Init ==
    /\ location = [state |-> "unset", cookies |-> 0, token |-> 0]
    /\ lock = None
    /\ run = [r \in Run |-> [pc |-> "idle", cookies |-> 0, token |-> 0, wrote |-> 0,
                             log |-> FALSE]]
    /\ logged = {}
    /\ eversports = 0
    /\ ghl = [issued |-> 0, current |-> 0, old |-> {}, revoked |-> {}]
    /\ grants = {}
    /\ overtaken = {}
    /\ lost = {}

-----------------------------------------------------------------------------
(* run_sync.                                                               *)

\* The caller closes the session, and the run's copy of the row is gone.
\* (Which cookies it was is kept for an expired session alone.)
Closed(r, end) == [run[r] EXCEPT !.pc = end, !.token = 0, !.wrote = 0,
                                 !.cookies = IF end = "expired" THEN @ ELSE 0]

\* Step 1: read the row.  A location that is not onboarded is skipped, and the
\* caller commits an empty transaction.  Nothing in this module writes state
\* "expired": EversportsBaseScraper._expire_and_raise, which would, is reached
\* only from new_page, and no run opens a page.
Start(r) ==
    /\ run[r].pc = "idle"
    /\ run' = [run EXCEPT ![r] =
          IF location.state = "unset" \/ location.cookies = 0 THEN Closed(r, "skipped")
          ELSE [@ EXCEPT !.pc = IF location.state = "expired" THEN "expired" ELSE "fetching",
                         !.cookies = location.cookies,
                         !.token = IF location.state = "expired" THEN 0 ELSE location.token]]
    /\ UNCHANGED <<location, lock, logged, eversports, ghl, grants, overtaken, lost>>

\* Steps 2-4: facility id, bookings, activities.  AdminApiClient._check_session
\* raises SessionExpiredError when Eversports refuses the cookies.
SessionRefused(r) ==
    /\ run[r].pc = "fetching"
    /\ run[r].cookies # eversports
    /\ run' = [run EXCEPT ![r] = Closed(r, "expired")]
    /\ UNCHANGED <<location, lock, logged, eversports, ghl, grants, overtaken, lost>>

\* The facility lookup or the bookings download fails: an error row is added to
\* the session, RuntimeError is raised, and the caller rolls the session back.
FetchFails(r) ==
    /\ run[r].pc = "fetching"
    /\ run' = [run EXCEPT ![r] = [Closed(r, "rolled_back") EXCEPT !.log = TRUE]]
    /\ UNCHANGED <<location, lock, logged, eversports, ghl, grants, overtaken, lost>>

Fetch(r) ==
    /\ run[r].pc = "fetching"
    /\ run[r].cookies = eversports
    /\ run' = [run EXCEPT ![r].pc = "fetched"]
    /\ UNCHANGED <<location, lock, logged, eversports, ghl, grants, overtaken, lost>>

\* Mutant: the transaction does not wait for the row.
PersistUnlocked(r) ==
    /\ run[r].pc = "fetched"
    /\ lock' = r
    /\ run' = [run EXCEPT ![r].pc = IF run[r].token = 0 THEN "finishing" ELSE "pushing"]
    /\ UNCHANGED <<location, logged, eversports, ghl, grants, overtaken, lost>>

\* Steps 5 and 6: run_bootstrap updates the row (and the contacts before it), so
\* the transaction waits for any other that has, and holds it to its end.
\* _mark_ok changes nothing here: a run gets this far only from state "ok".
Persist(r) ==
    /\ run[r].pc = "fetched"
    /\ lock = None
    /\ lock' = r
    /\ run' = [run EXCEPT ![r].pc = IF run[r].token = 0 THEN "finishing" ELSE "pushing"]
    /\ UNCHANGED <<location, logged, eversports, ghl, grants, overtaken, lost>>

-----------------------------------------------------------------------------
(* Step 7: the GHL push, as far as tokens go (GhlClient._request).         *)

\* _get_access_token finds fewer than five minutes left.
NeedsRefresh(r) ==
    /\ run[r].pc = "pushing"
    /\ run[r].token \in ghl.old
    /\ run' = [run EXCEPT ![r].pc = "refreshing"]
    /\ UNCHANGED <<location, lock, logged, eversports, ghl, grants, overtaken, lost>>

\* 401 on a first attempt: a forced refresh, whatever expires_at says.
RequestRefused(r) ==
    /\ run[r].pc = "pushing"
    /\ run[r].token \in ghl.revoked
    /\ run' = [run EXCEPT ![r].pc = "refreshing"]
    /\ UNCHANGED <<location, lock, logged, eversports, ghl, grants, overtaken, lost>>

\* No contact has anything (more) to push; failures of single contacts are only
\* counted.
PushDone(r) ==
    /\ run[r].pc = "pushing"
    /\ run' = [run EXCEPT ![r].pc = "finishing"]
    /\ UNCHANGED <<location, lock, logged, eversports, ghl, grants, overtaken, lost>>

\* The OAuth server (external) issues a new pair and forgets the old one; the
\* answer arrives or not.
Issue(S, arrives) ==
    /\ ghl.issued < MaxTokens
    /\ lost' = IF arrives THEN {} ELSE {ghl.issued + 1}
    /\ ghl' = [ghl EXCEPT !.issued = @ + 1, !.current = ghl.issued + 1, !.old = @ \cup S]

\* Mutant: the new pair is used and not written back.
RefreshNotPersisted(r) ==
    /\ run[r].pc = "refreshing"
    /\ run[r].token = ghl.current
    /\ Issue({run[r].token}, TRUE)
    /\ run' = [run EXCEPT ![r].pc = "pushing", ![r].token = ghl.issued + 1]
    /\ UNCHANGED <<location, lock, logged, eversports, grants, overtaken>>

\* _refresh_token and _persist_token_cache: the pair goes into the transaction
\* and into the run's copy of the row.
Refresh(r) ==
    /\ run[r].pc = "refreshing"
    /\ run[r].token = ghl.current
    /\ Issue({run[r].token}, TRUE)
    /\ run' = [run EXCEPT ![r].pc = "pushing", ![r].token = ghl.issued + 1,
                          ![r].wrote = ghl.issued + 1]
    /\ UNCHANGED <<location, lock, logged, eversports, grants, overtaken>>

\* The answer is lost: an httpx error, counted against the contact at hand, or
\* the end of the push when no contact is.
RefreshTimesOut(r) ==
    /\ "timeout" \in Faults
    /\ run[r].pc = "refreshing"
    /\ IF run[r].token = ghl.current
       THEN Issue({run[r].token}, FALSE)
       ELSE UNCHANGED <<ghl, lost>>
    /\ \E pc \in {"pushing", "finishing"} :
          run' = [run EXCEPT ![r].pc = pc]
    /\ UNCHANGED <<location, lock, logged, eversports, grants, overtaken>>

\* GhlAuthError: the refresh token is not, or no longer, the one GHL knows.
RefreshRefused(r) ==
    /\ run[r].pc = "refreshing"
    /\ run[r].token # ghl.current
    /\ run' = [run EXCEPT ![r].pc = "finishing"]
    /\ UNCHANGED <<location, lock, logged, eversports, ghl, grants, overtaken, lost>>

-----------------------------------------------------------------------------
(* The end of a run.                                                       *)

\* Mutant: the session of a failed run is not closed.
UnlockOnCommit(r) == lock' = IF lock = r /\ run[r].pc = "finishing" THEN None ELSE lock

\* The end of a transaction releases the row.
Unlock(r) == lock' = IF lock = r THEN None ELSE lock

\* Mutant: the whole row is written back from the run's copy.
CommitWholeRow(r) ==
    /\ run[r].pc = "finishing"
    /\ run' = [run EXCEPT ![r] = [Closed(r, "committed") EXCEPT !.log = TRUE]]
    /\ location' = [location EXCEPT !.token = run[r].token]
    /\ logged' = logged \cup {r}
    /\ Unlock(r)
    /\ UNCHANGED <<eversports, ghl, grants, overtaken, lost>>

\* The success row of sync_log, then the caller's commit.
Commit(r) ==
    /\ run[r].pc = "finishing"
    /\ run' = [run EXCEPT ![r] = [Closed(r, "committed") EXCEPT !.log = TRUE]]
    /\ location' = [location EXCEPT !.token = IF run[r].wrote # 0 THEN run[r].wrote ELSE @]
    /\ logged' = logged \cup {r}
    /\ Unlock(r)
    /\ UNCHANGED <<eversports, ghl, grants, overtaken, lost>>

\* A statement or the commit raises: everything is rolled back.
DatabaseFails(r) ==
    /\ "database" \in Faults
    /\ run[r].pc \in {"fetched", "pushing", "finishing"}
    /\ run' = [run EXCEPT ![r] = Closed(r, "rolled_back")]
    /\ Unlock(r)
    /\ lost' = lost \cup (({run[r].wrote} \cap {ghl.current}) \ {0})
    /\ UNCHANGED <<location, logged, eversports, ghl, grants, overtaken>>

\* The process dies; the server rolls its transaction back.
Die(r) ==
    /\ "crash" \in Faults
    /\ run[r].pc \in Active
    /\ run' = [run EXCEPT ![r] = Closed(r, "died")]
    /\ Unlock(r)
    /\ lost' = lost \cup (({run[r].wrote} \cap {ghl.current}) \ {0})
    /\ UNCHANGED <<location, logged, eversports, ghl, grants, overtaken>>

-----------------------------------------------------------------------------
(* The others who write the row, each in a transaction of one statement.   *)

\* Mutant: the import sets a state nobody asks for.
ImportCookiesMisspelt ==
    /\ lock = None
    /\ location.cookies < MaxCookies
    /\ eversports' = location.cookies + 1
    /\ location' = [location EXCEPT !.cookies = @ + 1, !.state = "valid"]
    /\ UNCHANGED <<lock, run, logged, ghl, grants, overtaken, lost>>

\* The operator logs in, exports the cookies and imports them.
ImportCookies ==
    /\ lock = None
    /\ location.cookies < MaxCookies
    /\ eversports' = location.cookies + 1
    /\ location' = [location EXCEPT !.cookies = @ + 1, !.state = "ok"]
    /\ UNCHANGED <<lock, run, logged, ghl, grants, overtaken, lost>>

\* GET /oauth/ghl/callback: exchange the code, then store the pair.  Any number
\* of callbacks may be between the two, and nothing makes them store in the order
\* in which GHL issued their pairs.
CallbackExchanges ==
    /\ Issue({}, TRUE)
    /\ grants' = grants \cup {ghl.issued + 1}
    /\ overtaken' = grants \cup (overtaken \cap {location.token})
    /\ UNCHANGED <<location, lock, run, logged, eversports>>

CallbackStores(g) ==
    /\ lock = None
    /\ location' = [location EXCEPT !.token = g]
    /\ grants' = grants \ {g}
    /\ UNCHANGED <<lock, run, logged, eversports, ghl, overtaken, lost>>

CallbackFails(g) ==
    /\ Faults \cap {"crash", "database"} # {}
    /\ grants' = grants \ {g}
    /\ lost' = lost \cup ({g} \cap {ghl.current})
    /\ UNCHANGED <<location, lock, run, logged, eversports, ghl, overtaken>>

\* DELETE /oauth/ghl/{location_id}.
Revoke ==
    /\ lock = None
    /\ location.token # 0
    /\ location' = [location EXCEPT !.token = 0]
    /\ UNCHANGED <<lock, run, logged, eversports, ghl, grants, overtaken, lost>>

\* External: the Eversports session ends; a token gets old; the app is
\* uninstalled in GHL.
SessionEnds ==
    /\ eversports # 0
    /\ eversports' = 0
    /\ UNCHANGED <<location, lock, run, logged, ghl, grants, overtaken, lost>>

\* The last pair the bound allows stays young: no refresh could replace it.
TokenAges ==
    /\ ghl.issued < MaxTokens
    /\ ghl.current \notin ghl.old \cup {0}
    /\ ghl' = [ghl EXCEPT !.old = @ \cup {ghl.current}]
    /\ UNCHANGED <<location, lock, run, logged, eversports, grants, overtaken, lost>>

Uninstall ==
    /\ "uninstall" \in Faults
    /\ ghl.current # 0
    /\ ghl' = [ghl EXCEPT !.current = 0, !.revoked = 1..ghl.issued]
    /\ lost' = {}
    /\ UNCHANGED <<location, lock, run, logged, eversports, grants, overtaken>>

RunStep(r) ==
    \/ Start(r) \/ SessionRefused(r) \/ FetchFails(r) \/ Fetch(r) \/ Persist(r)
    \/ NeedsRefresh(r) \/ RequestRefused(r) \/ PushDone(r)
    \/ Refresh(r) \/ RefreshTimesOut(r) \/ RefreshRefused(r)
    \/ Commit(r)

Next ==
    \/ \E r \in Run : RunStep(r) \/ DatabaseFails(r) \/ Die(r)
    \/ ImportCookies \/ CallbackExchanges \/ Revoke
    \/ \E g \in grants : CallbackStores(g) \/ CallbackFails(g)
    \/ SessionEnds \/ TokenAges \/ Uninstall

Spec == Init /\ [][Next]_vars

\* A run that was started goes on; Postgres grants a row lock that is free again
\* and again to the transaction that waits for it; there are finitely many
\* contacts to push.
Fairness ==
    \A r \in Run :
        /\ WF_vars(RunStep(r) /\ run[r].pc # "idle")
        /\ SF_vars(Persist(r))
        /\ SF_vars(PushDone(r))

FairSpec == Spec /\ Fairness

-----------------------------------------------------------------------------
(* Properties.                                                             *)

\* The GHL pushes of one location never overlap: run_bootstrap's update of the
\* locations row makes every other run wait until this one has committed.
PushesSerialised ==
    \A r, s \in Run :
        {run[r].pc, run[s].pc} \subseteq {"pushing", "refreshing", "finishing"} => r = s

\* Unless the pair GHL issued last was lost on its way, the row has it as soon as
\* nobody is about to write: what a run refreshes reaches the row, and no run
\* writes over a pair that is newer (_persist_token_cache).  The exception are
\* pairs of callbacks that overtook each other: ghl_oauth_callback stores what it
\* was given, and the slower of two may leave the older pair in the row.
TokenCurrent ==
    (/\ grants = {} /\ \A r \in Run : run[r].wrote = 0
     /\ ghl.current \notin lost \cup {0})
        => location.token \in {0, ghl.current} \cup overtaken

\* The token column goes back to an older pair only by a callback that another
\* one overtook: a run's copy of the row, however old, is never what replaces a
\* newer pair, and neither is the pair of a callback that nobody overtook.
TokenForward ==
    [][location'.token < location.token => location'.token \in {0} \cup overtaken]_vars

\* Every run that was started ends, also one that waits for the row behind a run
\* whose process has died: each starts once, and at last none is active.
RunsEnd == <>[](\A r \in Run : run[r].pc \notin Active)

(* What the comments and the documents say, and the code does not do.      *)

\* app/scrapers/base.py:10-12: a login redirect sets the state to 'expired'.
ExpiryRecorded ==
    \A r \in Run : (run[r].pc = "expired" /\ run[r].cookies = location.cookies)
                        => location.state = "expired"

\* app/scrapers/sync_runner.py:47: a sync_log entry is always written, even on
\* partial failure.
FailureLogged ==
    \A r \in Run : (run[r].log /\ run[r].pc \in Ended) => r \in logged

=============================================================================
