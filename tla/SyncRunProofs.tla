---------------------------- MODULE SyncRunProofs ----------------------------
(***************************************************************************)
(* Sync runs, token refreshes and OAuth callbacks for any number of runs   *)
(* and any bounds, under every failure the model knows.                    *)
(***************************************************************************)
EXTENDS SyncRun, TLAPS

Writing == {"pushing", "refreshing", "finishing"}

\* A run pushes, and has written the row, only while its transaction holds it;
\* it pushes with some token.
RunOK(r) ==
    /\ run[r].pc \in Writing <=> lock = r
    /\ run[r].wrote # 0 => lock = r
    /\ run[r].pc \in {"pushing", "refreshing"} => run[r].token # 0

\* Nobody has a pair that GHL has not issued, and a run writes only a pair newer
\* than the one in the row.
Ages ==
    /\ ghl.current \in {0, ghl.issued}
    /\ location.token <= ghl.issued
    /\ \A r \in Run : /\ run[r].token <= ghl.issued /\ run[r].wrote <= ghl.issued
                      /\ run[r].wrote # 0 => location.token < run[r].wrote

\* A callback that nobody has overtaken has the newest pair, and nobody else has
\* seen it.
GrantIsNewest ==
    \A g \in grants :
        /\ g <= ghl.issued
        /\ g \notin overtaken =>
              /\ g = ghl.issued
              /\ location.token < g
              /\ \A r \in Run : run[r].token < g /\ run[r].wrote < g

\* The pair GHL accepts, unless it is lost, is in the row or on its way there
\* (or a callback that was overtaken has written the row since), and nothing
\* older is on its way in a run.
CurrentIsKept ==
    ghl.current \notin lost \cup {0} =>
        /\ \/ location.token \in {0, ghl.current} \cup overtaken
           \/ ghl.current \in grants
           \/ \E r \in Run : run[r].wrote = ghl.current
        /\ \A r \in Run : run[r].wrote # 0 =>
              run[r].wrote = ghl.current \/ ghl.current \in grants

Safe == (\A r \in Run : RunOK(r)) /\ Ages /\ GrantIsNewest /\ CurrentIsKept

IInv == TypeOK /\ Safe

-----------------------------------------------------------------------------
(* Frames.                                                                 *)

LEMMA Types ==
    ASSUME IInv
    PROVE  /\ MaxTokens \in Nat /\ MaxCookies \in Nat
           /\ location.token \in Nat /\ location.token <= MaxTokens
           /\ ghl.issued \in Nat /\ ghl.issued <= MaxTokens /\ ghl.current \in Nat
           /\ \A g \in grants : g \in Nat /\ g <= MaxTokens
           /\ \A r \in Run : /\ run[r] \in RunState
                             /\ run[r].token \in Nat /\ run[r].wrote \in Nat
           /\ Safe
<1>1. MaxTokens \in Nat /\ MaxCookies \in Nat
  BY SyncAssumption
<1>2. QED
  BY <1>1 DEF IInv, TypeOK, Token, RunState

LEMMA InitIInv == Init => IInv
<1> SUFFICES ASSUME Init PROVE IInv
  OBVIOUS
<1>1. MaxTokens \in Nat /\ MaxCookies \in Nat
  BY SyncAssumption
<1>2. TypeOK
  BY <1>1 DEF Init, TypeOK, Token, Cookies, RunState, Active, Ended
<1>3. Safe
  BY RunIsNotNone DEF Init, Safe, RunOK, Writing, Ages, GrantIsNewest, CurrentIsKept
<1>4. QED
  BY <1>2, <1>3 DEF IInv

\* One run changes.
LEMMA RunChanges ==
    ASSUME IInv, NEW r \in Run, NEW s \in RunState, run' = [run EXCEPT ![r] = s]
    PROVE  /\ run' \in [Run -> RunState]
           /\ run'[r] = s
           /\ \A q \in Run : q # r => run'[q] = run[q]
<1>1. run \in [Run -> RunState]
  BY DEF IInv, TypeOK
<1>2. QED
  BY <1>1

\* A run that writes nothing and neither takes nor releases the row.
LEMMA QuietStep ==
    ASSUME IInv, NEW r \in Run, NEW s \in RunState,
           run' = [run EXCEPT ![r] = s],
           UNCHANGED <<location, lock, logged, eversports, ghl, grants, overtaken, lost>>,
           s.pc \in Writing <=> run[r].pc \in Writing,
           s.wrote = run[r].wrote \/ (s.wrote = 0 /\ run[r].pc \notin Writing),
           s.token \in {0, run[r].token, location.token},
           s.pc \in {"pushing", "refreshing"} => s.token # 0
    PROVE  IInv'
<1>1. /\ run' \in [Run -> RunState] /\ run'[r] = s
      /\ \A q \in Run : q # r => run'[q] = run[q]
  BY RunChanges
<1>2. TypeOK'
  BY <1>1 DEF IInv, TypeOK
<1>3. s.wrote = run[r].wrote
  BY DEF IInv, Safe, RunOK
<1>4. \A q \in Run : run'[q].wrote = run[q].wrote
  BY <1>1, <1>3
<1>5. \A q \in Run : RunOK(q)'
  BY <1>1, <1>3 DEF IInv, Safe, RunOK
<1>6. Ages'
  BY <1>1, <1>4, Types DEF Safe, Ages
<1>7. GrantIsNewest'
  BY <1>1, <1>4, Types DEF Safe, GrantIsNewest
<1>8. CurrentIsKept'
  BY <1>4 DEF IInv, Safe, CurrentIsKept
<1>9. QED
  BY <1>2, <1>5, <1>6, <1>7, <1>8 DEF IInv, Safe

-----------------------------------------------------------------------------
(* The steps of a run.                                                     *)

LEMMA Ending ==
    ASSUME IInv, NEW r \in Run, NEW end \in Ended
    PROVE  /\ Closed(r, end) \in RunState
           /\ [Closed(r, end) EXCEPT !.log = TRUE] \in RunState
           /\ Closed(r, end).pc = end
           /\ Closed(r, end).token = 0 /\ Closed(r, end).wrote = 0
           /\ [Closed(r, end) EXCEPT !.log = TRUE].pc = end
           /\ [Closed(r, end) EXCEPT !.log = TRUE].token = 0
           /\ [Closed(r, end) EXCEPT !.log = TRUE].wrote = 0
<1>1. run[r] \in RunState /\ 0 \in Token /\ 0 \in Cookies
  BY Types DEF Token, Cookies
<1>2. QED
  BY <1>1 DEF Closed, RunState

LEMMA BeforeTheRow ==
    ASSUME IInv, NEW r \in Run, Start(r) \/ SessionRefused(r) \/ FetchFails(r) \/ Fetch(r)
    PROVE  IInv'
<1>1. run \in [Run -> RunState] /\ run[r] \in RunState
  BY DEF IInv, TypeOK
<1>2. run[r].pc \notin Writing
  BY DEF Start, SessionRefused, FetchFails, Fetch, Writing
<1>3. CASE Start(r)
  <2>1. CASE location.state = "unset" \/ location.cookies = 0
    <3>1. /\ Closed(r, "skipped") \in RunState /\ Closed(r, "skipped").pc = "skipped"
          /\ Closed(r, "skipped").token = 0 /\ Closed(r, "skipped").wrote = 0
      BY Ending DEF Ended
    <3>2. run' = [run EXCEPT ![r] = Closed(r, "skipped")]
      BY <1>1, <1>3, <2>1 DEF Start
    <3>3. QED
      BY <1>2, <1>3, <3>1, <3>2, QuietStep DEF Start, Writing
  <2>2. CASE ~(location.state = "unset" \/ location.cookies = 0)
    <3> DEFINE to == IF location.state = "expired" THEN "expired" ELSE "fetching"
               t == IF location.state = "expired" THEN 0 ELSE location.token
               s == [run[r] EXCEPT !.pc = to, !.cookies = location.cookies, !.token = t]
    <3>1. /\ to \in {"expired", "fetching"} /\ t \in {0, location.token} /\ t \in Token
          /\ location.cookies \in Cookies
      BY Types DEF Token, IInv, TypeOK
    <3>2. run' = [run EXCEPT ![r] = s]
      BY <1>1, <1>3, <2>2 DEF Start
    <3> HIDE DEF to, t
    <3>3. to \in {"idle"} \cup Active \cup Ended
      BY <3>1 DEF Active, Ended
    <3>4. s \in RunState
      BY <1>1, <3>1, <3>3 DEF RunState
    <3>5. s.pc = to /\ s.token = t /\ s.wrote = run[r].wrote
      BY <1>1 DEF RunState
    <3>6. /\ UNCHANGED <<location, lock, logged, eversports, ghl, grants, overtaken, lost>>
          /\ run[r].pc = "idle"
      BY <1>3 DEF Start
    <3> HIDE DEF s
    <3>7. /\ s.pc \in Writing <=> run[r].pc \in Writing
          /\ s.pc \notin {"pushing", "refreshing"}
      BY <1>2, <3>1, <3>5 DEF Writing
    <3>8. QED
      BY <3>1, <3>2, <3>4, <3>5, <3>6, <3>7, QuietStep
  <2>3. QED
    BY <2>1, <2>2
<1>4. CASE SessionRefused(r)
  <2>1. Closed(r, "expired") \in RunState
    BY Ending DEF Ended
  <2>2. /\ Closed(r, "expired").pc = "expired"
        /\ Closed(r, "expired").token = 0 /\ Closed(r, "expired").wrote = 0
    BY Ending DEF Ended
  <2>3. QED
    BY <1>2, <1>4, <2>1, <2>2, QuietStep DEF SessionRefused, Writing
<1>5. CASE FetchFails(r)
  <2> DEFINE s == [Closed(r, "rolled_back") EXCEPT !.log = TRUE]
  <2>1. s \in RunState /\ s.pc = "rolled_back" /\ s.token = 0 /\ s.wrote = 0
    BY Ending DEF Ended
  <2>2. run' = [run EXCEPT ![r] = s]
    BY <1>5 DEF FetchFails
  <2> HIDE DEF s
  <2>3. QED
    BY <1>2, <1>5, <2>1, <2>2, QuietStep DEF FetchFails, Writing
<1>6. CASE Fetch(r)
  <2> DEFINE s == [run[r] EXCEPT !.pc = "fetched"]
  <2>1. /\ s \in RunState /\ s.pc = "fetched" /\ s.token = run[r].token
        /\ s.wrote = run[r].wrote
    BY <1>1 DEF RunState, Active
  <2>2. run' = [run EXCEPT ![r] = s]
    BY <1>1, <1>6 DEF Fetch
  <2> HIDE DEF s
  <2>3. QED
    BY <1>2, <1>6, <2>1, <2>2, QuietStep DEF Fetch, Writing
<1>7. QED
  BY <1>3, <1>4, <1>5, <1>6

LEMMA WhilePushing ==
    ASSUME IInv, NEW r \in Run,
           NeedsRefresh(r) \/ RequestRefused(r) \/ PushDone(r) \/ RefreshRefused(r)
    PROVE  IInv'
<1> DEFINE to == IF NeedsRefresh(r) \/ RequestRefused(r) THEN "refreshing" ELSE "finishing"
           s == [run[r] EXCEPT !.pc = to]
<1>1. run \in [Run -> RunState] /\ run[r] \in RunState
  BY DEF IInv, TypeOK
<1>2. run[r].pc \in {"pushing", "refreshing"}
  BY DEF NeedsRefresh, RequestRefused, PushDone, RefreshRefused
<1>3. to \in {"refreshing", "finishing"} /\ run' = [run EXCEPT ![r].pc = to]
  <2>1. CASE NeedsRefresh(r) \/ RequestRefused(r)
    BY <2>1 DEF NeedsRefresh, RequestRefused
  <2>2. CASE ~(NeedsRefresh(r) \/ RequestRefused(r))
    BY <2>2 DEF PushDone, RefreshRefused
  <2>3. QED
    BY <2>1, <2>2
<1>4. UNCHANGED <<location, lock, logged, eversports, ghl, grants, overtaken, lost>>
  BY DEF NeedsRefresh, RequestRefused, PushDone, RefreshRefused
<1> HIDE DEF to
<1>5. run' = [run EXCEPT ![r] = s]
  BY <1>1, <1>3
<1>6. s \in RunState /\ s.pc = to /\ s.token = run[r].token /\ s.wrote = run[r].wrote
  BY <1>1, <1>3 DEF RunState, Active
<1>7. run[r].token # 0
  BY <1>2 DEF IInv, Safe, RunOK
<1> HIDE DEF s
<1>8. QED
  BY <1>2, <1>3, <1>4, <1>5, <1>6, <1>7, QuietStep DEF Writing

LEMMA PersistIInv ==
    ASSUME IInv, NEW r \in Run, Persist(r)
    PROVE  IInv'
<1> DEFINE to == IF run[r].token = 0 THEN "finishing" ELSE "pushing"
           s == [run[r] EXCEPT !.pc = to]
<1>1. run \in [Run -> RunState] /\ run[r] \in RunState
  BY DEF IInv, TypeOK
<1>2. run' = [run EXCEPT ![r] = s] /\ lock = None /\ lock' = r
  BY <1>1 DEF Persist
<1>3. s \in RunState /\ s.pc = to /\ s.token = run[r].token /\ s.wrote = run[r].wrote
  BY <1>1 DEF RunState, Active
<1>4. to \in {"finishing", "pushing"} /\ (to = "pushing" => run[r].token # 0)
  OBVIOUS
<1> HIDE DEF s, to
<1>5. /\ run' \in [Run -> RunState] /\ run'[r] = s
      /\ \A q \in Run : q # r => run'[q] = run[q]
  BY <1>2, <1>3, RunChanges
<1>6. \A q \in Run : run'[q].wrote = run[q].wrote /\ run'[q].token = run[q].token
  BY <1>3, <1>5
<1>7. \A q \in Run : lock # q
  BY <1>2, RunIsNotNone
<1>8. \A q \in Run : RunOK(q)'
  BY <1>2, <1>3, <1>4, <1>5, <1>7 DEF IInv, Safe, RunOK, Writing
<1>9. Ages' /\ GrantIsNewest' /\ CurrentIsKept'
  BY <1>6 DEF IInv, Safe, Ages, GrantIsNewest, CurrentIsKept, Persist
<1>10. TypeOK'
  BY <1>2, <1>5 DEF IInv, TypeOK, Persist
<1>11. QED
  BY <1>8, <1>9, <1>10 DEF IInv, Safe

LEMMA Issued ==
    ASSUME IInv, NEW S \in SUBSET Token, NEW arrives \in BOOLEAN, Issue(S, arrives)
    PROVE  /\ lost' = (IF arrives THEN {} ELSE {ghl.issued + 1}) /\ lost' \subseteq Token
           /\ ghl' \in [issued : Token, current : Token, old : SUBSET Token,
                        revoked : SUBSET Token]
           /\ ghl'.issued = ghl.issued + 1 /\ ghl'.current = ghl.issued + 1
           /\ ghl.issued + 1 \in Token
<1>1. ghl \in [issued : Token, current : Token, old : SUBSET Token, revoked : SUBSET Token]
  BY DEF IInv, TypeOK
<1>2. ghl.issued + 1 \in Token
  BY Types DEF Issue, Token
<1>3. QED
  BY <1>1, <1>2 DEF Issue

\* Only the holder of the row refreshes, with the pair GHL knows; by then no
\* callback has a newer one in hand.
LEMMA Refresher ==
    ASSUME IInv, NEW r \in Run, run[r].pc = "refreshing", run[r].token = ghl.current
    PROVE  /\ lock = r /\ run[r].token # 0 /\ grants \subseteq overtaken
           /\ \A q \in Run : q # r => run[q].wrote = 0 /\ run[q].pc \notin Writing
<1>1. lock = r /\ run[r].token # 0
  BY DEF IInv, Safe, RunOK, Writing
<1>2. \A q \in Run : q # r => run[q].wrote = 0 /\ run[q].pc \notin Writing
  BY <1>1 DEF IInv, Safe, RunOK
<1>3. ghl.current = ghl.issued
  BY <1>1 DEF IInv, Safe, Ages
<1>4. grants \subseteq overtaken
  BY <1>3, Types DEF Safe, GrantIsNewest
<1>5. QED
  BY <1>1, <1>2, <1>4

LEMMA RefreshIInv ==
    ASSUME IInv, NEW r \in Run, Refresh(r)
    PROVE  IInv'
<1> DEFINE t == ghl.issued + 1
           s == [run[r] EXCEPT !.pc = "pushing", !.token = t, !.wrote = t]
<1>1. run \in [Run -> RunState] /\ run[r] \in RunState
  BY DEF IInv, TypeOK
<1>2. /\ lock = r /\ run[r].token # 0 /\ grants \subseteq overtaken
      /\ \A q \in Run : q # r => run[q].wrote = 0 /\ run[q].pc \notin Writing
  BY Refresher DEF Refresh
<1>3. /\ ghl' \in [issued : Token, current : Token, old : SUBSET Token,
                   revoked : SUBSET Token]
      /\ ghl'.issued = t /\ ghl'.current = t /\ t \in Token
      /\ lost' = {}
  <2>1. {run[r].token} \in SUBSET Token
    BY <1>1 DEF RunState
  <2>2. QED
    BY <2>1, Issued DEF Refresh
<1>4. /\ t = ghl.issued + 1 /\ run' = [run EXCEPT ![r] = s]
  BY <1>1 DEF Refresh
<1>5. s \in RunState /\ s.pc = "pushing" /\ s.token = t /\ s.wrote = t
  BY <1>1, <1>3 DEF RunState, Active
<1>6. UNCHANGED <<location, lock, logged, eversports, grants, overtaken>>
  BY DEF Refresh
<1> HIDE DEF s, t
<1>7. /\ run' \in [Run -> RunState] /\ run'[r] = s
      /\ \A q \in Run : q # r => run'[q] = run[q]
  BY <1>4, <1>5, RunChanges
<1>8. t \in Nat /\ t > ghl.issued /\ t # 0
  BY <1>4, Types
<1>9. \A q \in Run : RunOK(q)'
  BY <1>2, <1>5, <1>6, <1>7, <1>8 DEF IInv, Safe, RunOK, Writing
<1>10. Ages'
  BY <1>2, <1>3, <1>5, <1>6, <1>7, <1>8, Types DEF Safe, Ages
<1>11. GrantIsNewest'
  BY <1>2, <1>3, <1>4, <1>6, Types DEF Safe, GrantIsNewest
<1>12. CurrentIsKept'
  BY <1>2, <1>3, <1>5, <1>7 DEF CurrentIsKept
<1>13. TypeOK'
  BY <1>3, <1>6, <1>7 DEF IInv, TypeOK
<1>14. QED
  BY <1>9, <1>10, <1>11, <1>12, <1>13 DEF IInv, Safe

LEMMA TimeoutIInv ==
    ASSUME IInv, NEW r \in Run, RefreshTimesOut(r)
    PROVE  IInv'
<1>1. run \in [Run -> RunState] /\ run[r] \in RunState
  BY DEF IInv, TypeOK
<1>2. PICK to \in {"pushing", "finishing"} : run' = [run EXCEPT ![r].pc = to]
  BY DEF RefreshTimesOut
<1> DEFINE s == [run[r] EXCEPT !.pc = to]
<1>3. s \in RunState /\ s.pc = to /\ s.token = run[r].token /\ s.wrote = run[r].wrote
  BY <1>1 DEF RunState, Active
<1>4. run' = [run EXCEPT ![r] = s] /\ run[r].pc = "refreshing" /\ run[r].token # 0
  BY <1>1, <1>2 DEF RefreshTimesOut, IInv, Safe, RunOK
<1>5. UNCHANGED <<location, lock, logged, eversports, grants, overtaken>>
  BY DEF RefreshTimesOut
<1> HIDE DEF s
<1>6. CASE run[r].token = ghl.current
  <2>1. /\ lock = r /\ grants \subseteq overtaken
        /\ \A q \in Run : q # r => run[q].wrote = 0 /\ run[q].pc \notin Writing
    BY <1>4, <1>6, Refresher
  <2>2. Issue({run[r].token}, FALSE)
    BY <1>6 DEF RefreshTimesOut
  <2>3. /\ ghl' \in [issued : Token, current : Token, old : SUBSET Token,
                     revoked : SUBSET Token]
        /\ ghl'.issued = ghl.issued + 1 /\ ghl'.current = ghl.issued + 1
        /\ ghl.issued + 1 \in Token
        /\ lost' = {ghl.issued + 1} /\ lost' \subseteq Token
    <3>1. {run[r].token} \in SUBSET Token
      BY <1>1 DEF RunState
    <3>2. QED
      BY <2>2, <3>1, Issued
  <2>4. /\ run' \in [Run -> RunState] /\ run'[r] = s
        /\ \A q \in Run : q # r => run'[q] = run[q]
    BY <1>3, <1>4, RunChanges
  <2>5. \A q \in Run : run'[q].wrote = run[q].wrote /\ run'[q].token = run[q].token
    BY <1>3, <2>4
  <2>6. \A q \in Run : RunOK(q)'
    BY <1>3, <1>4, <1>5, <2>1, <2>4 DEF IInv, Safe, RunOK, Writing
  <2>7. Ages'
    BY <1>5, <2>3, <2>5, Types DEF Safe, Ages
  <2>8. GrantIsNewest'
    BY <1>5, <2>1, <2>3, Types DEF Safe, GrantIsNewest
  <2>9. CurrentIsKept'
    BY <2>3 DEF CurrentIsKept
  <2>10. lost' \subseteq Token
    BY <2>3
  <2>11. TypeOK'
    BY <1>5, <2>3, <2>4, <2>10 DEF IInv, TypeOK
  <2>12. QED
    BY <2>6, <2>7, <2>8, <2>9, <2>11 DEF IInv, Safe
<1>7. CASE run[r].token # ghl.current
  <2>1. UNCHANGED <<location, lock, logged, eversports, ghl, grants, overtaken, lost>>
    BY <1>7 DEF RefreshTimesOut
  <2>2. QED
    BY <1>2, <1>3, <1>4, <2>1, QuietStep DEF Writing
<1>8. QED
  BY <1>6, <1>7

\* The end of a transaction: what it wrote is in the row or is lost.
LEMMA TransactionEnds ==
    ASSUME IInv, NEW r \in Run, NEW s \in RunState,
           run' = [run EXCEPT ![r] = s],
           s.pc \in Ended, s.token = 0, s.wrote = 0,
           Unlock(r), UNCHANGED <<eversports, ghl, grants, overtaken>>,
           logged' \subseteq Run,
           \/ /\ UNCHANGED location
              /\ lost' = lost \cup (({run[r].wrote} \cap {ghl.current}) \ {0})
           \/ /\ lock = r
              /\ location' = [location EXCEPT !.token = IF run[r].wrote # 0 THEN run[r].wrote ELSE @]
              /\ UNCHANGED lost
    PROVE  IInv'
<1>1. /\ run' \in [Run -> RunState] /\ run'[r] = s
      /\ \A q \in Run : q # r => run'[q] = run[q]
  BY RunChanges
<1>2. \A q \in Run : q # r => (lock' = q <=> lock = q)
  BY RunIsNotNone DEF Unlock
<1>3. lock' # r /\ lock' \in Run \cup {None}
  BY RunIsNotNone DEF Unlock, IInv, TypeOK
<1>4. s.pc \notin Writing /\ s.pc \notin {"pushing", "refreshing"}
  BY DEF Ended, Writing
<1>5. \A q \in Run : RunOK(q)'
  BY <1>1, <1>2, <1>3, <1>4 DEF IInv, Safe, RunOK
<1>6. \A q \in Run : \/ run'[q].token = run[q].token /\ run'[q].wrote = run[q].wrote /\ q # r
                     \/ run'[q].token = 0 /\ run'[q].wrote = 0 /\ q = r
  BY <1>1
<1>7. run[r].wrote \in Token /\ location \in [state : {"unset", "ok", "expired"},
                                             cookies : Cookies, token : Token]
  BY DEF IInv, TypeOK, RunState
<1>8. CASE /\ UNCHANGED location
           /\ lost' = lost \cup (({run[r].wrote} \cap {ghl.current}) \ {0})
  <2>1. Ages' /\ GrantIsNewest'
    BY <1>6, <1>8, Types DEF Safe, Ages, GrantIsNewest
  <2>2. CurrentIsKept'
    BY <1>6, <1>8, Types DEF Safe, CurrentIsKept
  <2>3. TypeOK'
    BY <1>1, <1>3, <1>7, <1>8 DEF IInv, TypeOK
  <2>4. QED
    BY <1>5, <2>1, <2>2, <2>3 DEF IInv, Safe
<1>9. CASE /\ lock = r
           /\ location' = [location EXCEPT !.token = IF run[r].wrote # 0 THEN run[r].wrote ELSE @]
           /\ UNCHANGED lost
  <2>1. location'.token = IF run[r].wrote # 0 THEN run[r].wrote ELSE location.token
    BY <1>7, <1>9
  <2>2. \A q \in Run : q # r => run[q].wrote = 0
    BY <1>9 DEF IInv, Safe, RunOK
  <2>3. Ages'
    BY <1>6, <2>1, <2>2, Types DEF Safe, Ages
  <2>4. GrantIsNewest'
    BY <1>6, <2>1, <2>2, Types DEF Safe, GrantIsNewest
  <2>5. CurrentIsKept'
    BY <1>6, <1>9, <2>1, <2>2, Types DEF Safe, CurrentIsKept
  <2>6. location' \in [state : {"unset", "ok", "expired"}, cookies : Cookies, token : Token]
    BY <1>7, <1>9
  <2>7. TypeOK'
    BY <1>1, <1>3, <1>9, <2>6 DEF IInv, TypeOK
  <2>8. QED
    BY <1>5, <2>3, <2>4, <2>5, <2>7 DEF IInv, Safe
<1>10. QED
  BY <1>8, <1>9

LEMMA EndIInv ==
    ASSUME IInv, NEW r \in Run, Commit(r) \/ DatabaseFails(r) \/ Die(r)
    PROVE  IInv'
<1>1. CASE Commit(r)
  <2> DEFINE s == [Closed(r, "committed") EXCEPT !.log = TRUE]
  <2>1. s \in RunState /\ s.pc = "committed" /\ s.token = 0 /\ s.wrote = 0
    BY Ending DEF Ended
  <2>2. run' = [run EXCEPT ![r] = s]
    BY <1>1 DEF Commit
  <2> HIDE DEF s
  <2>3. lock = r
    BY <1>1 DEF Commit, IInv, Safe, RunOK, Writing
  <2>4. s.pc \in Ended
    BY <2>1 DEF Ended
  <2>5. logged' \subseteq Run
    BY <1>1 DEF Commit, IInv, TypeOK
  <2>6. QED
    BY <1>1, <2>1, <2>2, <2>3, <2>4, <2>5, TransactionEnds DEF Commit
<1>2. CASE DatabaseFails(r)
  <2>1. /\ Closed(r, "rolled_back") \in RunState /\ Closed(r, "rolled_back").pc \in Ended
        /\ Closed(r, "rolled_back").token = 0 /\ Closed(r, "rolled_back").wrote = 0
    BY Ending DEF Ended
  <2>2. logged' \subseteq Run
    BY <1>2 DEF DatabaseFails, IInv, TypeOK
  <2>3. QED
    BY <1>2, <2>1, <2>2, TransactionEnds DEF DatabaseFails
<1>3. CASE Die(r)
  <2>1. /\ Closed(r, "died") \in RunState /\ Closed(r, "died").pc \in Ended
        /\ Closed(r, "died").token = 0 /\ Closed(r, "died").wrote = 0
    BY Ending DEF Ended
  <2>2. logged' \subseteq Run
    BY <1>3 DEF Die, IInv, TypeOK
  <2>3. QED
    BY <1>3, <2>1, <2>2, TransactionEnds DEF Die
<1>4. QED
  BY <1>1, <1>2, <1>3

-----------------------------------------------------------------------------
(* Everybody else.                                                         *)

LEMMA ExternalIInv ==
    ASSUME IInv, ImportCookies \/ SessionEnds \/ TokenAges \/ Uninstall
    PROVE  IInv'
<1>1. /\ MaxTokens \in Nat /\ MaxCookies \in Nat /\ ghl.issued \in Nat
      /\ location \in [state : {"unset", "ok", "expired"}, cookies : Cookies, token : Token]
      /\ ghl \in [issued : Token, current : Token, old : SUBSET Token, revoked : SUBSET Token]
  BY Types DEF IInv, TypeOK
<1>2. UNCHANGED <<lock, run, logged, grants, overtaken>> /\ lost' \in {lost, {}}
  BY DEF ImportCookies, SessionEnds, TokenAges, Uninstall
<1>3. location'.token = location.token /\ ghl'.issued = ghl.issued
      /\ \/ ghl'.current = ghl.current /\ lost' = lost
         \/ ghl'.current = 0
  BY <1>1 DEF ImportCookies, SessionEnds, TokenAges, Uninstall
<1>4. /\ location' \in [state : {"unset", "ok", "expired"}, cookies : Cookies, token : Token]
      /\ eversports' \in Cookies
  <2>1. CASE ImportCookies
    <3>1. location.cookies + 1 \in Cookies
      BY <1>1, <2>1 DEF ImportCookies, Cookies
    <3>2. QED
      BY <1>1, <2>1, <3>1 DEF ImportCookies
  <2>2. CASE SessionEnds \/ TokenAges \/ Uninstall
    <3>1. eversports \in Cookies /\ 0 \in Cookies
      BY <1>1 DEF IInv, TypeOK, Cookies
    <3>2. QED
      BY <1>1, <2>2, <3>1 DEF SessionEnds, TokenAges, Uninstall
  <2>3. QED
    BY <2>1, <2>2
<1>5. ghl' \in [issued : Token, current : Token, old : SUBSET Token, revoked : SUBSET Token]
  <2>1. CASE TokenAges
    BY <1>1, <2>1 DEF TokenAges
  <2>2. CASE Uninstall
    <3>1. 1..ghl.issued \subseteq Token /\ 0 \in Token
      <4>1. ghl.issued <= MaxTokens
        BY Types
      <4>2. QED
        BY <1>1, <4>1 DEF Token
    <3>2. QED
      BY <1>1, <2>2, <3>1 DEF Uninstall
  <2>3. CASE ImportCookies \/ SessionEnds
    BY <1>1, <2>3 DEF ImportCookies, SessionEnds
  <2>4. QED
    BY <2>1, <2>2, <2>3
<1>6. TypeOK'
  BY <1>2, <1>4, <1>5 DEF IInv, TypeOK
<1>7. \A r \in Run : RunOK(r)'
  BY <1>2 DEF IInv, Safe, RunOK
<1>8. Ages' /\ GrantIsNewest'
  BY <1>2, <1>3 DEF IInv, Safe, Ages, GrantIsNewest
<1>9. CurrentIsKept'
  BY <1>2, <1>3 DEF IInv, Safe, CurrentIsKept
<1>10. QED
  BY <1>6, <1>7, <1>8, <1>9 DEF IInv, Safe

LEMMA ExchangeIInv ==
    ASSUME IInv, CallbackExchanges
    PROVE  IInv'
<1>1. /\ ghl' \in [issued : Token, current : Token, old : SUBSET Token,
                   revoked : SUBSET Token]
      /\ ghl'.issued = ghl.issued + 1 /\ ghl'.current = ghl.issued + 1
      /\ ghl.issued + 1 \in Token /\ lost' = {}
  BY Issued DEF CallbackExchanges
<1>2. /\ grants' = grants \cup {ghl.issued + 1}
      /\ overtaken' = grants \cup (overtaken \cap {location.token})
      /\ UNCHANGED <<location, lock, run, logged, eversports>>
  BY DEF CallbackExchanges
<1>3. \A r \in Run : RunOK(r)'
  BY <1>2 DEF IInv, Safe, RunOK
<1>4. Ages'
  BY <1>1, <1>2, Types DEF Safe, Ages
<1>5. GrantIsNewest'
  BY <1>1, <1>2, Types DEF Safe, Ages, GrantIsNewest
<1>6. CurrentIsKept'
  BY <1>1, <1>2 DEF CurrentIsKept
<1>7. TypeOK'
  BY <1>1, <1>2 DEF IInv, TypeOK
<1>8. QED
  BY <1>3, <1>4, <1>5, <1>6, <1>7 DEF IInv, Safe

\* A write of the row by somebody who waited for it: no run has written.
LEMMA CallbackIInv ==
    ASSUME IInv, NEW g \in grants, CallbackStores(g) \/ CallbackFails(g)
    PROVE  IInv'
<1>1. /\ location \in [state : {"unset", "ok", "expired"}, cookies : Cookies, token : Token]
      /\ g \in Token
  BY DEF IInv, TypeOK
<1>2. UNCHANGED <<run, lock, logged, eversports, ghl, overtaken>> /\ grants' = grants \ {g}
  BY DEF CallbackStores, CallbackFails
<1>3. \A r \in Run : RunOK(r)'
  BY <1>2 DEF IInv, Safe, RunOK
<1>4. CASE CallbackStores(g)
  <2>1. \A r \in Run : run[r].wrote = 0
    BY <1>4, RunIsNotNone DEF CallbackStores, IInv, Safe, RunOK
  <2>2. location'.token = g /\ lost' = lost
    BY <1>1, <1>4 DEF CallbackStores
  <2>3. g <= ghl.issued
    BY DEF IInv, Safe, GrantIsNewest
  <2>4. Ages'
    BY <1>2, <2>1, <2>2, <2>3, Types DEF Safe, Ages
  <2>5. GrantIsNewest'
    <3>1. SUFFICES ASSUME NEW h \in grants, h # g
                   PROVE  /\ h <= ghl.issued
                          /\ h \notin overtaken =>
                                /\ h = ghl.issued
                                /\ g < h
                                /\ \A r \in Run : run[r].token < h /\ run[r].wrote < h
      BY <1>2, <2>2 DEF GrantIsNewest
    <3>2. QED
      BY <2>3, <3>1, Types DEF Safe, GrantIsNewest
  <2>6. CurrentIsKept'
    <3>1. SUFFICES ASSUME ghl.current \notin lost \cup {0}
                   PROVE  g \in {0, ghl.current} \cup overtaken \/ ghl.current \in grants'
      BY <1>2, <2>1, <2>2 DEF CurrentIsKept
    <3>2. ghl.current = ghl.issued
      BY <3>1 DEF IInv, Safe, Ages
    <3>3. QED
      BY <3>2 DEF IInv, Safe, GrantIsNewest
  <2>7. TypeOK'
    BY <1>1, <1>2, <1>4 DEF CallbackStores, IInv, TypeOK
  <2>8. QED
    BY <1>3, <2>4, <2>5, <2>6, <2>7 DEF IInv, Safe
<1>5. CASE CallbackFails(g)
  <2>1. UNCHANGED location /\ lost' = lost \cup ({g} \cap {ghl.current})
    BY <1>5 DEF CallbackFails
  <2>2. Ages'
    BY <1>2, <2>1 DEF IInv, Safe, Ages
  <2>3. GrantIsNewest'
    BY <1>2, <2>1 DEF IInv, Safe, GrantIsNewest
  <2>4. CurrentIsKept'
    BY <1>2, <2>1 DEF IInv, Safe, CurrentIsKept
  <2>5. TypeOK'
    BY <1>1, <1>2, <2>1 DEF IInv, TypeOK
  <2>6. QED
    BY <1>3, <2>2, <2>3, <2>4, <2>5 DEF IInv, Safe
<1>6. QED
  BY <1>4, <1>5

LEMMA RevokeIInv ==
    ASSUME IInv, Revoke
    PROVE  IInv'
<1>1. location \in [state : {"unset", "ok", "expired"}, cookies : Cookies, token : Token]
  BY DEF IInv, TypeOK
<1>2. UNCHANGED <<run, lock, logged, eversports, ghl, grants, overtaken, lost>> /\ 0 \in Token
  BY Types DEF Revoke, Token
<1>3. \A r \in Run : RunOK(r)'
  BY <1>2 DEF IInv, Safe, RunOK
<1>4. \A r \in Run : run[r].wrote = 0
  BY RunIsNotNone DEF Revoke, IInv, Safe, RunOK
<1>5. location'.token = 0 /\ location.token # 0
  BY <1>1 DEF Revoke
<1>6. Ages'
  BY <1>2, <1>4, <1>5, Types DEF Safe, Ages
<1>7. GrantIsNewest'
  <2>1. 0 < location.token
    BY <1>5, Types
  <2>2. QED
    BY <1>2, <1>5, <2>1, Types DEF Safe, GrantIsNewest
<1>8. CurrentIsKept'
  BY <1>2, <1>4, <1>5 DEF CurrentIsKept
<1>9. TypeOK'
  BY <1>1, <1>2 DEF Revoke, IInv, TypeOK
<1>10. QED
  BY <1>3, <1>6, <1>7, <1>8, <1>9 DEF IInv, Safe

-----------------------------------------------------------------------------
(* The invariant and what follows from it.                                 *)

LEMMA NextIInv ==
    ASSUME IInv, [Next]_vars
    PROVE  IInv'
<1>1. ASSUME NEW r \in Run, RunStep(r) \/ DatabaseFails(r) \/ Die(r)
      PROVE  IInv'
  BY <1>1, BeforeTheRow, WhilePushing, PersistIInv, RefreshIInv, TimeoutIInv, EndIInv
     DEF RunStep
<1>2. CASE ImportCookies \/ SessionEnds \/ TokenAges \/ Uninstall
  BY <1>2, ExternalIInv
<1>3. CASE CallbackExchanges
  BY <1>3, ExchangeIInv
<1>4. ASSUME NEW g \in grants, CallbackStores(g) \/ CallbackFails(g)
      PROVE  IInv'
  BY <1>4, CallbackIInv
<1>5. CASE UNCHANGED vars
  BY <1>5 DEF vars, IInv, TypeOK, Safe, RunOK, Ages, GrantIsNewest, CurrentIsKept
<1>6. CASE Revoke
  BY <1>6, RevokeIInv
<1>7. QED
  BY <1>1, <1>2, <1>3, <1>4, <1>5, <1>6 DEF Next

\* The inductive invariant holds in every reachable state.
THEOREM Invariance == Spec => []IInv
<1>1. IInv /\ [Next]_vars => IInv'
  BY NextIInv
<1>2. QED
  BY <1>1, InitIInv, PTL DEF Spec

\* Every variable keeps its type: in particular the bounds on cookie exports and
\* token pairs cut off nothing but their issue.
THEOREM TypeCorrect == Spec => []TypeOK
<1>1. IInv => TypeOK
  BY DEF IInv
<1>2. QED
  BY <1>1, Invariance, PTL

\* Any number of runs of one location push one after the other: run_bootstrap's
\* UPDATE of the locations row keeps the row until the commit (sync_runner.py).
THEOREM Serialised == Spec => []PushesSerialised
<1>1. IInv => PushesSerialised
  <2> SUFFICES ASSUME IInv, NEW r \in Run, NEW s \in Run,
                      {run[r].pc, run[s].pc} \subseteq Writing
               PROVE  r = s
    BY DEF PushesSerialised, Writing
  <2>1. lock = r /\ lock = s
    BY DEF IInv, Safe, RunOK
  <2>2. QED
    BY <2>1
<1>2. QED
  BY <1>1, Invariance, PTL

\* Unless it was lost, the pair GHL accepts is in the row whenever nobody is
\* about to write, or the row has the pair of a callback that another one overtook
\* (client.py: _persist_token_cache; ghl_oauth.py: the callback).
THEOREM Current == Spec => []TokenCurrent
<1>1. IInv => TokenCurrent
  <2> SUFFICES ASSUME IInv, grants = {}, \A r \in Run : run[r].wrote = 0,
                      ghl.current \notin lost \cup {0}
               PROVE  location.token \in {0, ghl.current} \cup overtaken
    BY DEF TokenCurrent
  <2>1. QED
    BY DEF IInv, Safe, CurrentIsKept
<1>2. QED
  BY <1>1, Invariance, PTL

\* No step puts an older pair into the row than the one that is there, but for a
\* callback that was overtaken.
LEMMA ForwardStep ==
    ASSUME IInv, [Next]_vars
    PROVE  location'.token < location.token => location'.token \in {0} \cup overtaken
<1>1. location \in [state : {"unset", "ok", "expired"}, cookies : Cookies, token : Token]
  BY DEF IInv, TypeOK
<1>2. ASSUME NEW r \in Run, Commit(r)
      PROVE  location'.token < location.token => location'.token \in {0} \cup overtaken
  <2>1. location'.token = IF run[r].wrote # 0 THEN run[r].wrote ELSE location.token
    BY <1>1, <1>2 DEF Commit
  <2>2. run[r].wrote # 0 => location.token < run[r].wrote
    BY Types DEF Safe, Ages
  <2>3. QED
    BY <2>1, <2>2, Types
<1>3. ASSUME NEW g \in grants, CallbackStores(g)
      PROVE  location'.token < location.token => location'.token \in {0} \cup overtaken
  <2>1. location'.token = g /\ (g \notin overtaken => location.token < g)
    BY <1>1, <1>3, Types DEF CallbackStores, Safe, GrantIsNewest
  <2>2. QED
    BY <2>1, Types
<1>4. CASE Revoke \/ ImportCookies
  <2>1. location'.token = 0 \/ location'.token = location.token
    BY <1>1, <1>4 DEF Revoke, ImportCookies
  <2>2. QED
    BY <2>1, Types
<1>5. ASSUME NEW r \in Run,
             \/ DatabaseFails(r) \/ Die(r) \/ (RunStep(r) /\ ~Commit(r))
      PROVE  location' = location
  BY <1>5 DEF DatabaseFails, Die, RunStep, Start, SessionRefused, FetchFails, Fetch, Persist,
              NeedsRefresh, RequestRefused, PushDone, Refresh, RefreshTimesOut, RefreshRefused
<1>6. ASSUME \/ CallbackExchanges \/ (\E g \in grants : CallbackFails(g))
             \/ SessionEnds \/ TokenAges \/ Uninstall \/ UNCHANGED vars
      PROVE  location' = location
  BY <1>6 DEF CallbackExchanges, CallbackFails, SessionEnds, TokenAges, Uninstall, vars
<1>7. location' = location => location'.token = location.token /\ ~(location.token < location.token)
  BY Types
<1>8. QED
  BY <1>2, <1>3, <1>4, <1>5, <1>6, <1>7 DEF Next, RunStep

\* No run takes the token column back to an older pair, for any number of runs,
\* each with its own old copy of the row, and no callback that was not overtaken
\* does (client.py, ghl_oauth.py).
THEOREM Forward == Spec => TokenForward
<1>1. IInv /\ [Next]_vars =>
        [location'.token < location.token => location'.token \in {0} \cup overtaken]_vars
  BY ForwardStep
<1>2. QED
  BY <1>1, Invariance, PTL DEF Spec, TokenForward

=============================================================================
