-------------------------------- MODULE Ingest --------------------------------
(***************************************************************************)
(* Filling the tables of one location from Eversports exports: the one     *)
(* transaction of run_bootstrap (app/ingest/bootstrap.py), which a sync    *)
(* run or POST /bootstrap commits, and POST /bootstrap/reset               *)
(* (app/api/v1/admin/bootstrap.py), which takes the last of them back.     *)
(*                                                                         *)
(* The transactions are Postgres's, at its default READ COMMITTED: a       *)
(* statement sees what is committed when it looks at a row, and what its   *)
(* own transaction has written; it waits for a row that another has        *)
(* written; and of transactions that wait for each other one is ended.     *)
(***************************************************************************)
EXTENDS Naturals, Sequences, FiniteSets

CONSTANTS Email,    \* people with an address: the key of their contact
          Nameless, \* people without: keyed by name and phone within a file
          Class,    \* class instances, by start, activity and trainer
          Untaught, \* those of them whose key has a NULL, which is never equal
          Run,      \* transactions of run_bootstrap, by bootstrap_run_id
          Reset,    \* requests to reset
          Upload    \* the files a run may be given

None == "none"
NoEmail == "no email"
Person == Email \cup Nameless
Actor == Run \cup Reset

Attendance == {"attended", "no_show", "late_cancel", "unknown"}
NoShow == {"no_show", "late_cancel"}

\* A row as parse_bookings_csv, parse_noshows_csv and parse_activities_csv return
\* it; a row that does not parse is one that is not there.
BookingRow == [kind : {"booking"}, who : Person, class : Class, mark : Attendance]
NoShowRow == [kind : {"noshow"}, who : Person, class : Class, mark : NoShow]
ActivityRow == [kind : {"activity"}, who : {None}, class : Class, mark : {None}]
FileRow == BookingRow \cup NoShowRow \cup ActivityRow

ASSUME IngestAssumption ==
    /\ IsFiniteSet(Run)
    /\ Run \cap Reset = {} /\ None \notin Actor
    /\ Email \cap Nameless = {} /\ {None, NoEmail} \cap Person = {}
    /\ Untaught \subseteq Class

\* The rows of a run's files, in the order in which run_bootstrap visits them.  A
\* file that does not parse is one that is not there.
ASSUME UploadAssumption ==
    /\ Upload \subseteq Seq(FileRow)
    /\ \A u \in Upload : \A i \in DOMAIN u :
          /\ \A j \in DOMAIN u : u[j].kind = "booking" /\ u[i].kind # "booking" => j < i
          /\ \A j \in DOMAIN u : u[j].kind = "noshow" /\ u[i].kind = "activity" => j < i

-----------------------------------------------------------------------------
(* The tables.  A place is what a unique index lets at most one row have.  *)

\* uq_contacts_location_email; without an address every insert is a new row.
ContactPlace(k, r) == <<"contact", k, IF k \in Email THEN None ELSE r>>

\* uq_bookings_location_booking, by _synthesise_booking_id.
BookingPlace(k, c) == <<"booking", IF k \in Email THEN k ELSE NoEmail, c>>

\* uq_sessions_location_start_activity_trainer; NULL is never equal to NULL.
SessionPlace(c, r) == <<"session", c, IF c \in Untaught THEN r ELSE None>>

LogPlace(r) == <<"log", r, None>>
Location == <<"location", None, None>>

Contact == {ContactPlace(k, r) : k \in Person, r \in Run}
Booking == {BookingPlace(k, c) : k \in Person, c \in Class}
Session == {SessionPlace(c, r) : c \in Class, r \in Run}
Log == {LogPlace(r) : r \in Run}
Place == Contact \cup Booking \cup Session \cup Log \cup {Location}

\* by is bootstrap_run_id; contact is the id of a contact, in its own row and in
\* those of its bookings, made of who it is for and which run inserted it; mark
\* is attendance_status or historical_sync_flag.
ContactId == Person \X Run
NoId == <<None, None>>
NoRow == [by |-> None, contact |-> NoId, mark |-> None]
Row == [by : Run \cup {None}, contact : ContactId \cup {NoId},
        mark : Attendance \cup {None, "pending", "complete"}]

VARIABLES db,     \* the committed rows, by place
          new,    \* the same with what open transactions have written
          writer, \* the transaction that has written a place, or None
          run,    \* what each run is doing
          reset,  \* what each reset is doing
          begun   \* the order in which the runs' transactions began

vars == <<db, new, writer, run, reset, begun>>
tables == <<db, new, writer>>

Ended == {"committed", "rolled back"}

\* at counts the rows done; ids is email_to_contact_id.
RunState == [pc : {"idle", "running", "written"} \cup Ended, upload : Upload \cup {<<>>},
             at : Nat, ids : [Person -> ContactId \cup {NoId}]]

TypeOK ==
    /\ db \in [Place -> Row]
    /\ new \in [Place -> Row]
    /\ writer \in [Place -> Actor \cup {None}]
    /\ run \in [Run -> RunState]
    /\ reset \in [Reset -> [pc : {"idle", "deleting"} \cup Ended, target : Run \cup {None}]]
    /\ begun \in [Run -> Nat]

Init ==
    /\ db = [x \in Place |-> IF x = Location THEN [NoRow EXCEPT !.mark = "pending"] ELSE NoRow]
    /\ new = db
    /\ writer = [x \in Place |-> None]
    /\ run = [r \in Run |-> [pc |-> "idle", upload |-> <<>>, at |-> 0,
                             ids |-> [k \in Person |-> NoId]]]
    /\ reset = [q \in Reset |-> [pc |-> "idle", target |-> None]]
    /\ begun = [r \in Run |-> 0]

-----------------------------------------------------------------------------
(* Postgres (external).                                                    *)

\* What a statement of transaction a sees at a place, and whether it may write.
Seen(a, x) == IF writer[x] = a THEN new[x] ELSE db[x]
Free(a, x) == writer[x] \in {a, None}

Write(a, x, row) ==
    /\ Free(a, x)
    /\ new' = [new EXCEPT ![x] = row]
    /\ writer' = [writer EXCEPT ![x] = a]
    /\ UNCHANGED db

\* Mutant: what somebody else is inserting counts as inserted.
InsertUnlessBusy(a, x, row) ==
    IF Seen(a, x) = NoRow /\ Free(a, x) THEN Write(a, x, row) ELSE UNCHANGED tables

\* INSERT ... ON CONFLICT waits for a writer of that place to end, and only then
\* knows whether there is a row; DO NOTHING then writes nothing.
InsertIgnore(a, x, row) ==
    IF Seen(a, x) = NoRow THEN Write(a, x, row) ELSE Free(a, x) /\ UNCHANGED tables

CommitTables(a) ==
    /\ db' = [x \in Place |-> IF writer[x] = a THEN new[x] ELSE db[x]]
    /\ new' = new
    /\ writer' = [x \in Place |-> IF writer[x] = a THEN None ELSE writer[x]]

RollbackTables(a) ==
    /\ db' = db
    /\ new' = [x \in Place |-> IF writer[x] = a THEN db[x] ELSE new[x]]
    /\ writer' = [x \in Place |-> IF writer[x] = a THEN None ELSE writer[x]]

-----------------------------------------------------------------------------
(* run_bootstrap.                                                          *)

\* The files are there, the session is open; the transaction begins.
Start(r) ==
    /\ run[r].pc = "idle"
    /\ \E u \in Upload : run' = [run EXCEPT ![r].pc = "running", ![r].upload = u]
    /\ begun' = [begun EXCEPT ![r] = 1 + Cardinality({s \in Run : begun[s] > 0})]
    /\ UNCHANGED <<tables, reset>>

\* The booking rows whose contact has no id yet; people are upserted in the order
\* of their first booking row.
Unowned(r) ==
    LET u == run[r].upload
    IN {i \in DOMAIN u : u[i].kind = "booking" /\ run[r].ids[u[i].who] = NoId}

Newcomers(r) ==
    {run[r].upload[i].who : i \in {i \in Unowned(r) : \A j \in Unowned(r) : i <= j}}

\* Then the rows are visited one after the other.
Visiting(r, kind) ==
    /\ run[r].pc = "running"
    /\ Unowned(r) = {}
    /\ run[r].at < Len(run[r].upload)
    /\ run[r].upload[run[r].at + 1].kind = kind
    /\ run' = [run EXCEPT ![r].at = @ + 1]

Visited(r) == run[r].upload[run[r].at + 1]
PlaceOf(f, r) ==
    IF f.kind = "activity" THEN SessionPlace(f.class, r) ELSE BookingPlace(f.who, f.class)

\* Mutant: the update sets the id too.
FreshId(r, k) == <<k, r>>

\* RETURNING: the row that is there keeps its id.
ReturnedId(r, k) ==
    LET old == Seen(r, ContactPlace(k, r)) IN IF old = NoRow THEN <<k, r>> ELSE old.contact

\* _upsert_contact: ON CONFLICT DO UPDATE, which sets this run's values and its
\* bootstrap_run_id.
UpsertContact(r) ==
    /\ run[r].pc = "running"
    /\ \E k \in Newcomers(r) :
          /\ Write(r, ContactPlace(k, r), [NoRow EXCEPT !.by = r, !.contact = ReturnedId(r, k)])
          /\ run' = [run EXCEPT ![r].ids[k] = ReturnedId(r, k)]
    /\ UNCHANGED <<reset, begun>>

\* _insert_ignore_booking: a booking that is there keeps all its values.
InsertBooking(r) ==
    /\ Visiting(r, "booking")
    /\ LET f == Visited(r) IN
          InsertIgnore(r, PlaceOf(f, r), [by |-> r, contact |-> run[r].ids[f.who], mark |-> f.mark])
    /\ UNCHANGED <<reset, begun>>

\* Step 2c: UPDATE by booking id.  Rows without email are skipped, and an update
\* of what the statement does not see touches nothing and waits for nobody.
Updates(f, r) == f.who \in Email /\ Seen(r, PlaceOf(f, r)) # NoRow

RecordNoShow(r) ==
    /\ Visiting(r, "noshow")
    /\ LET f == Visited(r)
           x == PlaceOf(f, r)
       IN IF Updates(f, r) THEN Write(r, x, [Seen(r, x) EXCEPT !.mark = f.mark])
                           ELSE UNCHANGED tables
    /\ UNCHANGED <<reset, begun>>

\* _insert_ignore_session.
InsertSession(r) ==
    /\ Visiting(r, "activity")
    /\ InsertIgnore(r, PlaceOf(Visited(r), r), [NoRow EXCEPT !.by = r])
    /\ UNCHANGED <<reset, begun>>

\* Steps 7 and 8: the sync_log row, and the flag on the locations row.
AllVisited(r) == Unowned(r) = {} /\ run[r].at = Len(run[r].upload)

\* Mutant: the value that the endpoint's documentation has.
FlagInDocs == "bootstrapped"

FlagWhenDone == "complete"

LogAndFlag(r) ==
    /\ run[r].pc = "running" /\ AllVisited(r)
    /\ Free(r, Location)
    /\ new' = [new EXCEPT ![LogPlace(r)] = [NoRow EXCEPT !.by = r],
                          ![Location] = [NoRow EXCEPT !.mark = FlagWhenDone]]
    /\ writer' = [writer EXCEPT ![LogPlace(r)] = r, ![Location] = r]
    /\ run' = [run EXCEPT ![r].pc = "written"]
    /\ UNCHANGED <<db, reset, begun>>

\* The caller's commit: the endpoint's at once, a sync run's after its push to GHL.
Commit(r) ==
    /\ run[r].pc = "written"
    /\ CommitTables(r)
    /\ run' = [run EXCEPT ![r].pc = "committed"]
    /\ UNCHANGED <<reset, begun>>

RunRollsBack(r) ==
    /\ run[r].pc \in {"running", "written"}
    /\ RollbackTables(r)
    /\ run' = [run EXCEPT ![r].pc = "rolled back"]
    /\ UNCHANGED <<reset, begun>>

-----------------------------------------------------------------------------
(* reset_bootstrap.                                                        *)

\* The bootstrap row of sync_log with the latest created_at, which is the time
\* its transaction began.
Logged == {r \in Run : db[LogPlace(r)] # NoRow}
Last == {r \in Logged : \A s \in Logged : begun[s] <= begun[r]}

ReadLast(q) ==
    /\ reset[q].pc = "idle"
    /\ \E t \in IF Logged = {} THEN {None} ELSE Last :
          reset' = [reset EXCEPT ![q] = [pc |-> "deleting", target |-> t]]
    /\ UNCHANGED <<tables, run, begun>>

Targeted(q, T) == {x \in T : Seen(q, x) # NoRow /\ Seen(q, x).by = reset[q].target}

\* Mutant: sessions are forgotten.
DoomedNotSessions(q) ==
    IF Targeted(q, Booking) # {} THEN Targeted(q, Booking)
    ELSE IF Targeted(q, Contact) # {} THEN Targeted(q, Contact) ELSE Targeted(q, Log)

\* What is left to delete of the first table that is not done.
Doomed(q) ==
    IF Targeted(q, Booking) # {} THEN Targeted(q, Booking)
    ELSE IF Targeted(q, Contact) # {} THEN Targeted(q, Contact)
    ELSE IF Targeted(q, Session) # {} THEN Targeted(q, Session) ELSE Targeted(q, Log)

DeleteRow(q) ==
    /\ reset[q].pc = "deleting"
    /\ \E x \in Doomed(q) : Write(q, x, NoRow)
    /\ UNCHANGED <<run, reset, begun>>

\* The flag goes back, whatever was found, and the request commits.
FinishReset(q) ==
    /\ reset[q].pc = "deleting" /\ Doomed(q) = {}
    /\ Free(q, Location)
    /\ LET unset == [NoRow EXCEPT !.mark = "pending"] IN
          /\ db' = [x \in Place |-> IF x = Location THEN unset
                                    ELSE IF writer[x] = q THEN new[x] ELSE db[x]]
          /\ new' = [new EXCEPT ![Location] = unset]
    /\ writer' = [x \in Place |-> IF writer[x] = q THEN None ELSE writer[x]]
    /\ reset' = [reset EXCEPT ![q].pc = "committed"]
    /\ UNCHANGED <<run, begun>>

ResetRollsBack(q) ==
    /\ reset[q].pc = "deleting"
    /\ RollbackTables(q)
    /\ reset' = [reset EXCEPT ![q].pc = "rolled back"]
    /\ UNCHANGED <<run, begun>>

-----------------------------------------------------------------------------
(* Whatever ends a transaction against its will.                           *)

RollsBack(a) == IF a \in Run THEN RunRollsBack(a) ELSE ResetRollsBack(a)

\* The places that the next statement of a transaction may be waiting for.
RunWants(r) ==
    IF run[r].pc # "running" THEN {}
    ELSE IF Newcomers(r) # {} THEN {ContactPlace(k, r) : k \in Newcomers(r)}
    ELSE IF AllVisited(r) THEN {Location}
    ELSE IF Visited(r).kind = "noshow" /\ ~Updates(Visited(r), r) THEN {}
    ELSE {PlaceOf(Visited(r), r)}

ResetWants(q) ==
    IF reset[q].pc # "deleting" THEN {}
    ELSE IF Doomed(q) # {} THEN Doomed(q) ELSE {Location}

Wants(a) == IF a \in Run THEN RunWants(a) ELSE ResetWants(a)

Blocked == {a \in Actor : Wants(a) # {} /\ \A x \in Wants(a) : ~Free(a, x)}

\* Mutant: nobody looks for deadlocks.
DeadlockIgnored(S) == FALSE

\* Transactions that wait for each other and for nobody else, and no fewer of
\* them: Postgres ends one (external).
WaitInside(S) == \A a \in S : \A x \in Wants(a) : writer[x] \in S

Deadlocked(S) == WaitInside(S) /\ \A T \in SUBSET S \ {{}} : WaitInside(T) => T = S

Victim(a) == (\E S \in SUBSET Blocked : a \in S /\ Deadlocked(S)) /\ RollsBack(a)

\* A statement raises, or the process dies.
Fails(a) == RollsBack(a)

RunStep(r) ==
    \/ Start(r) \/ UpsertContact(r) \/ InsertBooking(r) \/ RecordNoShow(r)
    \/ InsertSession(r) \/ LogAndFlag(r) \/ Commit(r)

ResetStep(q) == ReadLast(q) \/ DeleteRow(q) \/ FinishReset(q)

Next ==
    \/ \E r \in Run : RunStep(r)
    \/ \E q \in Reset : ResetStep(q)
    \/ \E a \in Actor : Victim(a) \/ Fails(a)

Spec == Init /\ [][Next]_vars

\* Somebody whose transaction has begun and whose statement has what it waits for
\* goes on, and Postgres looks for deadlocks.
Goes ==
    \/ \E r \in Run : run[r].pc # "idle" /\ RunStep(r)
    \/ \E q \in Reset : reset[q].pc # "idle" /\ ResetStep(q)
    \/ \E a \in Actor : Victim(a)

Fairness == WF_vars(Goes)

FairSpec == Spec /\ Fairness

-----------------------------------------------------------------------------
(* Properties.                                                             *)

NeverReset == \A q \in Reset : reset[q].pc # "committed"
Rows(r, kind) == {run[r].upload[i] : i \in {i \in DOMAIN run[r].upload : run[r].upload[i].kind = kind}}
Committed == {r \in Run : run[r].pc = "committed"}
InFlight == {r \in Run : run[r].pc \in {"running", "written"}}
                \cup {q \in Reset : reset[q].pc = "deleting"}

\* sync_log tells what is in the tables: every row that an ingest left names a run
\* that is logged, so a reset can find it, and the flag says complete only while
\* some run is.  That holds for rows one run took over from another which then
\* rolled back, for rows written while a reset ran, and for two resets at once.
Traceable ==
    /\ \A x \in Contact \cup Booking \cup Session : db[x] # NoRow => db[x].by \in Logged
    /\ db[Location].mark = FlagWhenDone => Logged # {}

\* A booking is its owner's, and until a reset deletes contacts the owner is
\* there: the id an upsert returned is that of the row that stays, whoever
\* inserted it (email_to_contact_id; the column is no foreign key).
BookingsOwned ==
    \A x \in Booking : db[x] # NoRow =>
        LET id == db[x].contact IN
        /\ id # NoId /\ x[2] = IF id[1] \in Email THEN id[1] ELSE NoEmail
        /\ NeverReset => \E y \in Contact : db[y] # NoRow /\ db[y].contact = id

\* Until somebody resets, a committed run's files are in the tables, also what it
\* left out because another run had inserted it (ON CONFLICT DO NOTHING): every
\* person, every class, and the booking of everybody who has an address, with the
\* contact that is theirs.  Of several people without one who are booked on the same
\* class only one keeps the booking, for all have the same booking id
\* (_synthesise_booking_id).  And a no-show uploaded with its booking stays one,
\* whatever exports with an older or a blank attendance come at the same time or later.
FilesKept ==
    NeverReset =>
        \A r \in Committed :
            /\ \A f \in Rows(r, "booking") :
                  /\ db[ContactPlace(f.who, r)] # NoRow /\ db[PlaceOf(f, r)] # NoRow
                  /\ f.who \in Email => db[PlaceOf(f, r)].contact
                                            = db[ContactPlace(f.who, r)].contact
            /\ \A f \in Rows(r, "activity") : db[PlaceOf(f, r)] # NoRow
            /\ \A f \in Rows(r, "noshow"), g \in Rows(r, "booking") :
                  (f.who \in Email /\ PlaceOf(g, r) = PlaceOf(f, r))
                      => db[PlaceOf(f, r)].mark \in NoShow

\* Transactions that began end, though uploads list people in different orders
\* and a reset deletes bookings before contacts, which a run writes the other way.
TransactionsEnd == InFlight # {} ~> InFlight = {}

=============================================================================
