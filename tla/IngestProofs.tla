----------------------------- MODULE IngestProofs -----------------------------
(***************************************************************************)
(* Ingest for any people, classes, uploads, runs and resets: the tables    *)
(* under every interleaving of transactions, rollbacks and resets.         *)
(***************************************************************************)
EXTENDS Ingest, FiniteSetTheorems, TLAPS

\* A transaction under way.
Open(a) ==
    \/ a \in Run /\ run[a].pc \in {"running", "written"}
    \/ a \in Reset /\ reset[a].pc = "deleting"

Data == Contact \cup Booking \cup Session

Key(k) == IF k \in Email THEN k ELSE NoEmail

\* An uncommitted row is of an open transaction.
LockOK(x) ==
    /\ writer[x] = None => new[x] = db[x]
    /\ writer[x] # None => Open(writer[x])

\* A run writes rows, its own or those of a run before it, and its own log row.
RunWrote(x) ==
    writer[x] \in Run =>
        /\ new[x] # NoRow
        /\ x \in Data => new[x].by = writer[x] \/ (db[x] # NoRow /\ new[x].by = db[x].by)
        /\ x \in Log => x = LogPlace(writer[x]) /\ new[x].by = writer[x]

\* A reset only deletes, what is there.
ResetWrote(x) == writer[x] \in Reset => new[x] = NoRow /\ db[x] # NoRow

\* A contact keeps the id it has.
ContactOK(x) ==
    x \in Contact =>
        /\ db[x] # NoRow => db[x].contact # NoId /\ db[x].contact[1] = x[2]
        /\ writer[x] \in Run =>
              /\ new[x].contact # NoId /\ new[x].contact[1] = x[2]
              /\ db[x] # NoRow => new[x].contact = db[x].contact

\* A booking has the id of a contact from the table or from the run's map, and
\* stays a no-show.
BookingOK(x) ==
    x \in Booking =>
        /\ db[x] # NoRow => db[x].contact # NoId /\ x[2] = Key(db[x].contact[1])
        /\ writer[x] \in Run =>
              /\ new[x].contact # NoId /\ x[2] = Key(new[x].contact[1])
              /\ \/ db[x] # NoRow /\ new[x].contact = db[x].contact
                 \/ \E k \in Person : run[writer[x]].ids[k] = new[x].contact
              /\ db[x] # NoRow /\ db[x].mark \in NoShow => new[x].mark \in NoShow

\* A run is logged by its commit.
LogOK(x) ==
    \A r \in Run : x = LogPlace(r) /\ db[x] # NoRow => run[r].pc = "committed" /\ db[x].by = r

PlaceOK(x) ==
    LockOK(x) /\ RunWrote(x) /\ ResetWrote(x) /\ ContactOK(x) /\ BookingOK(x) /\ LogOK(x)

\* The ids a run has are of contacts it has written; a run that has written its
\* log row has visited every row.
RunOK(r) ==
    /\ run[r].at <= Len(run[r].upload)
    /\ run[r].pc = "idle" => run[r].at = 0 /\ \A k \in Person : run[r].ids[k] = NoId
    /\ Open(r) => \A k \in Person : run[r].ids[k] # NoId =>
          LET y == ContactPlace(k, r) IN writer[y] = r /\ new[y].contact = run[r].ids[k]
    /\ run[r].pc = "written" =>
          writer[LogPlace(r)] = r /\ Unowned(r) = {} /\ run[r].at = Len(run[r].upload)

\* A reset takes the log row after the rows that name it.
DeletedWithRows ==
    \A s \in Run, q \in Reset : writer[LogPlace(s)] = q =>
        \A y \in Data : db[y] # NoRow /\ db[y].by = s => writer[y] = q

\* Until a reset, what a run has visited is there or will be.
KeptAt(f, r) ==
    LET x == PlaceOf(f, r)
    IN /\ f.kind # "noshow" => writer[x] = r \/ db[x] # NoRow
       /\ (/\ f.kind = "noshow" /\ f.who \in Email
           /\ \E g \in Rows(r, "booking") : PlaceOf(g, r) = x)
             => writer[x] = r /\ new[x].mark \in NoShow

KeptSoFar(r) ==
    NeverReset /\ Open(r) => \A i \in 1..run[r].at : KeptAt(run[r].upload[i], r)

Consistent ==
    /\ \A x \in Place : PlaceOK(x)
    /\ \A r \in Run : RunOK(r)
    /\ DeletedWithRows

\* Of the files of a committed run something is at every place.
FilesThere ==
    NeverReset =>
        \A r \in Committed :
            /\ \A f \in Rows(r, "booking") :
                  db[PlaceOf(f, r)] # NoRow /\ db[ContactPlace(f.who, r)] # NoRow
            /\ \A f \in Rows(r, "activity") : db[PlaceOf(f, r)] # NoRow
            /\ \A f \in Rows(r, "noshow"), g \in Rows(r, "booking") :
                  (f.who \in Email /\ PlaceOf(g, r) = PlaceOf(f, r))
                      => db[PlaceOf(f, r)].mark \in NoShow

Kept == (\A r \in Run : KeptSoFar(r)) /\ FilesThere

IInv == TypeOK /\ Consistent /\ Traceable /\ BookingsOwned /\ Kept

-----------------------------------------------------------------------------
(* Places, rows and actors.                                                *)

LEMMA Actors ==
    /\ None \notin Run /\ None \notin Reset /\ Run \cap Reset = {}
    /\ Actor = Run \cup Reset
    /\ \A r \in Run : r # None /\ r \notin Reset
    /\ \A q \in Reset : q # None /\ q \notin Run
BY IngestAssumption DEF Actor

LEMMA PlaceTags ==
    /\ \A x \in Contact : x[1] = "contact"
    /\ \A x \in Booking : x[1] = "booking"
    /\ \A x \in Session : x[1] = "session"
    /\ \A x \in Log : x[1] = "log"
    /\ Location[1] = "location"
BY DEF Contact, ContactPlace, Booking, BookingPlace, Session, SessionPlace, Log, LogPlace, Location

LEMMA Places ==
    /\ Place = Data \cup Log \cup {Location}
    /\ Data \cap Log = {} /\ Location \notin Data \cup Log
    /\ Contact \cap Booking = {} /\ Contact \cap Session = {} /\ Booking \cap Session = {}
<1>1. Place = Data \cup Log \cup {Location}
  BY DEF Place, Data
<1>2. /\ Data \cap Log = {} /\ Location \notin Data \cup Log
      /\ Contact \cap Booking = {} /\ Contact \cap Session = {} /\ Booking \cap Session = {}
  BY PlaceTags DEF Data
<1>3. QED
  BY <1>1, <1>2

LEMMA PlacesOf ==
    /\ \A k \in Person, r \in Run : ContactPlace(k, r) \in Contact /\ ContactPlace(k, r)[2] = k
    /\ \A k \in Person, c \in Class : /\ BookingPlace(k, c) \in Booking
                                      /\ BookingPlace(k, c)[2] = Key(k)
    /\ \A c \in Class, r \in Run : SessionPlace(c, r) \in Session
    /\ \A r, s \in Run : LogPlace(r) \in Log /\ (LogPlace(r) = LogPlace(s) => r = s)
BY DEF Contact, ContactPlace, Booking, BookingPlace, Session, SessionPlace, Log, LogPlace, Key

LEMMA LogPlaces == \A x \in Log : \E r \in Run : x = LogPlace(r)
BY DEF Log

LEMMA Ids ==
    /\ NoId \notin ContactId
    /\ \A id \in ContactId : id # NoId /\ id[1] \in Person
    /\ \A k \in Person, r \in Run : <<k, r>> \in ContactId /\ <<k, r>>[1] = k
BY IngestAssumption DEF NoId, ContactId, Person

LEMMA NewRows ==
    /\ NoRow \in Row /\ NoRow.by = None /\ NoRow.contact = NoId /\ NoRow.mark = None
    /\ \A r \in Run : [NoRow EXCEPT !.by = r] \in Row /\ [NoRow EXCEPT !.by = r].by = r
    /\ \A m \in {"pending", "complete"} :
          [NoRow EXCEPT !.mark = m] \in Row /\ [NoRow EXCEPT !.mark = m] # NoRow
<1>1. NoRow \in Row /\ NoRow.by = None /\ NoRow.contact = NoId /\ NoRow.mark = None
  BY DEF NoRow, Row
<1>2. ASSUME NEW r \in Run
      PROVE  [NoRow EXCEPT !.by = r] \in Row /\ [NoRow EXCEPT !.by = r].by = r
  BY DEF NoRow, Row
<1>3. ASSUME NEW m \in {"pending", "complete"}
      PROVE  [NoRow EXCEPT !.mark = m] \in Row /\ [NoRow EXCEPT !.mark = m] # NoRow
  <2>1. [NoRow EXCEPT !.mark = m] \in Row /\ [NoRow EXCEPT !.mark = m].mark = m
    BY DEF NoRow, Row
  <2>2. NoRow.mark # m
    BY DEF NoRow, None
  <2>3. QED
    BY <2>1, <2>2
<1>4. QED
  BY <1>1, <1>2, <1>3

LEMMA ContactRows ==
    ASSUME NEW r \in Run, NEW id \in ContactId
    PROVE  LET row == [NoRow EXCEPT !.by = r, !.contact = id] IN
           row \in Row /\ row.by = r /\ row.contact = id
BY DEF NoRow, Row

LEMMA BookingRows ==
    ASSUME NEW r \in Run, NEW id \in ContactId, NEW m \in Attendance
    PROVE  LET row == [by |-> r, contact |-> id, mark |-> m] IN
           row \in Row /\ row.by = r /\ row.contact = id
BY DEF Row

LEMMA MarkedRows ==
    ASSUME NEW row \in Row, NEW m \in NoShow
    PROVE  LET marked == [row EXCEPT !.mark = m] IN
           /\ marked \in Row /\ marked.mark = m
           /\ marked.by = row.by /\ marked.contact = row.contact
BY DEF Row, NoShow, Attendance

LEMMA RowFields ==
    \A row \in Row : row.by \in Run \cup {None} /\ row.contact \in ContactId \cup {NoId}
BY DEF Row

\* What the parsers make of a row.
LEMMA RowsOfFiles ==
    ASSUME NEW f \in FileRow
    PROVE  /\ f.kind \in {"booking", "noshow", "activity"} /\ f.class \in Class
           /\ f.kind # "activity" => f.who \in Person
           /\ f.kind = "booking" => f.mark \in Attendance
           /\ f.kind = "noshow" => f.mark \in NoShow
<1>1. CASE f \in BookingRow
  BY <1>1 DEF BookingRow
<1>2. CASE f \in NoShowRow
  BY <1>2 DEF NoShowRow
<1>3. CASE f \in ActivityRow
  BY <1>3 DEF ActivityRow
<1>4. QED
  BY <1>1, <1>2, <1>3 DEF FileRow

\* A row of a file has a place.
LEMMA FileRows ==
    ASSUME NEW u \in Upload, NEW i \in DOMAIN u, NEW r \in Run
    PROVE  /\ u[i] \in FileRow
           /\ PlaceOf(u[i], r) \in Data
           /\ u[i].kind # "activity" => u[i].who \in Person /\ PlaceOf(u[i], r) \in Booking
           /\ u[i].kind = "activity" => PlaceOf(u[i], r) \in Session
           /\ u[i].kind = "booking" => u[i].mark \in Attendance
           /\ u[i].kind = "noshow" => u[i].mark \in NoShow
<1>1. u[i] \in FileRow
  BY UploadAssumption
<1>2. u[i].kind # "activity" => u[i].who \in Person
  BY <1>1, RowsOfFiles
<1>3. u[i].class \in Class /\ u[i].kind \in {"booking", "noshow", "activity"}
  BY <1>1, RowsOfFiles
<1>4. u[i].kind # "activity" => PlaceOf(u[i], r) \in Booking
  BY <1>2, <1>3, PlacesOf DEF PlaceOf
<1>5. u[i].kind = "activity" => PlaceOf(u[i], r) \in Session
  BY <1>3, PlacesOf DEF PlaceOf
<1>6. /\ u[i].kind = "booking" => u[i].mark \in Attendance
      /\ u[i].kind = "noshow" => u[i].mark \in NoShow
  BY <1>1, RowsOfFiles
<1>7. QED
  BY <1>1, <1>2, <1>4, <1>5, <1>6 DEF Data

LEMMA Types ==
    ASSUME TypeOK
    PROVE  /\ \A x \in Place : /\ db[x] \in Row /\ new[x] \in Row
                               /\ writer[x] \in Actor \cup {None}
           /\ \A r \in Run : /\ run[r].pc \in {"idle", "running", "written"} \cup Ended
                             /\ run[r].upload \in Upload \cup {<<>>}
                             /\ run[r].upload \in Seq(FileRow)
                             /\ Len(run[r].upload) \in Nat
                             /\ DOMAIN run[r].upload = 1..Len(run[r].upload)
                             /\ run[r].at \in Nat
                             /\ \A k \in Person : run[r].ids[k] \in ContactId \cup {NoId}
           /\ \A q \in Reset : /\ reset[q].pc \in {"idle", "deleting"} \cup Ended
                               /\ reset[q].target \in Run \cup {None}
<1>1. \A x \in Place : /\ db[x] \in Row /\ new[x] \in Row
                       /\ writer[x] \in Actor \cup {None}
  BY DEF TypeOK
<1>2. ASSUME NEW r \in Run
      PROVE  /\ run[r].pc \in {"idle", "running", "written"} \cup Ended
             /\ run[r].upload \in Upload \cup {<<>>}
             /\ run[r].upload \in Seq(FileRow)
             /\ Len(run[r].upload) \in Nat
             /\ DOMAIN run[r].upload = 1..Len(run[r].upload)
             /\ run[r].at \in Nat
             /\ \A k \in Person : run[r].ids[k] \in ContactId \cup {NoId}
  <2>1. run[r] \in RunState
    BY DEF TypeOK
  <2>2. run[r].upload \in Upload \cup {<<>>}
    BY <2>1 DEF RunState
  <2>3. <<>> \in Seq(FileRow)
    OBVIOUS
  <2>4. run[r].upload \in Seq(FileRow)
    BY <2>2, <2>3, UploadAssumption
  <2>5. Len(run[r].upload) \in Nat /\ DOMAIN run[r].upload = 1..Len(run[r].upload)
    BY <2>4
  <2>6. QED
    BY <2>1, <2>2, <2>4, <2>5 DEF RunState
<1>3. \A q \in Reset : /\ reset[q].pc \in {"idle", "deleting"} \cup Ended
                       /\ reset[q].target \in Run \cup {None}
  BY DEF TypeOK
<1>4. QED
  BY <1>1, <1>2, <1>3

\* The row that a running run is about to visit.
LEMMA RunRows ==
    ASSUME TypeOK, NEW r \in Run, NEW i \in 1..Len(run[r].upload)
    PROVE  /\ run[r].upload \in Upload /\ i \in DOMAIN run[r].upload
           /\ LET f == run[r].upload[i] IN
                 /\ f \in FileRow
                 /\ PlaceOf(f, r) \in Data
                 /\ f.kind # "activity" => f.who \in Person /\ PlaceOf(f, r) \in Booking
                 /\ f.kind = "activity" => PlaceOf(f, r) \in Session
                 /\ f.kind = "booking" => f.mark \in Attendance
                 /\ f.kind = "noshow" => f.mark \in NoShow
<1>1. run[r].upload \in Upload /\ i \in DOMAIN run[r].upload
  BY Types
<1>2. QED
  BY <1>1, FileRows

-----------------------------------------------------------------------------
(* What a step of one transaction leaves to the others.                    *)

LEMMA PlaceStands ==
    ASSUME NEW x, PlaceOK(x),
           db'[x] = db[x], new'[x] = new[x], writer'[x] = writer[x],
           writer[x] # None => Open(writer[x])',
           \A r \in Run, k \in Person : writer[x] = r /\ run[r].ids[k] # NoId
               => run'[r].ids[k] = run[r].ids[k],
           \A r \in Run : run[r].pc = "committed" => run'[r].pc = "committed"
    PROVE  PlaceOK(x)'
<1>1. LockOK(x)'
  BY DEF PlaceOK, LockOK
<1>2. RunWrote(x)' /\ ResetWrote(x)' /\ ContactOK(x)' /\ LogOK(x)'
  BY DEF PlaceOK, RunWrote, ResetWrote, ContactOK, LogOK
<1>3. BookingOK(x)'
  BY DEF PlaceOK, BookingOK
<1>4. QED
  BY <1>1, <1>2, <1>3 DEF PlaceOK

\* A row that is no longer written, and is as it was committed.
LEMMA PlaceSettles ==
    ASSUME NEW x, PlaceOK(x), x \in Contact => x \notin Booking,
           writer'[x] = None, new'[x] = db'[x],
           db'[x] \in {db[x], NoRow},
           \A r \in Run : run[r].pc = "committed" => run'[r].pc = "committed"
    PROVE  PlaceOK(x)'
<1>1. LockOK(x)' /\ RunWrote(x)' /\ ResetWrote(x)'
  BY Actors DEF LockOK, RunWrote, ResetWrote
<1>2. ContactOK(x)' /\ BookingOK(x)' /\ LogOK(x)'
  BY Actors DEF PlaceOK, ContactOK, BookingOK, LogOK
<1>3. QED
  BY <1>1, <1>2 DEF PlaceOK

LEMMA RunStands ==
    ASSUME NEW r \in Run, RunOK(r), run'[r] = run[r],
           \A x \in Place : writer[x] = r => writer'[x] = r /\ new'[x] = new[x]
    PROVE  RunOK(r)'
<1>1. \A k \in Person : ContactPlace(k, r) \in Place
  BY PlacesOf, Places DEF Data
<1>2. LogPlace(r) \in Place
  BY PlacesOf, Places
<1>3. Open(r)' => Open(r)
  BY Actors DEF Open
<1>4. Unowned(r)' = Unowned(r)
  BY DEF Unowned
<1>5. QED
  BY <1>1, <1>2, <1>3, <1>4 DEF RunOK

LEMMA KeptStays ==
    ASSUME TypeOK, NEW r \in Run, RunOK(r), KeptSoFar(r),
           run'[r].upload = run[r].upload, run'[r].at = run[r].at, Open(r)' => Open(r),
           \A x \in Place : writer[x] = r => writer'[x] = r /\ new'[x] = new[x],
           NeverReset' => NeverReset /\ \A x \in Data : db[x] # NoRow => db'[x] # NoRow
    PROVE  KeptSoFar(r)'
<1>1. Rows(r, "booking")' = Rows(r, "booking")
  BY DEF Rows
<1>2. \A i \in 1..run[r].at : PlaceOf(run[r].upload[i], r) \in Data
  BY RunRows, Types DEF RunOK
<1>3. Data \subseteq Place
  BY Places
<1>4. SUFFICES ASSUME NeverReset', Open(r)', NEW i \in 1..run[r].at
               PROVE  KeptAt(run[r].upload[i], r)'
  BY DEF KeptSoFar
<1>5. SUFFICES LET f == run[r].upload[i]
                   x == PlaceOf(f, r)
               IN /\ f.kind # "noshow" => writer'[x] = r \/ db'[x] # NoRow
                  /\ (/\ f.kind = "noshow" /\ f.who \in Email
                      /\ \E g \in Rows(r, "booking") : PlaceOf(g, r) = x)
                        => writer'[x] = r /\ new'[x].mark \in NoShow
  BY <1>1 DEF KeptAt, PlaceOf
<1>6. QED
  BY <1>2, <1>3, <1>4 DEF KeptSoFar, KeptAt

LEMMA KeptStands ==
    ASSUME TypeOK, NEW r \in Run, RunOK(r), KeptSoFar(r), run'[r] = run[r],
           \A x \in Place : writer[x] = r => writer'[x] = r /\ new'[x] = new[x],
           NeverReset' => NeverReset /\ \A x \in Data : db[x] # NoRow => db'[x] # NoRow
    PROVE  KeptSoFar(r)'
<1>1. Open(r)' => Open(r)
  BY Actors DEF Open
<1>2. QED
  BY <1>1, KeptStays

LEMMA FilesStand ==
    ASSUME FilesThere, NeverReset' => NeverReset, db' = db,
           \A r \in Run : run'[r].pc = "committed" \/ run[r].pc = "committed" => run'[r] = run[r]
    PROVE  FilesThere'
<1>1. Committed' = Committed
  BY DEF Committed
<1>2. \A r \in Committed : \A kind : Rows(r, kind)' = Rows(r, kind)
  BY DEF Committed, Rows
<1>3. QED
  BY <1>1, <1>2 DEF FilesThere, Committed

-----------------------------------------------------------------------------
(* A run writes a row.                                                     *)

LEMMA WriteEffect ==
    ASSUME TypeOK, NEW a \in Actor, NEW x \in Place, NEW row \in Row, Write(a, x, row)
    PROVE  /\ new' \in [Place -> Row] /\ writer' \in [Place -> Actor \cup {None}] /\ db' = db
           /\ writer[x] \in {a, None}
           /\ new'[x] = row /\ writer'[x] = a
           /\ \A y \in Place : y # x => new'[y] = new[y] /\ writer'[y] = writer[y]
BY DEF TypeOK, Write, Free

\* What a run may write at a place.
Fits(r, x, row) ==
    /\ row.by = r \/ (db[x] # NoRow /\ row.by = db[x].by)
    /\ x \in Contact =>
          /\ row.contact # NoId /\ row.contact[1] = x[2]
          /\ db[x] # NoRow => row.contact = db[x].contact
    /\ x \in Booking =>
          /\ row.contact # NoId /\ x[2] = Key(row.contact[1])
          /\ \/ db[x] # NoRow /\ row.contact = db[x].contact
             \/ \E k \in Person : run[r].ids[k] = row.contact
          /\ db[x] # NoRow /\ db[x].mark \in NoShow => row.mark \in NoShow

LEMMA UncommittedStands ==
    ASSUME Traceable, BookingsOwned, db' = db, reset' = reset
    PROVE  Traceable' /\ BookingsOwned' /\ (NeverReset' <=> NeverReset)
<1>1. Logged' = Logged
  BY DEF Logged
<1>2. NeverReset' <=> NeverReset
  BY DEF NeverReset
<1>3. QED
  BY <1>1, <1>2 DEF Traceable, BookingsOwned

\* The run goes on with its ids.
GoesOn(r) ==
    /\ reset' = reset
    /\ \A s \in Run : s # r => run'[s] = run[s]
    /\ run[r].pc = "running" /\ run'[r].pc = "running"
    /\ \A k \in Person : run[r].ids[k] # NoId => run'[r].ids[k] = run[r].ids[k]

LEMMA OpenStays ==
    ASSUME NEW r \in Run, GoesOn(r)
    PROVE  \A a \in Actor : Open(a) => Open(a)'
BY Actors DEF GoesOn, Open

LEMMA RunWrites ==
    ASSUME TypeOK, Consistent, Traceable, BookingsOwned,
           NEW r \in Run, GoesOn(r),
           NEW x \in Data, NEW row \in Row, Fits(r, x, row), Write(r, x, row)
    PROVE  /\ \A y \in Place : PlaceOK(y)'
           /\ \A s \in Run : s # r => RunOK(s)'
           /\ DeletedWithRows' /\ Traceable' /\ BookingsOwned'
<1>1. r \in Actor /\ x \in Place
  BY Actors, Places
<1>2. /\ db' = db /\ writer[x] \in {r, None} /\ new'[x] = row /\ writer'[x] = r
      /\ \A y \in Place : y # x => new'[y] = new[y] /\ writer'[y] = writer[y]
  BY <1>1, WriteEffect
<1>3. row # NoRow
  BY NewRows, Actors DEF Fits, Traceable, Data, Logged
<1>4. Open(r)'
  BY DEF Open, GoesOn
<1>5. ASSUME NEW y \in Place PROVE PlaceOK(y)'
  <2>1. PlaceOK(y)
    BY DEF Consistent
  <2>2. CASE y = x
    <3>1. LockOK(x)' /\ RunWrote(x)' /\ ResetWrote(x)'
      BY <1>2, <1>3, <1>4, Actors, Places DEF LockOK, RunWrote, ResetWrote, Fits
    <3>2. ContactOK(x)'
      BY <1>2, <2>1, <2>2 DEF PlaceOK, ContactOK, Fits
    <3>3. \A k \in Person : run[r].ids[k] = row.contact /\ row.contact # NoId
                => run'[r].ids[k] = row.contact
      BY DEF GoesOn
    <3>4. BookingOK(x)'
      BY <1>2, <2>1, <2>2, <3>3 DEF PlaceOK, BookingOK, Fits
    <3>5. LogOK(x)'
      BY PlacesOf, Places DEF LogOK
    <3>6. QED
      BY <2>2, <3>1, <3>2, <3>4, <3>5 DEF PlaceOK
  <2>3. CASE y # x
    <3>1. writer[y] # None => Open(writer[y])'
      BY <1>2, <2>1, <2>3, OpenStays, Types DEF PlaceOK, LockOK
    <3>2. \A s \in Run, k \in Person : run[s].ids[k] # NoId => run'[s].ids[k] = run[s].ids[k]
      BY DEF GoesOn
    <3>3. \A s \in Run : run[s].pc = "committed" => run'[s].pc = "committed"
      BY DEF GoesOn
    <3>4. writer'[y] = writer[y] /\ new'[y] = new[y] /\ db'[y] = db[y]
      BY <1>2, <2>3
    <3>5. QED
      BY <2>1, <3>1, <3>2, <3>3, <3>4, PlaceStands
  <2>4. QED
    BY <2>2, <2>3
<1>6. ASSUME NEW s \in Run, s # r PROVE RunOK(s)'
  <2>1. \A y \in Place : writer[y] = s => writer'[y] = s /\ new'[y] = new[y]
    BY <1>2, <1>6, Actors
  <2>2. QED
    BY <1>6, <2>1, RunStands DEF Consistent, GoesOn
<1>7. DeletedWithRows'
  <2>1. SUFFICES ASSUME NEW s \in Run, NEW q \in Reset, writer'[LogPlace(s)] = q,
                        NEW y \in Data, db'[y] # NoRow, db'[y].by = s
                 PROVE  writer'[y] = q
    BY DEF DeletedWithRows
  <2>2. LogPlace(s) # x /\ LogPlace(s) \in Place
    BY PlacesOf, Places
  <2>3. writer[y] = q
    BY <1>2, <2>1, <2>2 DEF Consistent, DeletedWithRows
  <2>4. y # x
    BY <1>2, <2>3, Actors
  <2>5. QED
    BY <1>2, <2>3, <2>4, Places
<1>8. Traceable' /\ BookingsOwned'
  BY <1>2, UncommittedStands DEF GoesOn
<1>9. QED
  BY <1>5, <1>6, <1>7, <1>8

\* A statement that writes nothing.
LEMMA RunSkips ==
    ASSUME TypeOK, Consistent, Traceable, BookingsOwned,
           NEW r \in Run, GoesOn(r), UNCHANGED tables
    PROVE  /\ \A y \in Place : PlaceOK(y)'
           /\ \A s \in Run : s # r => RunOK(s)'
           /\ DeletedWithRows' /\ Traceable' /\ BookingsOwned'
<1>1. db' = db /\ new' = new /\ writer' = writer
  BY DEF tables
<1>2. ASSUME NEW y \in Place PROVE PlaceOK(y)'
  <2>1. PlaceOK(y)
    BY DEF Consistent
  <2>2. writer[y] # None => Open(writer[y])'
    BY <1>1, <2>1, OpenStays, Types DEF PlaceOK, LockOK
  <2>3. \A s \in Run, k \in Person : run[s].ids[k] # NoId => run'[s].ids[k] = run[s].ids[k]
    BY DEF GoesOn
  <2>4. \A s \in Run : run[s].pc = "committed" => run'[s].pc = "committed"
    BY DEF GoesOn
  <2>5. QED
    BY <1>1, <2>1, <2>2, <2>3, <2>4, PlaceStands
<1>3. ASSUME NEW s \in Run, s # r PROVE RunOK(s)'
  BY <1>1, <1>3, RunStands DEF Consistent, GoesOn
<1>4. DeletedWithRows'
  BY <1>1 DEF Consistent, DeletedWithRows
<1>5. Traceable' /\ BookingsOwned'
  BY <1>1, UncommittedStands DEF GoesOn
<1>6. QED
  BY <1>2, <1>3, <1>4, <1>5

\* The other runs, and the committed ones.
Acts(r) ==
    /\ reset' = reset
    /\ \A s \in Run : s # r => run'[s] = run[s]
    /\ run[r].pc # "committed" /\ run'[r].pc # "committed"

LEMMA OthersKept ==
    ASSUME IInv, NEW r \in Run, Acts(r), db' = db,
           \A x \in Place, s \in Run : s # r /\ writer[x] = s => writer'[x] = s /\ new'[x] = new[x]
    PROVE  (\A s \in Run : s # r => KeptSoFar(s)') /\ FilesThere'
<1>1. NeverReset' <=> NeverReset
  BY DEF Acts, NeverReset
<1>2. ASSUME NEW s \in Run, s # r PROVE KeptSoFar(s)'
  BY <1>1, <1>2, KeptStands DEF IInv, Consistent, Kept, Acts
<1>3. FilesThere'
  <2>1. \A s \in Run : run'[s].pc = "committed" \/ run[s].pc = "committed" => run'[s] = run[s]
    BY DEF Acts
  <2>2. QED
    BY <1>1, <2>1, FilesStand DEF IInv, Kept
<1>4. QED
  BY <1>2, <1>3

\* What the run has done stays done.
Preserves(r) ==
    /\ db' = db
    /\ \A x \in Data : writer[x] = r => writer'[x] = r
    /\ \A x \in Booking : writer[x] = r /\ new[x].mark \in NoShow => new'[x].mark \in NoShow

\* A row is visited: the file and the ids stay as they are.
Visits(r) ==
    /\ GoesOn(r)
    /\ run'[r].upload = run[r].upload /\ run'[r].ids = run[r].ids
    /\ run[r].at < Len(run[r].upload) /\ run'[r].at = run[r].at + 1

LEMMA VisitingVisits ==
    ASSUME TypeOK, NEW r \in Run, NEW kind, Visiting(r, kind), reset' = reset
    PROVE  /\ run' \in [Run -> RunState] /\ Visits(r) /\ Unowned(r) = {}
           /\ Visited(r).kind = kind /\ Visited(r) = run[r].upload[run[r].at + 1]
           /\ run[r].at + 1 \in 1..Len(run[r].upload)
<1>1. run[r] \in RunState /\ run[r].at \in Nat /\ Len(run[r].upload) \in Nat
  BY Types DEF TypeOK
<1>2. run \in [Run -> RunState]
  BY DEF TypeOK
<1>3. run' = [run EXCEPT ![r] = [run[r] EXCEPT !.at = run[r].at + 1]]
  BY <1>2 DEF Visiting
<1>4. [run[r] EXCEPT !.at = run[r].at + 1] \in RunState
  BY <1>1 DEF RunState
<1>5. run' \in [Run -> RunState] /\ \A s \in Run : s # r => run'[s] = run[s]
  BY <1>2, <1>3, <1>4
<1>6. run'[r] = [run[r] EXCEPT !.at = run[r].at + 1]
  BY <1>2, <1>3
<1>7. /\ run'[r].pc = run[r].pc /\ run'[r].upload = run[r].upload
      /\ run'[r].ids = run[r].ids /\ run'[r].at = run[r].at + 1
  BY <1>1, <1>6 DEF RunState
<1>8. Visits(r)
  BY <1>5, <1>7 DEF Visits, GoesOn, Visiting
<1>9. QED
  BY <1>1, <1>5, <1>8 DEF Visiting, Visited

LEMMA VisitOK ==
    ASSUME TypeOK, Consistent, NEW r \in Run, Visits(r),
           \A x \in Contact : writer[x] = r => writer'[x] = r /\ new'[x] = new[x]
    PROVE  RunOK(r)'
<1>1. RunOK(r) /\ Open(r) /\ run[r].pc = "running" /\ run'[r].pc = "running"
  BY DEF Consistent, Visits, GoesOn, Open
<1>2. \A k \in Person : ContactPlace(k, r) \in Contact
  BY PlacesOf
<1>3. run'[r].at <= Len(run'[r].upload)
  BY Types DEF Visits
<1>4. \A k \in Person : run'[r].ids[k] # NoId =>
          LET y == ContactPlace(k, r) IN writer'[y] = r /\ new'[y].contact = run'[r].ids[k]
  BY <1>1, <1>2 DEF RunOK, Visits
<1>5. QED
  BY <1>1, <1>3, <1>4 DEF RunOK

LEMMA VisitKept ==
    ASSUME TypeOK, Consistent, NEW r \in Run, KeptSoFar(r), Visits(r), Preserves(r),
           NeverReset =>
              LET f == run[r].upload[run[r].at + 1]
                  x == PlaceOf(f, r)
              IN /\ f.kind # "noshow" => writer'[x] = r \/ db[x] # NoRow
                 /\ (/\ f.kind = "noshow" /\ f.who \in Email
                     /\ \E g \in Rows(r, "booking") : PlaceOf(g, r) = x)
                       => writer'[x] = r /\ new'[x].mark \in NoShow
    PROVE  KeptSoFar(r)'
<1>1. Open(r) /\ (NeverReset' <=> NeverReset) /\ db' = db
  BY DEF Visits, GoesOn, Open, NeverReset, Preserves
<1>2. Rows(r, "booking")' = Rows(r, "booking")
  BY DEF Rows, Visits
<1>3. run[r].at \in Nat /\ Len(run[r].upload) \in Nat
  BY Types
<1>4. SUFFICES ASSUME NeverReset, NEW i \in 1..(run[r].at + 1)
               PROVE  KeptAt(run[r].upload[i], r)'
  BY <1>1 DEF KeptSoFar, Visits
<1> SUFFICES LET f == run[r].upload[i]
                 x == PlaceOf(f, r)
             IN /\ f.kind # "noshow" => writer'[x] = r \/ db[x] # NoRow
                /\ (/\ f.kind = "noshow" /\ f.who \in Email
                    /\ \E g \in Rows(r, "booking") : PlaceOf(g, r) = x)
                      => writer'[x] = r /\ new'[x].mark \in NoShow
  BY <1>1, <1>2 DEF KeptAt, Visits, PlaceOf
<1>5. CASE i = run[r].at + 1
  BY <1>4, <1>5
<1>6. CASE i \in 1..run[r].at
  <2>1. i \in 1..Len(run[r].upload)
    BY <1>3, <1>6 DEF Visits
  <2>2. /\ PlaceOf(run[r].upload[i], r) \in Data
        /\ run[r].upload[i].kind = "noshow" => PlaceOf(run[r].upload[i], r) \in Booking
    BY <2>1, RunRows
  <2>3. QED
    BY <1>1, <1>4, <1>6, <2>2 DEF KeptSoFar, KeptAt, Preserves
<1>7. QED
  BY <1>3, <1>4, <1>5, <1>6

-----------------------------------------------------------------------------
(* The statements of a run.                                                *)

LEMMA UpsertContactKeepsIInv ==
    ASSUME IInv, NEW r \in Run, UpsertContact(r)
    PROVE  IInv'
<1>1. TypeOK /\ Consistent /\ Traceable /\ BookingsOwned /\ KeptSoFar(r) /\ RunOK(r)
  BY DEF IInv, Consistent, Kept
<1>2. PICK k \in Newcomers(r) :
         /\ Write(r, ContactPlace(k, r), [NoRow EXCEPT !.by = r, !.contact = ReturnedId(r, k)])
         /\ run' = [run EXCEPT ![r].ids[k] = ReturnedId(r, k)]
  BY DEF UpsertContact
<1>3. k \in Person /\ run[r].ids[k] = NoId
  <2>1. PICK i \in Unowned(r) : k = run[r].upload[i].who
    BY DEF Newcomers
  <2>2. i \in 1..Len(run[r].upload) /\ run[r].upload[i].kind = "booking" /\ run[r].ids[k] = NoId
    BY <1>1, <2>1, Types DEF Unowned
  <2>3. QED
    BY <1>1, <2>1, <2>2, RunRows
<1> DEFINE x == ContactPlace(k, r)
           id == ReturnedId(r, k)
           row == [NoRow EXCEPT !.by = r, !.contact = id]
<1>4. x \in Contact /\ x[2] = k /\ x \in Data /\ x \in Place /\ x \notin Booking
  BY <1>3, PlacesOf, Places DEF Data
<1>5. writer[x] \in {r, None}
  BY <1>2 DEF Write, Free
<1>6. id \in ContactId /\ id[1] = k /\ (db[x] # NoRow => id = db[x].contact)
  <2>1. PlaceOK(x) /\ db[x] \in Row /\ new[x] \in Row
    BY <1>1, <1>4, Types DEF Consistent
  <2>2. CASE Seen(r, x) = NoRow
    <3>1. db[x] = NoRow
      BY <1>5, <2>1, <2>2, Actors DEF Seen, PlaceOK, LockOK, RunWrote
    <3>2. QED
      BY <1>3, <2>2, <3>1, Ids DEF ReturnedId
  <2>3. CASE Seen(r, x) # NoRow
    <3>1. id = Seen(r, x).contact
      BY <2>3 DEF ReturnedId
    <3>2. /\ Seen(r, x).contact # NoId /\ Seen(r, x).contact[1] = x[2]
          /\ db[x] # NoRow => Seen(r, x).contact = db[x].contact
      BY <1>4, <1>5, <2>1, <2>3 DEF Seen, PlaceOK, ContactOK
    <3>3. Seen(r, x) \in Row
      BY <2>1 DEF Seen
    <3>4. QED
      BY <1>4, <3>1, <3>2, <3>3, RowFields
  <2>4. QED
    BY <2>2, <2>3
<1>7. row \in Row /\ row.by = r /\ row.contact = id
  BY <1>6, ContactRows
<1>8. Write(r, x, row)
  BY <1>2
<1>9. Fits(r, x, row)
  BY <1>4, <1>6, <1>7, Ids DEF Fits
<1>10. /\ run' \in [Run -> RunState]
       /\ \A s \in Run : s # r => run'[s] = run[s]
       /\ run'[r].pc = run[r].pc /\ run'[r].upload = run[r].upload /\ run'[r].at = run[r].at
       /\ run'[r].ids[k] = id
       /\ \A j \in Person : j # k => run'[r].ids[j] = run[r].ids[j]
  <2>1. run \in [Run -> RunState] /\ run[r] \in RunState
    BY <1>1 DEF TypeOK
  <2>2. run' = [run EXCEPT ![r] = [run[r] EXCEPT !.ids = [run[r].ids EXCEPT ![k] = id]]]
    BY <1>2, <2>1
  <2>3. run[r].ids \in [Person -> ContactId \cup {NoId}]
    BY <2>1 DEF RunState
  <2>4. [run[r].ids EXCEPT ![k] = id] \in [Person -> ContactId \cup {NoId}]
    BY <1>6, <2>3
  <2>5. [run[r] EXCEPT !.ids = [run[r].ids EXCEPT ![k] = id]] \in RunState
    BY <2>1, <2>4 DEF RunState
  <2>6. run'[r] = [run[r] EXCEPT !.ids = [run[r].ids EXCEPT ![k] = id]]
    BY <2>1, <2>2
  <2>7. run'[r].ids = [run[r].ids EXCEPT ![k] = id]
    BY <2>1, <2>6 DEF RunState
  <2>8. QED
    BY <1>3, <2>1, <2>2, <2>3, <2>5, <2>6, <2>7 DEF RunState
<1>11. reset' = reset /\ begun' = begun /\ run[r].pc = "running"
  BY DEF UpsertContact
<1>12. GoesOn(r)
  BY <1>3, <1>10, <1>11 DEF GoesOn
<1>13. /\ new' \in [Place -> Row] /\ writer' \in [Place -> Actor \cup {None}] /\ db' = db
       /\ new'[x] = row /\ writer'[x] = r
       /\ \A y \in Place : y # x => new'[y] = new[y] /\ writer'[y] = writer[y]
  BY <1>1, <1>4, <1>7, <1>8, WriteEffect, Actors
<1>14. TypeOK'
  BY <1>1, <1>10, <1>11, <1>13 DEF TypeOK
<1>15. /\ \A y \in Place : PlaceOK(y)'
       /\ \A s \in Run : s # r => RunOK(s)'
       /\ DeletedWithRows' /\ Traceable' /\ BookingsOwned'
  <2> HIDE DEF x, row
  <2>1. QED
    BY <1>1, <1>4, <1>7, <1>8, <1>9, <1>12, RunWrites
<1>16. RunOK(r)'
  <2>1. \A j \in Person : ContactPlace(j, r) \in Contact /\ ContactPlace(j, r) \in Place
                          /\ (j # k => ContactPlace(j, r) # x)
    BY <1>4, PlacesOf, Places DEF Data
  <2>2. Open(r)
    BY <1>11 DEF Open
  <2>3. \A j \in Person : run'[r].ids[j] # NoId =>
           LET y == ContactPlace(j, r) IN writer'[y] = r /\ new'[y].contact = run'[r].ids[j]
    <3> HIDE DEF x, row
    <3>1. SUFFICES ASSUME NEW j \in Person, run'[r].ids[j] # NoId
                   PROVE  /\ writer'[ContactPlace(j, r)] = r
                          /\ new'[ContactPlace(j, r)].contact = run'[r].ids[j]
      OBVIOUS
    <3>2. CASE j = k
      BY <1>7, <1>10, <1>13, <3>2 DEF x
    <3>3. CASE j # k
      BY <1>1, <1>10, <1>13, <2>1, <2>2, <3>1, <3>3 DEF RunOK
    <3>4. QED
      BY <3>2, <3>3
  <2>4. QED
    BY <1>1, <1>10, <1>11, <2>3 DEF RunOK
<1>17. KeptSoFar(r)'
  <2>1. Open(r) /\ (NeverReset' <=> NeverReset)
    BY <1>11 DEF Open, NeverReset
  <2>2. Rows(r, "booking")' = Rows(r, "booking")
    BY <1>10 DEF Rows
  <2>3. SUFFICES ASSUME NeverReset, NEW i \in 1..run[r].at
                 PROVE  KeptAt(run[r].upload[i], r)'
    BY <1>10, <2>1 DEF KeptSoFar
  <2> SUFFICES LET f == run[r].upload[i]
                   y == PlaceOf(f, r)
               IN /\ f.kind # "noshow" => writer'[y] = r \/ db[y] # NoRow
                  /\ (/\ f.kind = "noshow" /\ f.who \in Email
                      /\ \E g \in Rows(r, "booking") : PlaceOf(g, r) = y)
                        => writer'[y] = r /\ new'[y].mark \in NoShow
    BY <1>10, <1>13, <2>2 DEF KeptAt, PlaceOf
  <2>4. i \in 1..Len(run[r].upload)
    BY <1>1, <2>3, Types DEF RunOK
  <2>5. PlaceOf(run[r].upload[i], r) \in Booking \cup Session
    BY <1>1, <2>4, RunRows, Types
  <2>6. PlaceOf(run[r].upload[i], r) # x /\ PlaceOf(run[r].upload[i], r) \in Place
    BY <1>4, <2>5, Places DEF Data
  <2> HIDE DEF x, row
  <2>7. QED
    BY <1>1, <1>13, <2>1, <2>3, <2>6 DEF KeptSoFar, KeptAt
<1>18. (\A s \in Run : s # r => KeptSoFar(s)') /\ FilesThere'
  <2> HIDE DEF x, row
  <2>1. \A y \in Place, s \in Run : s # r /\ writer[y] = s => writer'[y] = s /\ new'[y] = new[y]
    BY <1>5, <1>13, Actors
  <2>2. QED
    BY <1>12, <1>13, <2>1, OthersKept DEF GoesOn, Acts
<1>19. QED
  BY <1>14, <1>15, <1>16, <1>17, <1>18 DEF IInv, Consistent, Kept

\* A visit that writes the row's place.
LEMMA VisitWritesKeepsIInv ==
    ASSUME IInv, NEW r \in Run, NEW kind, Visiting(r, kind), reset' = reset, begun' = begun,
           NEW x \in Booking \cup Session, x = PlaceOf(Visited(r), r),
           NEW row \in Row, Fits(r, x, row), Write(r, x, row),
           x \in Booking /\ writer[x] = r /\ new[x].mark \in NoShow => row.mark \in NoShow,
           kind = "noshow" => row.mark \in NoShow
    PROVE  IInv'
<1>1. TypeOK /\ Consistent /\ Traceable /\ BookingsOwned /\ KeptSoFar(r)
  BY DEF IInv, Kept
<1>2. /\ run' \in [Run -> RunState] /\ Visits(r) /\ GoesOn(r)
      /\ Visited(r).kind = kind /\ Visited(r) = run[r].upload[run[r].at + 1]
  BY <1>1, VisitingVisits DEF Visits
<1>3. x \in Data /\ x \in Place /\ x \notin Contact
  BY Places DEF Data
<1>4. /\ new' \in [Place -> Row] /\ writer' \in [Place -> Actor \cup {None}] /\ db' = db
      /\ writer[x] \in {r, None} /\ new'[x] = row /\ writer'[x] = r
      /\ \A y \in Place : y # x => new'[y] = new[y] /\ writer'[y] = writer[y]
  BY <1>1, <1>3, WriteEffect, Actors
<1>5. TypeOK'
  BY <1>1, <1>2, <1>4 DEF TypeOK
<1>6. /\ \A y \in Place : PlaceOK(y)'
      /\ \A s \in Run : s # r => RunOK(s)'
      /\ DeletedWithRows' /\ Traceable' /\ BookingsOwned'
  BY <1>1, <1>2, <1>3, RunWrites
<1>7. RunOK(r)'
  <2>1. \A y \in Contact : y \in Place /\ y # x
    BY <1>3, Places DEF Data
  <2>2. QED
    BY <1>1, <1>2, <1>4, <2>1, VisitOK
<1>8. KeptSoFar(r)'
  <2>1. \A y \in Data : y \in Place
    BY Places
  <2>2. Preserves(r)
    BY <1>4, <2>1 DEF Preserves, Data
  <2>3. LET f == run[r].upload[run[r].at + 1]
            y == PlaceOf(f, r)
        IN y = x /\ f.kind = kind
    BY <1>2
  <2>4. QED
    BY <1>1, <1>2, <1>4, <2>2, <2>3, VisitKept
<1>9. (\A s \in Run : s # r => KeptSoFar(s)') /\ FilesThere'
  <2>1. \A y \in Place, s \in Run : s # r /\ writer[y] = s => writer'[y] = s /\ new'[y] = new[y]
    BY <1>4, Actors
  <2>2. QED
    BY <1>2, <1>4, <2>1, OthersKept DEF GoesOn, Acts
<1>10. QED
  BY <1>5, <1>6, <1>7, <1>8, <1>9 DEF IInv, Consistent, Kept

\* A visit that leaves the tables as they are.
LEMMA VisitSkipsKeepsIInv ==
    ASSUME IInv, NEW r \in Run, NEW kind, Visiting(r, kind), reset' = reset, begun' = begun,
           UNCHANGED tables,
           NeverReset =>
              LET f == Visited(r)
                  x == PlaceOf(f, r)
              IN /\ f.kind # "noshow" => writer[x] = r \/ db[x] # NoRow
                 /\ ~(/\ f.kind = "noshow" /\ f.who \in Email
                      /\ \E g \in Rows(r, "booking") : PlaceOf(g, r) = x)
    PROVE  IInv'
<1>1. TypeOK /\ Consistent /\ Traceable /\ BookingsOwned /\ KeptSoFar(r)
  BY DEF IInv, Kept
<1>2. /\ run' \in [Run -> RunState] /\ Visits(r) /\ GoesOn(r)
      /\ Visited(r) = run[r].upload[run[r].at + 1]
  BY <1>1, VisitingVisits DEF Visits
<1>3. db' = db /\ new' = new /\ writer' = writer
  BY DEF tables
<1>4. TypeOK'
  BY <1>1, <1>2, <1>3 DEF TypeOK
<1>5. /\ \A y \in Place : PlaceOK(y)'
      /\ \A s \in Run : s # r => RunOK(s)'
      /\ DeletedWithRows' /\ Traceable' /\ BookingsOwned'
  BY <1>1, <1>2, RunSkips
<1>6. RunOK(r)'
  BY <1>1, <1>2, <1>3, VisitOK
<1>7. KeptSoFar(r)'
  <2>1. Preserves(r)
    BY <1>3 DEF Preserves
  <2>2. QED
    BY <1>1, <1>2, <1>3, <2>1, VisitKept
<1>8. (\A s \in Run : s # r => KeptSoFar(s)') /\ FilesThere'
  BY <1>2, <1>3, OthersKept DEF GoesOn, Acts
<1>9. QED
  BY <1>4, <1>5, <1>6, <1>7, <1>8 DEF IInv, Consistent, Kept

\* What a run sees at a place it may write.
LEMMA SeenByRun ==
    ASSUME TypeOK, Consistent, NEW r \in Run, NEW x \in Place
    PROVE  /\ Seen(r, x) \in Row
           /\ Seen(r, x) = NoRow => db[x] = NoRow /\ writer[x] # r
           /\ Seen(r, x) # NoRow => writer[x] = r \/ db[x] # NoRow
<1>1. PlaceOK(x) /\ db[x] \in Row /\ new[x] \in Row
  BY Types DEF Consistent
<1>2. QED
  BY <1>1 DEF Seen, PlaceOK, RunWrote

LEMMA InsertBookingKeepsIInv ==
    ASSUME IInv, NEW r \in Run, InsertBooking(r)
    PROVE  IInv'
<1>1. TypeOK /\ Consistent /\ Visiting(r, "booking") /\ reset' = reset /\ begun' = begun
  BY DEF IInv, InsertBooking
<1> DEFINE f == Visited(r)
           x == PlaceOf(f, r)
           row == [by |-> r, contact |-> run[r].ids[f.who], mark |-> f.mark]
<1>2. /\ f.kind = "booking" /\ f = run[r].upload[run[r].at + 1] /\ Unowned(r) = {}
      /\ run[r].at + 1 \in 1..Len(run[r].upload)
  BY <1>1, VisitingVisits
<1>3. /\ f.who \in Person /\ f.mark \in Attendance /\ x \in Booking
      /\ x = BookingPlace(f.who, f.class) /\ f.class \in Class
  BY <1>1, <1>2, RunRows, RowsOfFiles DEF PlaceOf
<1>4. x \in Place
  BY <1>3, Places DEF Data
<1>5. run[r].ids[f.who] \in ContactId /\ run[r].ids[f.who][1] = f.who
  <2>1. run[r].ids[f.who] # NoId
    BY <1>1, <1>2, Types DEF Unowned
  <2>2. RunOK(r) /\ Open(r)
    BY <1>1 DEF Consistent, Visiting, Open
  <2>3. ContactPlace(f.who, r) \in Contact /\ ContactPlace(f.who, r) \in Place
        /\ ContactPlace(f.who, r)[2] = f.who
    BY <1>3, PlacesOf, Places DEF Data
  <2>4. /\ writer[ContactPlace(f.who, r)] = r
        /\ new[ContactPlace(f.who, r)].contact = run[r].ids[f.who]
    BY <1>3, <2>1, <2>2 DEF RunOK
  <2>5. new[ContactPlace(f.who, r)].contact[1] = f.who
    BY <1>1, <2>3, <2>4 DEF Consistent, PlaceOK, ContactOK
  <2>6. QED
    BY <1>1, <1>3, <2>1, <2>4, <2>5, Types
<1>6. row \in Row /\ row.by = r /\ row.contact = run[r].ids[f.who]
  BY <1>3, <1>5, BookingRows
<1>7. CASE Seen(r, x) = NoRow
  <2>1. Write(r, x, row)
    BY <1>7 DEF InsertBooking, InsertIgnore
  <2>2. db[x] = NoRow /\ writer[x] # r
    BY <1>1, <1>4, <1>7, SeenByRun
  <2>3. x[2] = Key(f.who) /\ x \notin Contact
    BY <1>3, PlacesOf, Places
  <2>4. Fits(r, x, row)
    BY <1>3, <1>5, <1>6, <2>2, <2>3, Ids DEF Fits
  <2> HIDE DEF row, f, x
  <2>5. QED
    BY <1>1, <1>3, <1>6, <2>1, <2>2, <2>4, VisitWritesKeepsIInv DEF f, x
<1>8. CASE Seen(r, x) # NoRow
  <2>1. UNCHANGED tables
    BY <1>8 DEF InsertBooking, InsertIgnore
  <2>2. writer[x] = r \/ db[x] # NoRow
    BY <1>1, <1>4, <1>8, SeenByRun
  <2>3. QED
    BY <1>1, <1>2, <2>1, <2>2, VisitSkipsKeepsIInv
<1>9. QED
  BY <1>7, <1>8

LEMMA InsertSessionKeepsIInv ==
    ASSUME IInv, NEW r \in Run, InsertSession(r)
    PROVE  IInv'
<1>1. TypeOK /\ Consistent /\ Visiting(r, "activity") /\ reset' = reset /\ begun' = begun
  BY DEF IInv, InsertSession
<1> DEFINE x == PlaceOf(Visited(r), r)
           row == [NoRow EXCEPT !.by = r]
<1>2. /\ Visited(r).kind = "activity" /\ Visited(r) = run[r].upload[run[r].at + 1]
      /\ run[r].at + 1 \in 1..Len(run[r].upload)
  BY <1>1, VisitingVisits
<1>3. x \in Session /\ x \in Place /\ x \notin Booking /\ x \notin Contact
  BY <1>1, <1>2, RunRows, Places DEF Data
<1>4. row \in Row /\ row.by = r
  BY NewRows
<1>5. CASE Seen(r, x) = NoRow
  <2>1. Write(r, x, row)
    BY <1>5 DEF InsertSession, InsertIgnore
  <2>2. Fits(r, x, row)
    BY <1>3, <1>4 DEF Fits
  <2> HIDE DEF row, x
  <2>3. QED
    BY <1>1, <1>3, <1>4, <2>1, <2>2, VisitWritesKeepsIInv DEF x
<1>6. CASE Seen(r, x) # NoRow
  <2>1. UNCHANGED tables
    BY <1>6 DEF InsertSession, InsertIgnore
  <2>2. writer[x] = r \/ db[x] # NoRow
    BY <1>1, <1>3, <1>6, SeenByRun
  <2>3. QED
    BY <1>1, <1>2, <2>1, <2>2, VisitSkipsKeepsIInv
<1>7. QED
  BY <1>5, <1>6

LEMMA RecordNoShowKeepsIInv ==
    ASSUME IInv, NEW r \in Run, RecordNoShow(r)
    PROVE  IInv'
<1>1. /\ TypeOK /\ Consistent /\ KeptSoFar(r) /\ BookingsOwned
      /\ Visiting(r, "noshow") /\ reset' = reset /\ begun' = begun
  BY DEF IInv, Kept, RecordNoShow
<1> DEFINE f == Visited(r)
           x == PlaceOf(f, r)
           row == [Seen(r, x) EXCEPT !.mark = f.mark]
<1>2. /\ f.kind = "noshow" /\ f = run[r].upload[run[r].at + 1]
      /\ run[r].at + 1 \in 1..Len(run[r].upload)
  BY <1>1, VisitingVisits
<1>3. f.mark \in NoShow /\ x \in Booking /\ x \in Place /\ x \notin Contact /\ x \in Data
  BY <1>1, <1>2, RunRows, Places DEF Data
<1>4. CASE Updates(f, r)
  <2>1. Write(r, x, row) /\ Seen(r, x) # NoRow
    BY <1>4 DEF RecordNoShow, Updates
  <2>2. writer[x] \in {r, None}
    BY <2>1 DEF Write, Free
  <2>3. /\ row \in Row /\ row.mark \in NoShow
        /\ row.by = Seen(r, x).by /\ row.contact = Seen(r, x).contact
    BY <1>1, <1>3, SeenByRun, MarkedRows
  <2>4. PlaceOK(x) /\ db[x] \in Row
    BY <1>1, <1>3, Types DEF Consistent
  <2>5. Fits(r, x, row)
    <3>1. CASE writer[x] = r
      <4>1. Seen(r, x) = new[x]
        BY <3>1 DEF Seen
      <4>2. QED
        BY <1>3, <2>3, <2>4, <3>1, <4>1 DEF PlaceOK, RunWrote, BookingOK, Fits
    <3>2. CASE writer[x] = None
      <4>1. Seen(r, x) = db[x]
        BY <3>2, Actors DEF Seen
      <4>2. db[x].contact # NoId /\ x[2] = Key(db[x].contact[1])
        BY <1>3, <2>1, <2>4, <4>1 DEF PlaceOK, BookingOK
      <4>3. QED
        BY <1>3, <2>1, <2>3, <4>1, <4>2 DEF Fits
    <3>3. QED
      BY <2>2, <3>1, <3>2
  <2> HIDE DEF row, f, x
  <2>6. QED
    BY <1>1, <1>3, <2>1, <2>3, <2>5, VisitWritesKeepsIInv DEF f, x
<1>5. CASE ~Updates(f, r)
  <2>1. UNCHANGED tables
    BY <1>5 DEF RecordNoShow
  <2>2. ASSUME NeverReset, f.who \in Email, NEW g \in Rows(r, "booking"), PlaceOf(g, r) = x
        PROVE  FALSE
    <3>1. Seen(r, x) = NoRow
      BY <1>5, <2>2 DEF Updates
    <3>2. PICK i \in DOMAIN run[r].upload : g = run[r].upload[i] /\ g.kind = "booking"
      BY <2>2 DEF Rows
    <3>3. i < run[r].at + 1
      <4>1. run[r].upload \in Upload /\ run[r].at + 1 \in DOMAIN run[r].upload
        BY <1>1, <1>2, RunRows
      <4>2. QED
        BY <1>2, <3>2, <4>1, UploadAssumption
    <3>4. i \in 1..run[r].at
      BY <1>1, <3>2, <3>3, Types
    <3>5. Open(r)
      BY <1>1 DEF Visiting, Open
    <3>6. writer[x] = r \/ db[x] # NoRow
      BY <1>1, <2>2, <3>2, <3>4, <3>5 DEF KeptSoFar, KeptAt
    <3>7. QED
      BY <1>1, <1>3, <3>1, <3>6, SeenByRun
  <2>3. QED
    BY <1>1, <1>2, <2>1, <2>2, VisitSkipsKeepsIInv
<1>6. QED
  BY <1>4, <1>5

LEMMA StartKeepsIInv ==
    ASSUME IInv, NEW r \in Run, Start(r)
    PROVE  IInv'
<1>1. /\ TypeOK /\ Consistent /\ Traceable /\ BookingsOwned
      /\ db' = db /\ new' = new /\ writer' = writer /\ reset' = reset
      /\ run[r].pc = "idle"
  BY DEF IInv, Start, tables
<1>2. PICK u \in Upload : run' = [run EXCEPT ![r].pc = "running", ![r].upload = u]
  BY DEF Start
<1>3. run[r].at = 0 /\ \A k \in Person : run[r].ids[k] = NoId
  BY <1>1 DEF Consistent, RunOK
<1>4. /\ run' \in [Run -> RunState]
      /\ \A s \in Run : s # r => run'[s] = run[s]
      /\ run'[r].pc = "running" /\ run'[r].upload = u
      /\ run'[r].at = run[r].at /\ run'[r].ids = run[r].ids
  <2>1. run \in [Run -> RunState] /\ run[r] \in RunState
    BY <1>1 DEF TypeOK
  <2>2. run' = [run EXCEPT ![r] = [run[r] EXCEPT !.pc = "running", !.upload = u]]
    BY <1>2, <2>1
  <2>3. [run[r] EXCEPT !.pc = "running", !.upload = u] \in RunState
    BY <2>1 DEF RunState
  <2>4. run'[r] = [run[r] EXCEPT !.pc = "running", !.upload = u]
    BY <2>1, <2>2
  <2>5. QED
    BY <2>1, <2>2, <2>3, <2>4 DEF RunState
<1>5. begun' \in [Run -> Nat]
  <2>1. IsFiniteSet({s \in Run : begun[s] > 0})
    BY FS_Subset, IngestAssumption
  <2>2. Cardinality({s \in Run : begun[s] > 0}) \in Nat
    BY <2>1, FS_CardinalityType
  <2>3. QED
    BY <1>1, <2>2 DEF Start, TypeOK
<1>6. TypeOK'
  BY <1>1, <1>4, <1>5 DEF TypeOK
<1>7. \A a \in Actor : Open(a) => Open(a)'
  BY <1>1, <1>4, Actors DEF Open
<1>8. ASSUME NEW y \in Place PROVE PlaceOK(y)'
  <2>1. PlaceOK(y)
    BY <1>1 DEF Consistent
  <2>2. writer[y] # None => Open(writer[y])'
    BY <1>1, <1>7, <2>1, Types DEF PlaceOK, LockOK
  <2>3. \A s \in Run, k \in Person : run[s].ids[k] # NoId => run'[s].ids[k] = run[s].ids[k]
    BY <1>4
  <2>4. \A s \in Run : run[s].pc = "committed" => run'[s].pc = "committed"
    BY <1>1, <1>4
  <2>5. QED
    BY <1>1, <2>1, <2>2, <2>3, <2>4, PlaceStands
<1>9. ASSUME NEW s \in Run PROVE RunOK(s)'
  <2>1. CASE s = r
    <3>1. Len(u) \in Nat
      BY UploadAssumption
    <3>2. QED
      BY <1>3, <1>4, <2>1, <3>1 DEF RunOK
  <2>2. CASE s # r
    BY <1>1, <1>4, <2>2, RunStands DEF Consistent
  <2>3. QED
    BY <2>1, <2>2
<1>10. DeletedWithRows' /\ Traceable' /\ BookingsOwned'
  BY <1>1, UncommittedStands DEF Consistent, DeletedWithRows
<1>11. KeptSoFar(r)'
  BY <1>3, <1>4 DEF KeptSoFar, KeptAt
<1>12. Acts(r)
  BY <1>1, <1>4 DEF Acts
<1>13. (\A s \in Run : s # r => KeptSoFar(s)') /\ FilesThere'
  BY <1>1, <1>12, OthersKept
<1>14. QED
  BY <1>6, <1>8, <1>9, <1>10, <1>11, <1>13 DEF IInv, Consistent, Kept

LEMMA LogAndFlagKeepsIInv ==
    ASSUME IInv, NEW r \in Run, LogAndFlag(r)
    PROVE  IInv'
<1> DEFINE log == LogPlace(r)
           row == [NoRow EXCEPT !.by = r]
           flag == [NoRow EXCEPT !.mark = FlagWhenDone]
<1>1. /\ TypeOK /\ Consistent /\ Traceable /\ BookingsOwned /\ KeptSoFar(r) /\ RunOK(r)
      /\ db' = db /\ reset' = reset /\ begun' = begun
      /\ run[r].pc = "running" /\ AllVisited(r) /\ Open(r)
  BY DEF IInv, Kept, Consistent, LogAndFlag, Open
<1>2. /\ row \in Row /\ row.by = r /\ row # NoRow
      /\ flag \in Row /\ flag # NoRow
  <2>1. row \in Row /\ row.by = r /\ flag \in Row /\ flag # NoRow
    BY NewRows DEF FlagWhenDone
  <2>2. row # NoRow
    BY <2>1, NewRows, Actors
  <2>3. QED
    BY <2>1, <2>2
<1>3. /\ log \in Log /\ log \in Place /\ log \notin Data /\ log # Location
      /\ Location \in Place /\ Location \notin Data
  BY PlacesOf, Places
<1>4. /\ new' \in [Place -> Row] /\ writer' \in [Place -> Actor \cup {None}]
      /\ new'[log] = row /\ writer'[log] = r
      /\ new'[Location] = flag /\ writer'[Location] = r
      /\ \A y \in Place : y # log /\ y # Location => new'[y] = new[y] /\ writer'[y] = writer[y]
  <2>1. new \in [Place -> Row] /\ writer \in [Place -> Actor \cup {None}] /\ r \in Actor
    BY <1>1, Actors DEF TypeOK
  <2>2. new' = [new EXCEPT ![log] = row, ![Location] = flag]
    BY DEF LogAndFlag
  <2>3. writer' = [writer EXCEPT ![log] = r, ![Location] = r]
    BY DEF LogAndFlag
  <2> HIDE DEF log, row, flag
  <2>4. QED
    BY <1>2, <1>3, <2>1, <2>2, <2>3
<1>5. /\ run' \in [Run -> RunState]
      /\ \A s \in Run : s # r => run'[s] = run[s]
      /\ run'[r].pc = "written" /\ run'[r].upload = run[r].upload
      /\ run'[r].at = run[r].at /\ run'[r].ids = run[r].ids
  <2>1. run \in [Run -> RunState] /\ run[r] \in RunState
    BY <1>1 DEF TypeOK
  <2>2. run' = [run EXCEPT ![r] = [run[r] EXCEPT !.pc = "written"]]
    BY <2>1 DEF LogAndFlag
  <2>3. [run[r] EXCEPT !.pc = "written"] \in RunState
    BY <2>1 DEF RunState
  <2>4. run'[r] = [run[r] EXCEPT !.pc = "written"]
    BY <2>1, <2>2
  <2>5. QED
    BY <2>1, <2>2, <2>3, <2>4 DEF RunState
<1>6. TypeOK'
  BY <1>1, <1>4, <1>5 DEF TypeOK
<1>7. \A a \in Actor : Open(a) => Open(a)'
  BY <1>1, <1>5, Actors DEF Open
<1>8. db[log] = NoRow /\ writer[log] \in {r, None}
  <2>1. PlaceOK(log)
    BY <1>1, <1>3 DEF Consistent
  <2>2. db[log] = NoRow
    BY <1>1, <2>1 DEF PlaceOK, LogOK
  <2>3. writer[log] \notin Reset
    BY <2>1, <2>2 DEF PlaceOK, ResetWrote
  <2>4. writer[log] \in Run => writer[log] = r
    BY <1>3, <2>1, PlacesOf DEF PlaceOK, RunWrote
  <2>5. QED
    BY <1>1, <1>3, <2>2, <2>3, <2>4, Types, Actors
<1>9. Open(r)'
  BY <1>5 DEF Open
<1>10. ASSUME NEW y \in Place PROVE PlaceOK(y)'
  <2>1. PlaceOK(y)
    BY <1>1 DEF Consistent
  <2>2. CASE y = log
    <3>1. LockOK(y)' /\ RunWrote(y)' /\ ResetWrote(y)'
      BY <1>2, <1>3, <1>4, <1>9, <2>2, Actors DEF LockOK, RunWrote, ResetWrote
    <3>2. ContactOK(y)' /\ BookingOK(y)'
      BY <1>3, <2>2 DEF ContactOK, BookingOK, Data
    <3>3. LogOK(y)'
      BY <1>1, <1>8, <2>2 DEF LogOK
    <3>4. QED
      BY <3>1, <3>2, <3>3 DEF PlaceOK
  <2>3. CASE y = Location
    <3>1. LockOK(y)' /\ RunWrote(y)' /\ ResetWrote(y)'
      BY <1>2, <1>3, <1>4, <1>9, <2>3, Actors, Places DEF LockOK, RunWrote, ResetWrote
    <3>2. ContactOK(y)' /\ BookingOK(y)'
      BY <1>3, <2>3 DEF ContactOK, BookingOK, Data
    <3>3. LogOK(y)'
      BY <2>3, PlacesOf, Places DEF LogOK
    <3>4. QED
      BY <3>1, <3>2, <3>3 DEF PlaceOK
  <2>4. CASE y # log /\ y # Location
    <3>1. db'[y] = db[y] /\ new'[y] = new[y] /\ writer'[y] = writer[y]
      BY <1>1, <1>4, <2>4
    <3>2. writer[y] # None => Open(writer[y])'
      BY <1>1, <1>7, <2>1, <3>1, Types DEF PlaceOK, LockOK
    <3>3. \A s \in Run, k \in Person : run[s].ids[k] # NoId => run'[s].ids[k] = run[s].ids[k]
      BY <1>5
    <3>4. \A s \in Run : run[s].pc = "committed" => run'[s].pc = "committed"
      BY <1>1, <1>5
    <3>5. QED
      BY <2>1, <3>1, <3>2, <3>3, <3>4, PlaceStands
  <2>5. QED
    BY <2>2, <2>3, <2>4
<1>11. \A y \in Place, s \in Run : s # r /\ writer[y] = s => writer'[y] = s /\ new'[y] = new[y]
  <2>1. writer[Location] \in {r, None}
    BY DEF LogAndFlag, Free
  <2> HIDE DEF log, row, flag
  <2>2. QED
    BY <1>4, <1>8, <2>1, Actors
<1>12. ASSUME NEW s \in Run PROVE RunOK(s)'
  <2>1. CASE s = r
    <3>1. \A k \in Person : LET y == ContactPlace(k, r) IN
             y \in Place /\ y \in Data
      BY PlacesOf, Places DEF Data
    <3>2. \A k \in Person : LET y == ContactPlace(k, r) IN
             writer'[y] = writer[y] /\ new'[y] = new[y]
      BY <1>3, <1>4, <3>1
    <3>3. Unowned(r)' = Unowned(r)
      BY <1>5 DEF Unowned
    <3>4. \A k \in Person : run'[r].ids[k] # NoId =>
             LET y == ContactPlace(k, r) IN writer'[y] = r /\ new'[y].contact = run'[r].ids[k]
      BY <1>1, <1>5, <3>2 DEF RunOK
    <3>5. QED
      BY <1>1, <1>4, <1>5, <2>1, <3>3, <3>4 DEF RunOK, AllVisited
  <2>2. CASE s # r
    BY <1>1, <1>5, <1>11, <2>2, RunStands DEF Consistent
  <2>3. QED
    BY <2>1, <2>2
<1>13. DeletedWithRows'
  <2>1. SUFFICES ASSUME NEW s \in Run, NEW q \in Reset, writer'[LogPlace(s)] = q,
                        NEW y \in Data, db'[y] # NoRow, db'[y].by = s
                 PROVE  writer'[y] = q
    BY DEF DeletedWithRows
  <2>2. writer[LogPlace(s)] = q
    BY <1>4, <2>1, PlacesOf, Places, Actors
  <2>3. writer[y] = q
    BY <1>1, <2>1, <2>2 DEF Consistent, DeletedWithRows
  <2>4. QED
    BY <1>3, <1>4, <2>3, Places
<1>14. Traceable' /\ BookingsOwned'
  BY <1>1, UncommittedStands
<1>15. KeptSoFar(r)'
  <2>1. NeverReset' <=> NeverReset
    BY <1>1 DEF NeverReset
  <2>2. \A y \in Data : y \in Place /\ y # log /\ y # Location
    BY <1>3, Places
  <2>3. \A y \in Place : writer[y] = r /\ y \in Data => writer'[y] = r /\ new'[y] = new[y]
    BY <1>4, <2>2
  <2>4. Rows(r, "booking")' = Rows(r, "booking")
    BY <1>5 DEF Rows
  <2>5. \A i \in 1..run[r].at : PlaceOf(run[r].upload[i], r) \in Data
    BY <1>1, RunRows, Types DEF RunOK
  <2>6. SUFFICES ASSUME NeverReset, NEW i \in 1..run[r].at
                 PROVE  KeptAt(run[r].upload[i], r)'
    BY <1>5, <2>1 DEF KeptSoFar
  <2> SUFFICES LET f == run[r].upload[i]
                   x == PlaceOf(f, r)
               IN /\ f.kind # "noshow" => writer'[x] = r \/ db[x] # NoRow
                  /\ (/\ f.kind = "noshow" /\ f.who \in Email
                      /\ \E g \in Rows(r, "booking") : PlaceOf(g, r) = x)
                        => writer'[x] = r /\ new'[x].mark \in NoShow
    BY <1>1, <1>5, <2>4 DEF KeptAt, PlaceOf
  <2> HIDE DEF log, row, flag
  <2>7. QED
    BY <1>1, <2>2, <2>3, <2>5, <2>6 DEF KeptSoFar, KeptAt
<1>16. Acts(r)
  BY <1>1, <1>5 DEF Acts
<1>17. (\A s \in Run : s # r => KeptSoFar(s)') /\ FilesThere'
  BY <1>1, <1>11, <1>16, OthersKept
<1>18. QED
  BY <1>6, <1>10, <1>12, <1>13, <1>14, <1>15, <1>17 DEF IInv, Consistent, Kept

-----------------------------------------------------------------------------
(* The ends of a transaction.                                              *)

\* A run's state but for pc stays as it is.
LEMMA EndsRun ==
    ASSUME TypeOK, NEW r \in Run, NEW pc \in Ended, run' = [run EXCEPT ![r].pc = pc]
    PROVE  /\ run' \in [Run -> RunState]
           /\ \A s \in Run : s # r => run'[s] = run[s]
           /\ run'[r].pc = pc /\ run'[r].upload = run[r].upload
           /\ run'[r].at = run[r].at /\ run'[r].ids = run[r].ids
<1>1. run \in [Run -> RunState] /\ run[r] \in RunState
  BY DEF TypeOK
<1>2. run' = [run EXCEPT ![r] = [run[r] EXCEPT !.pc = pc]]
  BY <1>1
<1>3. [run[r] EXCEPT !.pc = pc] \in RunState
  BY <1>1 DEF RunState
<1>4. run'[r] = [run[r] EXCEPT !.pc = pc]
  BY <1>1, <1>2
<1>5. QED
  BY <1>1, <1>2, <1>3, <1>4 DEF RunState

LEMMA EndedRunOK ==
    ASSUME TypeOK, NEW r \in Run, RunOK(r), NEW pc \in Ended, run' = [run EXCEPT ![r].pc = pc]
    PROVE  RunOK(r)' /\ KeptSoFar(r)'
<1>1. run'[r].pc \in Ended /\ run'[r].upload = run[r].upload /\ run'[r].at = run[r].at
  BY EndsRun
<1>2. ~Open(r)'
  BY <1>1, Actors DEF Open, Ended
<1>3. QED
  BY <1>1, <1>2 DEF RunOK, KeptSoFar, KeptAt, Ended

LEMMA Rollback ==
    ASSUME TypeOK, Consistent, NEW a \in Actor, RollbackTables(a),
           \A b \in Actor : b # a /\ Open(b) => Open(b)',
           \A s \in Run : s # a => run'[s] = run[s],
           a \in Run => run[a].pc # "committed"
    PROVE  /\ new' \in [Place -> Row] /\ writer' \in [Place -> Actor \cup {None}] /\ db' = db
           /\ \A y \in Place : PlaceOK(y)'
           /\ \A y \in Place, b \in Actor :
                 b # a /\ writer[y] = b => writer'[y] = b /\ new'[y] = new[y]
           /\ DeletedWithRows'
<1>1. db' = db /\ a # None
  BY Actors DEF RollbackTables
<1>2. \A y \in Place : /\ new'[y] = IF writer[y] = a THEN db[y] ELSE new[y]
                       /\ writer'[y] = IF writer[y] = a THEN None ELSE writer[y]
  BY DEF RollbackTables
<1>3. new' \in [Place -> Row] /\ writer' \in [Place -> Actor \cup {None}]
  BY Types DEF RollbackTables
<1>4. \A s \in Run : run[s].pc = "committed" => run'[s].pc = "committed"
  OBVIOUS
<1>5. ASSUME NEW y \in Place PROVE PlaceOK(y)'
  <2>1. PlaceOK(y)
    BY DEF Consistent
  <2>2. CASE writer[y] = a
    <3>1. y \in Contact => y \notin Booking
      BY Places
    <3>2. writer'[y] = None /\ new'[y] = db'[y] /\ db'[y] = db[y]
      BY <1>1, <1>2, <2>2
    <3>3. QED
      BY <1>4, <2>1, <3>1, <3>2, PlaceSettles
  <2>3. CASE writer[y] # a
    <3>1. db'[y] = db[y] /\ new'[y] = new[y] /\ writer'[y] = writer[y]
      BY <1>1, <1>2, <2>3
    <3>2. writer[y] # None => Open(writer[y])'
      BY <2>1, <2>3, <3>1, Types DEF PlaceOK, LockOK
    <3>3. \A s \in Run, k \in Person : writer[y] = s /\ run[s].ids[k] # NoId
                                          => run'[s].ids[k] = run[s].ids[k]
      BY <2>3
    <3>4. QED
      BY <1>4, <2>1, <3>1, <3>2, <3>3, PlaceStands
  <2>4. QED
    BY <2>2, <2>3
<1>6. \A y \in Place, b \in Actor :
         b # a /\ writer[y] = b => writer'[y] = b /\ new'[y] = new[y]
  BY <1>2
<1>7. DeletedWithRows'
  <2>1. SUFFICES ASSUME NEW s \in Run, NEW q \in Reset, writer'[LogPlace(s)] = q,
                        NEW y \in Data, db[y] # NoRow, db[y].by = s
                 PROVE  writer'[y] = q
    BY <1>1 DEF DeletedWithRows
  <2>2. LogPlace(s) \in Place /\ y \in Place /\ q # None
    BY PlacesOf, Places, Actors
  <2>3. writer[LogPlace(s)] = q /\ q # a
    BY <1>2, <2>1, <2>2
  <2>4. writer[y] = q
    BY <2>1, <2>3 DEF Consistent, DeletedWithRows
  <2>5. QED
    BY <1>2, <2>2, <2>3, <2>4
<1>8. QED
  BY <1>1, <1>3, <1>5, <1>6, <1>7

LEMMA RunRollsBackKeepsIInv ==
    ASSUME IInv, NEW r \in Run, RunRollsBack(r)
    PROVE  IInv'
<1>1. /\ TypeOK /\ Consistent /\ Traceable /\ BookingsOwned /\ RunOK(r) /\ r \in Actor
      /\ RollbackTables(r) /\ reset' = reset /\ begun' = begun
      /\ run[r].pc \in {"running", "written"} /\ run' = [run EXCEPT ![r].pc = "rolled back"]
  BY Actors DEF IInv, Consistent, RunRollsBack
<1>2. "rolled back" \in Ended
  BY DEF Ended
<1>3. /\ run' \in [Run -> RunState]
      /\ \A s \in Run : s # r => run'[s] = run[s]
      /\ run'[r].pc = "rolled back"
  BY <1>1, <1>2, EndsRun
<1>4. \A b \in Actor : b # r /\ Open(b) => Open(b)'
  BY <1>1, <1>3, Actors DEF Open
<1>5. /\ new' \in [Place -> Row] /\ writer' \in [Place -> Actor \cup {None}] /\ db' = db
      /\ \A y \in Place : PlaceOK(y)'
      /\ \A y \in Place, b \in Actor :
            b # r /\ writer[y] = b => writer'[y] = b /\ new'[y] = new[y]
      /\ DeletedWithRows'
  BY <1>1, <1>3, <1>4, Rollback
<1>6. TypeOK'
  BY <1>1, <1>3, <1>5 DEF TypeOK
<1>7. RunOK(r)' /\ KeptSoFar(r)'
  BY <1>1, <1>2, EndedRunOK
<1>8. \A y \in Place, s \in Run : s # r /\ writer[y] = s => writer'[y] = s /\ new'[y] = new[y]
  BY <1>5, Actors
<1>9. ASSUME NEW s \in Run, s # r PROVE RunOK(s)'
  BY <1>1, <1>3, <1>8, <1>9, RunStands DEF Consistent
<1>10. Traceable' /\ BookingsOwned'
  BY <1>1, <1>5, UncommittedStands
<1>11. (\A s \in Run : s # r => KeptSoFar(s)') /\ FilesThere'
  <2>1. Acts(r)
    BY <1>1, <1>3 DEF Acts
  <2>2. QED
    BY <1>5, <1>8, <2>1, OthersKept
<1>12. QED
  BY <1>5, <1>6, <1>7, <1>9, <1>10, <1>11 DEF IInv, Consistent, Kept

\* A run's rows are committed with its log row.
LEMMA CommitKeepsIInv ==
    ASSUME IInv, NEW r \in Run, Commit(r)
    PROVE  IInv'
<1>1. /\ TypeOK /\ Consistent /\ Traceable /\ BookingsOwned /\ KeptSoFar(r) /\ FilesThere
      /\ RunOK(r) /\ Open(r) /\ reset' = reset /\ begun' = begun
      /\ run[r].pc = "written" /\ run' = [run EXCEPT ![r].pc = "committed"]
  BY DEF IInv, Kept, Consistent, Commit, Open
<1>2. /\ "committed" \in Ended
      /\ run' \in [Run -> RunState]
      /\ \A s \in Run : s # r => run'[s] = run[s]
      /\ run'[r].pc = "committed" /\ run'[r].upload = run[r].upload
      /\ run'[r].at = run[r].at /\ run'[r].ids = run[r].ids
  <2>1. "committed" \in Ended
    BY DEF Ended
  <2>2. QED
    BY <1>1, <2>1, EndsRun
<1>3. /\ new' = new
      /\ \A y \in Place : /\ db'[y] = IF writer[y] = r THEN new[y] ELSE db[y]
                          /\ writer'[y] = IF writer[y] = r THEN None ELSE writer[y]
  BY DEF Commit, CommitTables
<1>4. TypeOK'
  <2>1. db' \in [Place -> Row] /\ writer' \in [Place -> Actor \cup {None}]
    BY <1>1, Types DEF Commit, CommitTables
  <2>2. QED
    BY <1>1, <1>2, <1>3, <2>1 DEF TypeOK
<1>5. \A b \in Actor : b # r /\ Open(b) => Open(b)'
  BY <1>1, <1>2, Actors DEF Open
<1>6. \A y \in Place : PlaceOK(y) /\ db[y] \in Row
  BY <1>1, Types DEF Consistent
<1>7. \A s \in Run : run[s].pc = "committed" => run'[s].pc = "committed"
  BY <1>1, <1>2
<1>8. ASSUME NEW y \in Place PROVE PlaceOK(y)'
  <2>1. CASE writer[y] = r
    <3>1. writer'[y] = None /\ new'[y] = new[y] /\ db'[y] = new[y]
      BY <1>3, <2>1
    <3>2. LockOK(y)' /\ RunWrote(y)' /\ ResetWrote(y)'
      BY <3>1, Actors DEF LockOK, RunWrote, ResetWrote
    <3>3. ContactOK(y)' /\ BookingOK(y)'
      BY <1>6, <2>1, <3>1, Actors DEF PlaceOK, ContactOK, BookingOK
    <3>4. LogOK(y)'
      <4>1. SUFFICES ASSUME NEW s \in Run, y = LogPlace(s)
                     PROVE  run'[s].pc = "committed" /\ db'[y].by = s
        BY DEF LogOK
      <4>2. s = r /\ new[y].by = r
        BY <1>6, <2>1, <4>1, PlacesOf DEF PlaceOK, RunWrote
      <4>3. QED
        BY <1>2, <3>1, <4>2
    <3>5. QED
      BY <3>2, <3>3, <3>4 DEF PlaceOK
  <2>2. CASE writer[y] # r
    <3>1. db'[y] = db[y] /\ new'[y] = new[y] /\ writer'[y] = writer[y]
      BY <1>3, <2>2
    <3>2. writer[y] # None => Open(writer[y])'
      BY <1>1, <1>5, <1>6, <2>2, <3>1, Types DEF PlaceOK, LockOK
    <3>3. \A s \in Run, k \in Person : run[s].ids[k] # NoId => run'[s].ids[k] = run[s].ids[k]
      BY <1>2
    <3>4. QED
      BY <1>6, <1>7, <3>1, <3>2, <3>3, PlaceStands
  <2>3. QED
    BY <2>1, <2>2
<1>9. \A y \in Place : writer[y] = r => new[y] # NoRow
  BY <1>6 DEF PlaceOK, RunWrote
<1>10. \A y \in Place : db[y] # NoRow => db'[y] # NoRow
  BY <1>3, <1>9
<1>11. RunOK(r)' /\ KeptSoFar(r)'
  BY <1>1, <1>2, EndedRunOK
<1>12. \A y \in Place, s \in Run : s # r /\ writer[y] = s => writer'[y] = s /\ new'[y] = new[y]
  BY <1>3
<1>13. NeverReset' <=> NeverReset
  BY <1>1 DEF NeverReset
<1>14. ASSUME NEW s \in Run, s # r PROVE RunOK(s)' /\ KeptSoFar(s)'
  <2>1. RunOK(s) /\ KeptSoFar(s) /\ run'[s] = run[s]
    BY <1>1, <1>2, <1>14 DEF IInv, Consistent, Kept
  <2>2. RunOK(s)'
    BY <1>12, <1>14, <2>1, RunStands
  <2>3. \A y \in Data : db[y] # NoRow => db'[y] # NoRow
    BY <1>10, Places
  <2>4. KeptSoFar(s)'
    BY <1>1, <1>12, <1>13, <1>14, <2>1, <2>3, KeptStands
  <2>5. QED
    BY <2>2, <2>4
<1>15. \A s \in Run : LogPlace(s) \in Place /\ LogPlace(s) \in Log
  BY PlacesOf, Places
<1>16. DeletedWithRows'
  <2>1. SUFFICES ASSUME NEW s \in Run, NEW q \in Reset, writer'[LogPlace(s)] = q,
                        NEW y \in Data, db'[y] # NoRow, db'[y].by = s
                 PROVE  writer'[y] = q
    BY DEF DeletedWithRows
  <2>2. writer[LogPlace(s)] = q /\ q # r /\ y \in Place
    BY <1>3, <1>15, <2>1, Actors, Places
  <2>3. s # r
    BY <1>1, <1>6, <1>15, <2>1, <2>2 DEF PlaceOK, ResetWrote, LogOK
  <2>4. db[y] # NoRow /\ db[y].by = s
    BY <1>3, <1>6, <2>1, <2>2, <2>3 DEF PlaceOK, RunWrote
  <2>5. writer[y] = q
    BY <1>1, <2>1, <2>2, <2>4 DEF Consistent, DeletedWithRows
  <2>6. QED
    BY <1>3, <2>2, <2>5
<1>17. Logged \subseteq Logged' /\ r \in Logged'
  BY <1>1, <1>3, <1>9, <1>10, <1>15 DEF Logged, RunOK
<1>18. Traceable'
  <2>1. ASSUME NEW y \in Data, db'[y] # NoRow PROVE db'[y].by \in Logged'
    <3>1. y \in Place /\ (db[y] # NoRow => db[y].by \in Logged)
      BY <1>1, Places DEF Traceable, Data
    <3>2. QED
      BY <1>3, <1>6, <1>17, <2>1, <3>1 DEF PlaceOK, RunWrote
  <2>2. QED
    BY <1>17, <2>1 DEF Traceable, Data
<1>19. BookingsOwned'
  <2>1. SUFFICES ASSUME NEW x \in Booking, db'[x] # NoRow
                 PROVE  /\ db'[x].contact # NoId /\ x[2] = Key(db'[x].contact[1])
                        /\ NeverReset => \E y \in Contact :
                              db'[y] # NoRow /\ db'[y].contact = db'[x].contact
    BY <1>13 DEF BookingsOwned, Key
  <2>3. x \in Place
    BY Places DEF Data
  <2>4. db'[x].contact # NoId /\ x[2] = Key(db'[x].contact[1])
    BY <1>8, <2>1, <2>3 DEF PlaceOK, BookingOK
  <2>5. ASSUME NEW y \in Contact, db[y] # NoRow
        PROVE  db'[y] # NoRow /\ db'[y].contact = db[y].contact
    <3>1. y \in Place
      BY Places DEF Data
    <3>2. QED
      BY <1>3, <1>6, <1>10, <2>5, <3>1 DEF PlaceOK, ContactOK
  <2>6. CASE db[x] # NoRow /\ db'[x].contact = db[x].contact
    <3>1. NeverReset => \E y \in Contact : db[y] # NoRow /\ db[y].contact = db[x].contact
      BY <1>1, <2>6 DEF BookingsOwned
    <3>2. QED
      BY <2>4, <2>5, <2>6, <3>1
  <2>7. CASE ~(db[x] # NoRow /\ db'[x].contact = db[x].contact)
    <3>1. writer[x] = r /\ db'[x] = new[x]
      BY <1>3, <2>1, <2>3, <2>7
    <3>2. PICK k \in Person : run[r].ids[k] = db'[x].contact
      BY <1>6, <2>3, <2>7, <3>1 DEF PlaceOK, BookingOK
    <3>3. LET y == ContactPlace(k, r) IN
          /\ y \in Contact /\ y \in Place
          /\ writer[y] = r /\ new[y].contact = db'[x].contact
      BY <1>1, <2>4, <3>2, PlacesOf, Places DEF RunOK, Data
    <3>4. LET y == ContactPlace(k, r) IN
          y \in Contact /\ db'[y] # NoRow /\ db'[y].contact = db'[x].contact
      BY <1>3, <1>9, <3>3
    <3>5. QED
      BY <2>4, <3>4
  <2>8. QED
    BY <2>6, <2>7
<1>20. FilesThere'
  <2>1. Committed' = Committed \cup {r} /\ r \notin Committed
    BY <1>1, <1>2 DEF Committed
  <2>2. \A s \in Run, kind \in {"booking", "noshow", "activity"} : Rows(s, kind)' = Rows(s, kind)
    BY <1>2 DEF Rows
  <2>3. SUFFICES ASSUME NeverReset, NEW s \in Committed \cup {r}
                 PROVE  /\ \A f \in Rows(s, "booking") :
                              /\ db'[PlaceOf(f, s)] # NoRow
                              /\ db'[ContactPlace(f.who, s)] # NoRow
                        /\ \A f \in Rows(s, "activity") : db'[PlaceOf(f, s)] # NoRow
                        /\ \A f \in Rows(s, "noshow"), g \in Rows(s, "booking") :
                              (f.who \in Email /\ PlaceOf(g, s) = PlaceOf(f, s))
                                  => db'[PlaceOf(f, s)].mark \in NoShow
    BY <1>13, <2>1, <2>2 DEF FilesThere, Committed, PlaceOf
  <2>4. ASSUME NEW f, NEW i \in DOMAIN run[s].upload, f = run[s].upload[i]
        PROVE  /\ PlaceOf(f, s) \in Data /\ PlaceOf(f, s) \in Place
               /\ f.kind # "activity" => f.who \in Person /\ PlaceOf(f, s) \in Booking
    <3>1. s \in Run /\ i \in 1..Len(run[s].upload)
      BY <1>1, <2>4, Types DEF Committed
    <3>2. QED
      BY <1>1, <2>4, <3>1, RunRows, Places
  <2>5. CASE s = r
    <3>1. run[r].at = Len(run[r].upload) /\ Unowned(r) = {}
          /\ DOMAIN run[r].upload = 1..run[r].at
      BY <1>1, Types DEF RunOK
    <3>2. ASSUME NEW f \in Rows(r, "booking")
          PROVE  /\ db'[PlaceOf(f, r)] # NoRow
                 /\ db'[ContactPlace(f.who, r)] # NoRow
      <4>1. PICK i \in 1..run[r].at : f = run[r].upload[i] /\ f.kind = "booking"
        BY <3>1 DEF Rows
      <4>2. PlaceOf(f, r) \in Place /\ f.who \in Person
        BY <2>4, <2>5, <3>1, <4>1
      <4>3. writer[PlaceOf(f, r)] = r \/ db[PlaceOf(f, r)] # NoRow
        BY <1>1, <2>3, <4>1 DEF KeptSoFar, KeptAt
      <4>4. run[r].ids[f.who] # NoId
        BY <3>1, <4>1 DEF Unowned
      <4>5. writer[ContactPlace(f.who, r)] = r
        BY <1>1, <4>2, <4>4 DEF RunOK
      <4>6. ContactPlace(f.who, r) \in Place
        BY <4>2, PlacesOf, Places DEF Data
      <4>7. QED
        BY <1>3, <1>9, <1>10, <4>2, <4>3, <4>5, <4>6
    <3>3. ASSUME NEW f \in Rows(r, "activity") PROVE db'[PlaceOf(f, r)] # NoRow
      <4>1. PICK i \in 1..run[r].at : f = run[r].upload[i] /\ f.kind = "activity"
        BY <3>1 DEF Rows
      <4>2. PlaceOf(f, r) \in Place
        BY <2>4, <2>5, <3>1, <4>1
      <4>3. writer[PlaceOf(f, r)] = r \/ db[PlaceOf(f, r)] # NoRow
        BY <1>1, <2>3, <4>1 DEF KeptSoFar, KeptAt
      <4>4. QED
        BY <1>3, <1>9, <1>10, <4>2, <4>3
    <3>4. ASSUME NEW f \in Rows(r, "noshow"), NEW g \in Rows(r, "booking"),
                 f.who \in Email, PlaceOf(g, r) = PlaceOf(f, r)
          PROVE  db'[PlaceOf(f, r)].mark \in NoShow
      <4>1. PICK i \in 1..run[r].at : f = run[r].upload[i] /\ f.kind = "noshow"
        BY <3>1 DEF Rows
      <4>2. PlaceOf(f, r) \in Place
        BY <2>4, <2>5, <3>1, <4>1
      <4>3. writer[PlaceOf(f, r)] = r /\ new[PlaceOf(f, r)].mark \in NoShow
        BY <1>1, <2>3, <3>4, <4>1 DEF KeptSoFar, KeptAt
      <4>4. QED
        BY <1>3, <4>2, <4>3
    <3>5. QED
      BY <2>5, <3>2, <3>3, <3>4
  <2>6. CASE s \in Committed
    <3>1. ASSUME NEW f \in Rows(s, "booking")
          PROVE  /\ db'[PlaceOf(f, s)] # NoRow
                 /\ db'[ContactPlace(f.who, s)] # NoRow
      <4>1. PICK i \in DOMAIN run[s].upload : f = run[s].upload[i] /\ f.kind = "booking"
        BY DEF Rows
      <4>2. PlaceOf(f, s) \in Place /\ f.who \in Person /\ s \in Run
        BY <2>4, <2>6, <4>1 DEF Committed
      <4>3. ContactPlace(f.who, s) \in Place
        BY <4>2, PlacesOf, Places DEF Data
      <4>4. db[PlaceOf(f, s)] # NoRow /\ db[ContactPlace(f.who, s)] # NoRow
        BY <1>1, <2>3, <2>6, <3>1 DEF FilesThere
      <4>5. QED
        BY <1>10, <4>2, <4>3, <4>4
    <3>2. ASSUME NEW f \in Rows(s, "activity") PROVE db'[PlaceOf(f, s)] # NoRow
      <4>1. PICK i \in DOMAIN run[s].upload : f = run[s].upload[i]
        BY DEF Rows
      <4>2. PlaceOf(f, s) \in Place
        BY <2>4, <4>1
      <4>3. db[PlaceOf(f, s)] # NoRow
        BY <1>1, <2>3, <2>6, <3>2 DEF FilesThere
      <4>4. QED
        BY <1>10, <4>2, <4>3
    <3>3. ASSUME NEW f \in Rows(s, "noshow"), NEW g \in Rows(s, "booking"),
                 f.who \in Email, PlaceOf(g, s) = PlaceOf(f, s)
          PROVE  db'[PlaceOf(f, s)].mark \in NoShow
      <4>1. PICK i \in DOMAIN run[s].upload : f = run[s].upload[i] /\ f.kind = "noshow"
        BY DEF Rows
      <4>2. PlaceOf(f, s) \in Place /\ PlaceOf(f, s) \in Booking
        BY <2>4, <4>1
      <4>3. db[PlaceOf(f, s)].mark \in NoShow /\ db[PlaceOf(f, s)] # NoRow
        <5>1. db[PlaceOf(f, s)].mark \in NoShow
          BY <1>1, <2>3, <2>6, <3>3 DEF FilesThere
        <5>2. NoRow.mark \notin NoShow
          BY DEF NoRow, NoShow, None
        <5>3. QED
          BY <5>1, <5>2
      <4>4. QED
        BY <1>3, <1>6, <4>2, <4>3 DEF PlaceOK, BookingOK
    <3>4. QED
      BY <3>1, <3>2, <3>3
  <2>7. QED
    BY <2>3, <2>5, <2>6
<1>21. QED
  BY <1>4, <1>8, <1>11, <1>14, <1>16, <1>18, <1>19, <1>20 DEF IInv, Consistent, Kept

-----------------------------------------------------------------------------
(* Resets.                                                                 *)

\* Runs stand still while a reset moves.
LEMMA RunsStandStill ==
    ASSUME TypeOK, Consistent, \A s \in Run : KeptSoFar(s), run' = run,
           \A x \in Place, s \in Run : writer[x] = s => writer'[x] = s /\ new'[x] = new[x],
           NeverReset' => NeverReset /\ db' = db
    PROVE  \A s \in Run : RunOK(s)' /\ KeptSoFar(s)'
<1>1. SUFFICES ASSUME NEW s \in Run PROVE RunOK(s)' /\ KeptSoFar(s)'
  OBVIOUS
<1>2. RunOK(s) /\ KeptSoFar(s) /\ run'[s] = run[s]
  BY DEF Consistent
<1>3. RunOK(s)'
  BY <1>2, RunStands
<1>4. KeptSoFar(s)'
  BY <1>2, KeptStands
<1>5. QED
  BY <1>3, <1>4

LEMMA ResetTypes ==
    ASSUME TypeOK, NEW q \in Reset, NEW pc \in Ended, reset' = [reset EXCEPT ![q].pc = pc]
    PROVE  /\ reset' \in [Reset -> [pc : {"idle", "deleting"} \cup Ended, target : Run \cup {None}]]
           /\ reset'[q].pc = pc /\ \A p \in Reset : p # q => reset'[p] = reset[p]
<1> DEFINE State == [pc : {"idle", "deleting"} \cup Ended, target : Run \cup {None}]
<1>1. reset \in [Reset -> State] /\ reset[q] \in State
  BY DEF TypeOK
<1>2. reset' = [reset EXCEPT ![q] = [reset[q] EXCEPT !.pc = pc]]
  BY <1>1
<1>3. [reset[q] EXCEPT !.pc = pc] \in State
  BY <1>1
<1>4. reset'[q] = [reset[q] EXCEPT !.pc = pc]
  BY <1>1, <1>2
<1>5. QED
  BY <1>1, <1>2, <1>3, <1>4

LEMMA ReadLastKeepsIInv ==
    ASSUME IInv, NEW q \in Reset, ReadLast(q)
    PROVE  IInv'
<1>1. /\ TypeOK /\ Consistent /\ Traceable /\ BookingsOwned /\ Kept
      /\ db' = db /\ new' = new /\ writer' = writer /\ run' = run /\ begun' = begun
      /\ reset[q].pc = "idle"
  BY DEF IInv, ReadLast, tables
<1>2. PICK t \in Run \cup {None} : reset' = [reset EXCEPT ![q] = [pc |-> "deleting", target |-> t]]
  BY DEF ReadLast, Last, Logged
<1>3. /\ reset' \in [Reset -> [pc : {"idle", "deleting"} \cup Ended, target : Run \cup {None}]]
      /\ reset'[q].pc = "deleting" /\ \A p \in Reset : p # q => reset'[p] = reset[p]
  BY <1>1, <1>2 DEF TypeOK
<1>4. TypeOK'
  BY <1>1, <1>3 DEF TypeOK
<1>5. NeverReset' <=> NeverReset
  BY <1>1, <1>3 DEF NeverReset
<1>6. \A a \in Actor : Open(a) => Open(a)'
  BY <1>1, <1>3, Actors DEF Open
<1>7. ASSUME NEW y \in Place PROVE PlaceOK(y)'
  <2>1. PlaceOK(y)
    BY <1>1 DEF Consistent
  <2>2. writer[y] # None => Open(writer[y])'
    BY <1>1, <1>6, <2>1, Types DEF PlaceOK, LockOK
  <2>3. QED
    BY <1>1, <2>1, <2>2, PlaceStands
<1>8. \A s \in Run : RunOK(s)' /\ KeptSoFar(s)'
  BY <1>1, <1>5, RunsStandStill DEF Kept
<1>9. DeletedWithRows'
  BY <1>1 DEF Consistent, DeletedWithRows
<1>10. Traceable' /\ BookingsOwned'
  <2>1. Logged' = Logged
    BY <1>1 DEF Logged
  <2>2. QED
    BY <1>1, <1>5, <2>1 DEF Traceable, BookingsOwned
<1>11. FilesThere'
  BY <1>1, <1>5, FilesStand DEF Kept
<1>12. QED
  BY <1>4, <1>7, <1>8, <1>9, <1>10, <1>11 DEF IInv, Consistent, Kept

LEMMA DeleteRowKeepsIInv ==
    ASSUME IInv, NEW q \in Reset, DeleteRow(q)
    PROVE  IInv'
<1>1. /\ TypeOK /\ Consistent /\ Traceable /\ BookingsOwned /\ Kept
      /\ run' = run /\ reset' = reset /\ begun' = begun /\ Open(q) /\ q \in Actor
  BY Actors DEF IInv, DeleteRow, Open
<1>2. PICK x \in Doomed(q) : Write(q, x, NoRow)
  BY DEF DeleteRow
<1>3. /\ x \in Data \cup Log /\ x \in Place
      /\ Seen(q, x) # NoRow /\ Seen(q, x).by = reset[q].target
      /\ x \in Log => Targeted(q, Data) = {}
  BY <1>2, Places DEF Doomed, Targeted, Data
<1>4. /\ new' \in [Place -> Row] /\ writer' \in [Place -> Actor \cup {None}] /\ db' = db
      /\ writer[x] \in {q, None} /\ new'[x] = NoRow /\ writer'[x] = q
      /\ \A y \in Place : y # x => new'[y] = new[y] /\ writer'[y] = writer[y]
  BY <1>1, <1>2, <1>3, NewRows, WriteEffect
<1>5. PlaceOK(x)
  BY <1>1, <1>3 DEF Consistent
<1>6. writer[x] = None /\ db[x] # NoRow /\ db[x].by = reset[q].target
  BY <1>3, <1>4, <1>5, Actors DEF Seen, PlaceOK, ResetWrote
<1>7. TypeOK'
  BY <1>1, <1>4 DEF TypeOK
<1>8. \A a \in Actor : Open(a) => Open(a)'
  BY <1>1 DEF Open
<1>9. ASSUME NEW y \in Place PROVE PlaceOK(y)'
  <2>1. PlaceOK(y)
    BY <1>1 DEF Consistent
  <2>2. CASE y = x
    <3>1. LockOK(y)' /\ RunWrote(y)' /\ ResetWrote(y)'
      BY <1>1, <1>4, <1>6, <1>8, <2>2, Actors DEF LockOK, RunWrote, ResetWrote
    <3>2. ContactOK(y)' /\ BookingOK(y)' /\ LogOK(y)'
      BY <1>1, <1>4, <1>5, <2>2, Actors DEF PlaceOK, ContactOK, BookingOK, LogOK
    <3>3. QED
      BY <3>1, <3>2 DEF PlaceOK
  <2>3. CASE y # x
    <3>1. new'[y] = new[y] /\ writer'[y] = writer[y]
      BY <1>4, <2>3
    <3>2. writer[y] # None => Open(writer[y])'
      BY <1>8, <2>1, <3>1, Types, <1>1 DEF PlaceOK, LockOK
    <3>3. QED
      BY <1>1, <1>4, <2>1, <3>1, <3>2, PlaceStands
  <2>4. QED
    BY <2>2, <2>3
<1>10. DeletedWithRows'
  <2>1. SUFFICES ASSUME NEW s \in Run, NEW p \in Reset, writer'[LogPlace(s)] = p,
                        NEW y \in Data, db[y] # NoRow, db[y].by = s
                 PROVE  writer'[y] = p
    BY <1>4 DEF DeletedWithRows
  <2>2. LogPlace(s) \in Place /\ LogPlace(s) \in Log /\ y \in Place
    BY PlacesOf, Places
  <2>3. CASE LogPlace(s) = x
    <3>1. p = q /\ reset[q].target = s
      BY <1>4, <1>5, <1>6, <2>1, <2>3 DEF PlaceOK, LogOK
    <3>2. Seen(q, y) = NoRow \/ Seen(q, y).by # s
      BY <1>3, <2>2, <2>3, <3>1 DEF Targeted
    <3>3. writer[y] = q
      BY <2>1, <3>2 DEF Seen
    <3>4. y # x
      BY <2>2, <2>3, Places
    <3>5. QED
      BY <1>4, <2>2, <3>1, <3>3, <3>4
  <2>4. CASE LogPlace(s) # x
    <3>1. writer[y] = p
      BY <1>1, <1>4, <2>1, <2>2, <2>4 DEF Consistent, DeletedWithRows
    <3>2. y # x
      BY <1>6, <3>1, Actors
    <3>3. QED
      BY <1>4, <2>2, <3>1, <3>2
  <2>5. QED
    BY <2>3, <2>4
<1>11. Traceable' /\ BookingsOwned'
  BY <1>1, <1>4, UncommittedStands
<1>12. NeverReset' <=> NeverReset
  BY <1>1 DEF NeverReset
<1>13. \A s \in Run : RunOK(s)' /\ KeptSoFar(s)'
  <2>1. \A y \in Place, s \in Run : writer[y] = s => writer'[y] = s /\ new'[y] = new[y]
    BY <1>4, <1>6, Actors
  <2>2. QED
    BY <1>1, <1>4, <1>12, <2>1, RunsStandStill DEF Kept
<1>14. FilesThere'
  BY <1>1, <1>4, <1>12, FilesStand DEF Kept
<1>15. QED
  BY <1>7, <1>9, <1>10, <1>11, <1>13, <1>14 DEF IInv, Consistent, Kept

LEMMA FinishResetKeepsIInv ==
    ASSUME IInv, NEW q \in Reset, FinishReset(q)
    PROVE  IInv'
<1> DEFINE unset == [NoRow EXCEPT !.mark = "pending"]
<1>1. /\ TypeOK /\ Consistent /\ Traceable /\ BookingsOwned /\ Kept
      /\ run' = run /\ begun' = begun /\ q # None /\ reset[q].pc = "deleting"
      /\ reset' = [reset EXCEPT ![q].pc = "committed"] /\ "committed" \in Ended
  BY Actors DEF IInv, FinishReset, Ended
<1>2. /\ reset' \in [Reset -> [pc : {"idle", "deleting"} \cup Ended, target : Run \cup {None}]]
      /\ reset'[q].pc = "committed" /\ \A p \in Reset : p # q => reset'[p] = reset[p]
  BY <1>1, ResetTypes
<1>3. ~NeverReset'
  BY <1>2 DEF NeverReset
<1>4. /\ unset \in Row /\ unset.mark = "pending" /\ unset.mark # FlagWhenDone
      /\ Location \in Place /\ Location \notin Data /\ Location \notin Log
  <2>1. unset \in Row /\ unset.mark = "pending"
    BY NewRows DEF NoRow, Row
  <2>2. QED
    BY <2>1, Places DEF FlagWhenDone
<1>5. /\ \A y \in Place : y # Location => db'[y] = IF writer[y] = q THEN new[y] ELSE db[y]
      /\ db'[Location] = unset
      /\ \A y \in Place : y # Location => new'[y] = new[y]
      /\ new'[Location] = unset
      /\ \A y \in Place : writer'[y] = IF writer[y] = q THEN None ELSE writer[y]
      /\ new' \in [Place -> Row]
      /\ writer[Location] \in {q, None}
  <2> HIDE DEF unset
  <2>1. new \in [Place -> Row]
    BY <1>1 DEF TypeOK
  <2>2. QED
    BY <1>4, <2>1 DEF FinishReset, Free, unset
<1>6. TypeOK'
  <2>1. db' \in [Place -> Row]
    <3> HIDE DEF unset
    <3>1. \A y \in Place : (IF y = Location THEN unset ELSE IF writer[y] = q THEN new[y] ELSE db[y]) \in Row
      BY <1>1, <1>4, Types
    <3>2. db' = [y \in Place |-> IF y = Location THEN unset
                                 ELSE IF writer[y] = q THEN new[y] ELSE db[y]]
      BY DEF FinishReset, unset
    <3>3. QED
      BY <3>1, <3>2
  <2>2. writer' \in [Place -> Actor \cup {None}]
    BY <1>1, Types DEF FinishReset
  <2>3. QED
    BY <1>1, <1>2, <1>5, <2>1, <2>2 DEF TypeOK
<1>7. \A a \in Actor : a # q /\ Open(a) => Open(a)'
  BY <1>1, <1>2, Actors DEF Open
<1>8. \A y \in Place : PlaceOK(y)
  BY <1>1 DEF Consistent
<1>9. \A y \in Place : y # Location => db'[y] \in {db[y], NoRow}
  BY <1>5, <1>8 DEF PlaceOK, ResetWrote
<1>10. ASSUME NEW y \in Place PROVE PlaceOK(y)'
  <2>1. CASE y = Location
    <3>1. writer'[y] = None /\ new'[y] = db'[y]
      BY <1>5, <2>1
    <3>2. LockOK(y)' /\ RunWrote(y)' /\ ResetWrote(y)'
      BY <3>1, Actors DEF LockOK, RunWrote, ResetWrote
    <3>3. ContactOK(y)' /\ BookingOK(y)' /\ LogOK(y)'
      BY <1>4, <2>1, PlacesOf DEF ContactOK, BookingOK, LogOK, Data
    <3>4. QED
      BY <3>2, <3>3 DEF PlaceOK
  <2>2. CASE y # Location /\ writer[y] = q
    <3>1. y \in Contact => y \notin Booking
      BY Places
    <3>2. writer'[y] = None /\ new'[y] = db'[y] /\ db'[y] \in {db[y], NoRow}
      BY <1>5, <1>9, <2>2
    <3>3. QED
      BY <1>1, <1>8, <3>1, <3>2, PlaceSettles
  <2>3. CASE y # Location /\ writer[y] # q
    <3>1. db'[y] = db[y] /\ new'[y] = new[y] /\ writer'[y] = writer[y]
      BY <1>5, <2>3
    <3>2. writer[y] # None => Open(writer[y])'
      BY <1>1, <1>7, <1>8, <2>3, <3>1, Types DEF PlaceOK, LockOK
    <3>3. QED
      BY <1>1, <1>8, <3>1, <3>2, PlaceStands
  <2>4. QED
    BY <2>1, <2>2, <2>3
<1>11. \A s \in Run : LogPlace(s) \in Place /\ LogPlace(s) \in Log /\ LogPlace(s) # Location
  BY PlacesOf, Places
<1>12. \A y \in Data : y \in Place /\ y # Location
  BY Places
<1>13. DeletedWithRows'
  <2>1. SUFFICES ASSUME NEW s \in Run, NEW p \in Reset, writer'[LogPlace(s)] = p,
                        NEW y \in Data, db'[y] # NoRow, db'[y].by = s
                 PROVE  writer'[y] = p
    BY DEF DeletedWithRows
  <2>2. writer[LogPlace(s)] = p /\ p # q
    BY <1>5, <1>11, <2>1, Actors
  <2>3. db[y] # NoRow /\ db[y].by = s
    BY <1>9, <1>12, <2>1
  <2>4. writer[y] = p
    BY <1>1, <2>2, <2>3 DEF Consistent, DeletedWithRows
  <2>5. QED
    BY <1>5, <1>12, <2>2, <2>4
<1>14. Traceable'
  <2>1. ASSUME NEW y \in Data, db'[y] # NoRow PROVE db'[y].by \in Logged'
    <3>1. db[y] # NoRow /\ db'[y] = db[y] /\ y \in Place
      BY <1>9, <1>12, <2>1
    <3>2. db[y].by \in Logged
      BY <1>1, <3>1 DEF Traceable, Data
    <3>3. PICK s \in Run : s = db[y].by /\ db[LogPlace(s)] # NoRow
      BY <3>2 DEF Logged
    <3>4. writer[y] # q
      BY <1>5, <1>8, <1>12, <2>1, <3>1 DEF PlaceOK, ResetWrote
    <3>5. writer[LogPlace(s)] # q
      BY <1>1, <3>1, <3>3, <3>4 DEF Consistent, DeletedWithRows
    <3>6. QED
      BY <1>5, <1>11, <3>1, <3>3, <3>5 DEF Logged
  <2>2. db'[Location].mark # FlagWhenDone
    BY <1>4, <1>5
  <2>3. QED
    BY <2>1, <2>2 DEF Traceable, Data
<1>15. BookingsOwned'
  <2>1. ASSUME NEW x \in Booking, db'[x] # NoRow
        PROVE  db'[x].contact # NoId /\ x[2] = Key(db'[x].contact[1])
    BY <1>10, <2>1, Places DEF PlaceOK, BookingOK, Data
  <2>2. QED
    BY <1>3, <2>1 DEF BookingsOwned, Key
<1>16. \A s \in Run : RunOK(s)' /\ KeptSoFar(s)'
  <2>1. \A y \in Place, s \in Run : writer[y] = s => writer'[y] = s /\ new'[y] = new[y]
    BY <1>5, Actors
  <2>2. QED
    BY <1>1, <1>3, <2>1, RunsStandStill DEF Kept
<1>17. FilesThere'
  BY <1>3 DEF FilesThere
<1>18. QED
  BY <1>6, <1>10, <1>13, <1>14, <1>15, <1>16, <1>17 DEF IInv, Consistent, Kept

LEMMA ResetRollsBackKeepsIInv ==
    ASSUME IInv, NEW q \in Reset, ResetRollsBack(q)
    PROVE  IInv'
<1>1. /\ TypeOK /\ Consistent /\ Traceable /\ BookingsOwned /\ Kept
      /\ run' = run /\ begun' = begun /\ q \in Actor /\ q \notin Run /\ reset[q].pc = "deleting"
      /\ reset' = [reset EXCEPT ![q].pc = "rolled back"] /\ "rolled back" \in Ended
      /\ RollbackTables(q)
  BY Actors DEF IInv, ResetRollsBack, Ended
<1>2. /\ reset' \in [Reset -> [pc : {"idle", "deleting"} \cup Ended, target : Run \cup {None}]]
      /\ reset'[q].pc = "rolled back" /\ \A p \in Reset : p # q => reset'[p] = reset[p]
  BY <1>1, ResetTypes
<1>3. \A b \in Actor : b # q /\ Open(b) => Open(b)'
  BY <1>1, <1>2, Actors DEF Open
<1>4. /\ new' \in [Place -> Row] /\ writer' \in [Place -> Actor \cup {None}] /\ db' = db
      /\ \A y \in Place : PlaceOK(y)'
      /\ \A y \in Place, b \in Actor :
            b # q /\ writer[y] = b => writer'[y] = b /\ new'[y] = new[y]
      /\ DeletedWithRows'
  BY <1>1, <1>3, Rollback
<1>5. TypeOK'
  BY <1>1, <1>2, <1>4 DEF TypeOK
<1>6. NeverReset' <=> NeverReset
  BY <1>1, <1>2 DEF NeverReset
<1>7. \A s \in Run : RunOK(s)' /\ KeptSoFar(s)'
  <2>1. \A y \in Place, s \in Run : writer[y] = s => writer'[y] = s /\ new'[y] = new[y]
    BY <1>1, <1>4, Actors
  <2>2. QED
    BY <1>1, <1>4, <1>6, <2>1, RunsStandStill DEF Kept
<1>8. Traceable' /\ BookingsOwned'
  <2>1. Logged' = Logged
    BY <1>4 DEF Logged
  <2>2. QED
    BY <1>1, <1>4, <1>6, <2>1 DEF Traceable, BookingsOwned
<1>9. FilesThere'
  BY <1>1, <1>4, <1>6, FilesStand DEF Kept
<1>10. QED
  BY <1>4, <1>5, <1>7, <1>8, <1>9 DEF IInv, Consistent, Kept

-----------------------------------------------------------------------------
(* Every step, and the theorems.                                           *)

LEMMA InitIInv == Init => IInv
<1> SUFFICES ASSUME Init PROVE IInv
  OBVIOUS
<1> DEFINE flag == [NoRow EXCEPT !.mark = "pending"]
<1>1. /\ \A x \in Place : x # Location => db[x] = NoRow
      /\ Location \in Place /\ db[Location] = flag /\ flag \in Row /\ flag.mark = "pending"
      /\ db \in [Place -> Row] /\ new = db
      /\ \A x \in Place : writer[x] = None
  <2>1. flag \in Row /\ flag.mark = "pending"
    BY NewRows DEF NoRow, Row
  <2> HIDE DEF flag
  <2>2. db = [x \in Place |-> IF x = Location THEN flag ELSE NoRow]
    BY DEF Init, flag
  <2>3. QED
    BY <2>1, <2>2, NewRows, Places DEF Init
<1>2. \A r \in Run : /\ run[r].pc = "idle" /\ run[r].upload = <<>> /\ run[r].at = 0
                     /\ \A k \in Person : run[r].ids[k] = NoId
  BY DEF Init
<1>3. \A q \in Reset : reset[q].pc = "idle"
  BY DEF Init
<1>4. TypeOK
  <2>1. run \in [Run -> RunState]
    BY DEF Init, RunState
  <2>2. reset \in [Reset -> [pc : {"idle", "deleting"} \cup Ended, target : Run \cup {None}]]
    BY DEF Init
  <2>3. writer \in [Place -> Actor \cup {None}] /\ begun \in [Run -> Nat]
    BY DEF Init
  <2>4. QED
    BY <1>1, <2>1, <2>2, <2>3 DEF TypeOK
<1>5. ASSUME NEW x \in Place PROVE PlaceOK(x)
  <2>1. LockOK(x) /\ RunWrote(x) /\ ResetWrote(x)
    BY <1>1, Actors DEF LockOK, RunWrote, ResetWrote
  <2>2. x \in Data \cup Log => db[x] = NoRow
    BY <1>1, Places
  <2>3. ContactOK(x) /\ BookingOK(x) /\ LogOK(x)
    BY <1>1, <2>2, Actors, PlacesOf DEF ContactOK, BookingOK, LogOK, Data
  <2>4. QED
    BY <2>1, <2>3 DEF PlaceOK
<1>6. ASSUME NEW r \in Run PROVE RunOK(r) /\ KeptSoFar(r)
  <2>1. ~Open(r)
    BY <1>2, Actors DEF Open
  <2>2. Len(run[r].upload) = 0
    BY <1>2
  <2>3. QED
    BY <1>2, <2>1, <2>2 DEF RunOK, KeptSoFar, KeptAt
<1>7. \A y \in Data : db[y] = NoRow
  BY <1>1, Places
<1>8. DeletedWithRows
  BY <1>7 DEF DeletedWithRows
<1>9. Traceable /\ BookingsOwned
  BY <1>1, <1>7 DEF Traceable, BookingsOwned, FlagWhenDone, Data
<1>10. FilesThere
  BY <1>2 DEF FilesThere, Committed
<1>11. QED
  BY <1>4, <1>5, <1>6, <1>8, <1>9, <1>10 DEF IInv, Consistent, Kept

LEMMA StutterKeepsIInv ==
    ASSUME IInv, UNCHANGED vars
    PROVE  IInv'
<1>1. /\ db' = db /\ new' = new /\ writer' = writer
      /\ run' = run /\ reset' = reset /\ begun' = begun
  BY DEF vars
<1>2. TypeOK' /\ Consistent'
  BY <1>1 DEF IInv, TypeOK, Consistent, PlaceOK, LockOK, RunWrote, ResetWrote, ContactOK,
              BookingOK, LogOK, RunOK, DeletedWithRows, Open, Unowned
<1>3. Traceable' /\ BookingsOwned'
  BY <1>1, UncommittedStands DEF IInv
<1>4. Kept'
  <2>1. /\ NeverReset' = NeverReset /\ Committed' = Committed
        /\ \A r \in Run : Open(r)' = Open(r) /\ \A kind : Rows(r, kind)' = Rows(r, kind)
    BY <1>1 DEF Open, NeverReset, Rows, Committed
  <2>2. ASSUME NEW r \in Run PROVE KeptSoFar(r)'
    <3>1. KeptSoFar(r) /\ (\A f : KeptAt(f, r)' <=> KeptAt(f, r))
      BY <1>1, <2>1, <2>2 DEF IInv, Kept, KeptAt, PlaceOf
    <3>2. QED
      BY <1>1, <2>1, <3>1 DEF KeptSoFar
  <2>3. FilesThere'
    BY <1>1, <2>1 DEF IInv, Kept, FilesThere, Committed
  <2>4. QED
    BY <2>2, <2>3 DEF Kept
<1>5. QED
  BY <1>2, <1>3, <1>4 DEF IInv

LEMMA NextIInv == IInv /\ [Next]_vars => IInv'
<1> SUFFICES ASSUME IInv, [Next]_vars PROVE IInv'
  OBVIOUS
<1>1. ASSUME NEW r \in Run, RunStep(r) PROVE IInv'
  <2>1. CASE Start(r)
    BY <2>1, StartKeepsIInv
  <2>2. CASE UpsertContact(r)
    BY <2>2, UpsertContactKeepsIInv
  <2>3. CASE InsertBooking(r)
    BY <2>3, InsertBookingKeepsIInv
  <2>4. CASE RecordNoShow(r)
    BY <2>4, RecordNoShowKeepsIInv
  <2>5. CASE InsertSession(r)
    BY <2>5, InsertSessionKeepsIInv
  <2>6. CASE LogAndFlag(r)
    BY <2>6, LogAndFlagKeepsIInv
  <2>7. CASE Commit(r)
    BY <2>7, CommitKeepsIInv
  <2>8. QED
    BY <1>1, <2>1, <2>2, <2>3, <2>4, <2>5, <2>6, <2>7 DEF RunStep
<1>2. ASSUME NEW q \in Reset, ResetStep(q) PROVE IInv'
  <2>1. CASE ReadLast(q)
    BY <2>1, ReadLastKeepsIInv
  <2>2. CASE DeleteRow(q)
    BY <2>2, DeleteRowKeepsIInv
  <2>3. CASE FinishReset(q)
    BY <2>3, FinishResetKeepsIInv
  <2>4. QED
    BY <1>2, <2>1, <2>2, <2>3 DEF ResetStep
<1>3. ASSUME NEW a \in Actor, RollsBack(a) PROVE IInv'
  <2>1. CASE a \in Run
    BY <1>3, <2>1, RunRollsBackKeepsIInv DEF RollsBack
  <2>2. CASE a \in Reset
    BY <1>3, <2>2, Actors, ResetRollsBackKeepsIInv DEF RollsBack
  <2>3. QED
    BY <2>1, <2>2, Actors
<1>4. ASSUME NEW a \in Actor, Victim(a) \/ Fails(a) PROVE IInv'
  BY <1>3, <1>4 DEF Victim, Fails
<1>5. CASE UNCHANGED vars
  BY <1>5, StutterKeepsIInv
<1>6. QED
  BY <1>1, <1>2, <1>4, <1>5 DEF Next

\* The inductive invariant: places, transactions and files fit together.
THEOREM Invariance == Spec => []IInv
BY InitIInv, NextIInv, PTL DEF Spec

\* Every variable keeps its type.
THEOREM TypeCorrect == Spec => []TypeOK
<1>1. IInv => TypeOK
  BY DEF IInv
<1>2. QED
  BY <1>1, Invariance, PTL

\* Every row names a run that is logged, whatever transactions and resets overlap
\* and whichever of them roll back.
THEOREM RowsTraceable == Spec => []Traceable
<1>1. IInv => Traceable
  BY DEF IInv
<1>2. QED
  BY <1>1, Invariance, PTL

\* A booking has its owner's id, and the owner is there until a reset.
THEOREM Owned == Spec => []BookingsOwned
<1>1. IInv => BookingsOwned
  BY DEF IInv
<1>2. QED
  BY <1>1, Invariance, PTL

\* The booking of somebody who has an address is with the one contact that address
\* has: its id is that of a contact that is there, and of a person with the key of
\* the place.
LEMMA FilesOwned ==
    ASSUME IInv, NeverReset, NEW r \in Committed, NEW f \in Rows(r, "booking"), f.who \in Email
    PROVE  db[PlaceOf(f, r)].contact = db[ContactPlace(f.who, r)].contact
<1> DEFINE x == PlaceOf(f, r)
           id == db[x].contact
<1>1. f.who \in Person /\ f.class \in Class /\ f.kind = "booking" /\ r \in Run
  <2>1. r \in Run /\ f.kind = "booking"
    BY DEF Committed, Rows
  <2>2. PICK i \in DOMAIN run[r].upload : f = run[r].upload[i]
    BY DEF Rows
  <2>3. f \in FileRow
    BY <2>1, <2>2, RunRows, Types DEF IInv
  <2>4. QED
    BY <2>1, <2>3, RowsOfFiles
<1>2. x \in Booking /\ x[2] = f.who /\ db[x] # NoRow
  BY <1>1, PlacesOf DEF IInv, Kept, FilesThere, PlaceOf, Key
<1>3. x[2] = (IF id[1] \in Email THEN id[1] ELSE NoEmail)
      /\ \E y \in Contact : db[y] # NoRow /\ db[y].contact = id
  BY <1>2 DEF IInv, BookingsOwned
<1>4. PICK y \in Contact : db[y] # NoRow /\ db[y].contact = id
  BY <1>3
<1>5. id[1] = f.who
  BY <1>1, <1>2, <1>3, IngestAssumption DEF Person
<1>6. y \in Place /\ db[y].contact[1] = y[2]
  BY <1>4, Places DEF IInv, Consistent, PlaceOK, ContactOK, Data
<1>7. y = ContactPlace(f.who, r)
  BY <1>4, <1>5, <1>6 DEF Contact, ContactPlace
<1>8. QED
  BY <1>4, <1>7

\* Until a reset, a committed run's files are in the tables, no-shows as such, and
\* the bookings of people who have an address are theirs.
THEOREM FilesStayKept == Spec => []FilesKept
<1>1. IInv => FilesKept
  BY FilesOwned DEF IInv, Kept, FilesThere, FilesKept
<1>2. QED
  BY <1>1, Invariance, PTL

=============================================================================
