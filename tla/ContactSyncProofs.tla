-------------------------- MODULE ContactSyncProofs --------------------------
(***************************************************************************)
(* The GHL push for any number of contacts, any facts an ingest may find   *)
(* about them, and under every failure the model knows.                    *)
(***************************************************************************)
EXTENDS ContactSync, Integers, FiniteSetTheorems, TLAPS

Mid == {"upserting", "updating", "adding", "removing", "moving", "recording"}

\* A contact is pushed once in a batch, and until that push is recorded its
\* snapshot is the committed one.
Books ==
    /\ push.ended \subseteq push.touched /\ push.todo \cap push.touched = {}
    /\ push.pc \in Mid => contact \in push.touched \ push.ended
    /\ push.pc = "upserting" => txn[contact].id = NoId
    /\ push.pc \in Mid \ {"upserting"} => txn[contact].id # NoId
    /\ push.pc = "idle" => row = txn
    /\ \A d \in Contact \ push.ended : txn[d].snap = row[d].snap

\* A row, in the table or in the transaction, knows a GHL contact of its own,
\* and has the timestamp of every tag its snapshot has and GHL got lately.
LinkOK(r, d) ==
    IF r.id = NoId THEN r.snap.tags = {}
    ELSE /\ r.id \in DOMAIN ghl
         /\ ghl[r.id].owner = d
         /\ ghl[r.id].fresh \cap r.snap.tags \subseteq r.fresh

Links == \A d \in Contact : LinkOK(row[d], d) /\ LinkOK(txn[d], d)

\* What is being removed spares the markers and what was just added; what was
\* just added has its timestamp before the snapshot has it.
Guarded ==
    /\ push.remove \cap NeverRemoved = {}
    /\ push.pc = "removing" =>
          push.remove \subseteq prev.tags /\ push.remove \cap txn[contact].fresh = {}
    /\ push.pc \in {"moving", "recording"} =>
          TagsToAdd(current, prev) \cap ghl[txn[contact].id].fresh \subseteq txn[contact].fresh

\* GHL numbers its contacts in turn; one per email address.
Numbered == \E n \in Nat : DOMAIN ghl = 1..n
OnePerEmail ==
    \A i, j \in DOMAIN ghl : ghl[i].owner = ghl[j].owner /\ ghl[i].owner \in Email => i = j

Safe == Books /\ Links /\ Guarded /\ Numbered /\ OnePerEmail

IInv == TypeOK /\ Safe

-----------------------------------------------------------------------------
(* What compute_flags and compute_delta return.                            *)

LEMMA FieldsTyped ==
    ASSUME NEW f \in Fact
    PROVE  FieldsOf(f) \in Values
BY DEF FieldsOf, Values, Field, Fact

LEMMA TagsTyped ==
    ASSUME NEW f \in Facts
    PROVE  TagsDesired(f) \subseteq TagName
BY DEF TagName

LEMMA StagesTyped ==
    ASSUME NEW f \in Fact, NEW tags
    PROVE  StagesDesired(f, tags) \in Stages
<1>1. LeadStage(f, tags) \in Stage
  BY DEF LeadStage, Stage
<1>2. CardStage(f) \in Stage
  BY DEF CardStage, Stage
<1>3. MembershipStage(f) \in Stage
  BY DEF MembershipStage, Stage
<1>4. QED
  BY <1>1, <1>2, <1>3 DEF StagesDesired, Stages

\* Markers are never among the removals, additions are never in the snapshot.
LEMMA DeltaFacts ==
    ASSUME NEW f \in Facts, NEW s \in Snapshot
    PROVE  /\ TagsToAdd(f, s) \subseteq TagName /\ TagsToAdd(f, s) \cap s.tags = {}
           /\ TagsToRemove(f, s) \subseteq s.tags
           /\ TagsToRemove(f, s) \cap NeverRemoved = {}
           /\ Moves(f, s) \subseteq Pipeline
BY TagsTyped DEF TagsToAdd, TagsToRemove, Moves

LEMMA RowTypes ==
    ASSUME TypeOK
    PROVE  /\ \A d \in Contact : /\ row[d] \in Row /\ txn[d] \in Row
                                 /\ row[d].snap \in Snapshot /\ txn[d].snap \in Snapshot
                                 /\ push.seen[d] \in Facts /\ push.seen[d] \in Fact
           /\ contact \in Contact /\ current \in Facts /\ current \in Fact
           /\ prev \in Snapshot /\ prev.tags \subseteq TagName
           /\ push \in Push
BY ContactSyncAssumption DEF TypeOK, Row, Snapshot, Push, contact, current, prev

LEMMA NoSnapshotTyped == NoSnapshot \in Snapshot
<1>1. NoFields \in Values
  BY DEF NoFields, Values
<1>2. NoStages \in Stages
  BY DEF NoStages, Stages, Stage
<1>3. QED
  BY <1>1, <1>2 DEF NoSnapshot, Snapshot

LEMMA NoPushTyped == NoPush \in Push
<1>1. (CHOOSE f \in Facts : TRUE) \in Facts
  BY ContactSyncAssumption
<1>2. (CHOOSE c \in Contact : TRUE) \in Contact
  BY ContactSyncAssumption
<1>3. QED
  BY <1>1, <1>2 DEF NoPush, Push, Pc

LEMMA InitIInv == Init => IInv
<1> SUFFICES ASSUME Init PROVE IInv
  OBVIOUS
<1>1. [id |-> NoId, snap |-> NoSnapshot, fresh |-> {}, skipped |-> {}] \in Row
  BY NoSnapshotTyped DEF Row
<1>2. DOMAIN ghl = {} /\ DOMAIN ghl = 1..0
  BY DEF Init
<1>3. TypeOK
  BY <1>1, <1>2, NoPushTyped DEF Init, TypeOK
<1>4. Books
  BY DEF Init, Books, NoPush, Mid
<1>5. Links
  BY DEF Init, Links, LinkOK, NoSnapshot
<1>6. Guarded
  BY DEF Init, Guarded, NoPush
<1>7. Numbered /\ OnePerEmail
  BY <1>2 DEF Numbered, OnePerEmail
<1>8. QED
  BY <1>3, <1>4, <1>5, <1>6, <1>7 DEF IInv, Safe

-----------------------------------------------------------------------------
(* Steps that call nobody.                                                 *)

LEMMA StartIInv ==
    ASSUME IInv, Start
    PROVE  IInv'
<1>1. PICK seen \in [Contact -> Facts] :
        push' = [NoPush EXCEPT !.pc = "visiting", !.seen = seen, !.todo = Contact]
  BY DEF Start
<1>2. /\ push' \in Push /\ push'.pc = "visiting"
      /\ push'.ended = {} /\ push'.touched = {} /\ push'.remove = {}
  BY <1>1, NoPushTyped DEF NoPush, Push, Pc
<1>3. UNCHANGED <<row, txn, ghl, known, unsure>> /\ row = txn
  BY DEF Start, IInv, Safe, Books
<1>4. TypeOK'
  BY <1>2, <1>3 DEF IInv, TypeOK
<1>5. Books' /\ Guarded'
  BY <1>2, <1>3 DEF Books, Guarded, Mid
<1>6. Links' /\ Numbered' /\ OnePerEmail'
  BY <1>3 DEF IInv, Safe, Links, LinkOK, Numbered, OnePerEmail
<1>7. QED
  BY <1>4, <1>5, <1>6 DEF IInv, Safe

LEMMA VisitIInv ==
    ASSUME IInv, NEW d \in push.todo, Visit(d)
    PROVE  IInv'
<1> DEFINE moves == Moves(push.seen[d], txn[d].snap)
           to == IF txn[d].id = NoId THEN "upserting" ELSE "updating"
<1>1. push \in Push /\ push.pc = "visiting" /\ d \in Contact
  BY DEF Visit, IInv, TypeOK, Push
<1>2. moves \in SUBSET Pipeline
  BY <1>1, DeltaFacts, RowTypes DEF IInv
<1>3. UNCHANGED <<row, txn, ghl, known, unsure>>
  BY DEF Visit
<1>4. Links' /\ Numbered' /\ OnePerEmail'
  BY <1>3 DEF IInv, Safe, Links, LinkOK, Numbered, OnePerEmail
<1>5. CASE Changed(d)
  <2>1. push' = [push EXCEPT !.pc = to, !.at = d, !.todo = @ \ {d},
                             !.touched = @ \cup {d}, !.moves = moves]
    BY <1>5 DEF Visit
  <2>2. /\ to \in {"upserting", "updating"}
        /\ to = "upserting" <=> txn[d].id = NoId
    OBVIOUS
  <2> HIDE DEF to, moves
  <2>3. /\ push' \in Push /\ push'.pc = to /\ push'.at = d
        /\ push'.todo = push.todo \ {d} /\ push'.touched = push.touched \cup {d}
        /\ push'.ended = push.ended /\ push'.remove = push.remove
    BY <1>1, <1>2, <2>1, <2>2 DEF Push, Pc
  <2>4. TypeOK'
    BY <1>3, <2>3 DEF IInv, TypeOK
  <2>5. contact' = d
    BY <2>3 DEF contact
  <2>6. Books'
    BY <1>1, <1>3, <2>2, <2>3, <2>5 DEF IInv, Safe, Books, Mid
  <2>7. Guarded'
    BY <2>2, <2>3 DEF IInv, Safe, Guarded
  <2>8. QED
    BY <1>4, <2>4, <2>6, <2>7 DEF IInv, Safe
<1>6. CASE ~Changed(d)
  <2>1. push' = [push EXCEPT !.todo = @ \ {d}]
    BY <1>6 DEF Visit
  <2>2. /\ push' \in Push /\ push'.pc = "visiting"
        /\ push'.todo = push.todo \ {d} /\ push'.touched = push.touched
        /\ push'.ended = push.ended /\ push'.remove = push.remove
    BY <1>1, <2>1 DEF Push
  <2>3. TypeOK'
    BY <1>3, <2>2 DEF IInv, TypeOK
  <2>4. Books' /\ Guarded'
    BY <1>1, <1>3, <2>2 DEF IInv, Safe, Books, Guarded, Mid
  <2>5. QED
    BY <1>4, <2>3, <2>4 DEF IInv, Safe
<1>7. QED
  BY <1>5, <1>6

\* The batch turns to its next contact, or to its end.
LEMMA TurnsTo ==
    ASSUME IInv, push.pc # "idle",
           push'.pc \in {"visiting", "closing"}, push' \in Push,
           push'.todo = push.todo, push'.touched = push.touched, push'.ended = push.ended,
           push'.remove \in {{}, push.remove}, UNCHANGED <<row, txn>>
    PROVE  Books' /\ Guarded'
BY DEF IInv, Safe, Books, Guarded, Mid

LEMMA GaveUp ==
    ASSUME IInv, NEW to \in {"visiting", "closing"}, GiveUp(to)
    PROVE  /\ push' \in Push /\ push'.pc = to /\ push'.remove = {}
           /\ push'.todo = push.todo /\ push'.touched = push.touched
           /\ push'.ended = push.ended
<1>1. push \in Push
  BY DEF IInv, TypeOK
<1>2. QED
  BY <1>1 DEF GiveUp, Push, Pc

LEMMA RefusedIInv ==
    ASSUME IInv, CallRefused
    PROVE  IInv'
<1>1. PICK to \in {"visiting", "closing"} : GiveUp(to)
  BY DEF CallRefused
<1>2. UNCHANGED <<row, txn, ghl, known, unsure>> /\ push.pc # "idle"
  BY DEF CallRefused, InCall
<1>3. Books' /\ Guarded'
  BY <1>1, <1>2, GaveUp, TurnsTo
<1>4. TypeOK'
  BY <1>1, <1>2, GaveUp DEF IInv, TypeOK
<1>5. Links' /\ Numbered' /\ OnePerEmail'
  BY <1>2 DEF IInv, Safe, Links, LinkOK, Numbered, OnePerEmail
<1>6. QED
  BY <1>3, <1>4, <1>5 DEF IInv, Safe

LEMMA BatchEndsIInv ==
    ASSUME IInv, BatchEnds
    PROVE  IInv'
<1>1. push \in Push /\ UNCHANGED <<row, txn, ghl, known, unsure>> /\ push.pc # "idle"
  BY DEF BatchEnds, IInv, TypeOK
<1>2. /\ push' \in Push /\ push'.pc = "closing" /\ push'.remove = push.remove
      /\ push'.todo = push.todo /\ push'.touched = push.touched /\ push'.ended = push.ended
  BY <1>1 DEF BatchEnds, Push, Pc
<1>3. Books' /\ Guarded'
  BY <1>1, <1>2, TurnsTo
<1>4. TypeOK'
  BY <1>1, <1>2 DEF IInv, TypeOK
<1>5. Links' /\ Numbered' /\ OnePerEmail'
  BY <1>1 DEF IInv, Safe, Links, LinkOK, Numbered, OnePerEmail
<1>6. QED
  BY <1>3, <1>4, <1>5 DEF IInv, Safe

LEMMA DoubtTyped ==
    ASSUME TypeOK, NEW failed, NEW well
    PROVE  Doubt(failed, well) \in [Contact -> SUBSET Facts]
<1>1. unsure \in [Contact -> SUBSET Facts] /\ \A d \in Contact : push.seen[d] \in Facts
  BY RowTypes DEF TypeOK
<1>2. QED
  BY <1>1 DEF Doubt

LEMMA TransactionEnds ==
    ASSUME IInv, Commit \/ Abort
    PROVE  IInv'
<1>1. push' = NoPush /\ UNCHANGED <<ghl, known>> /\ row' = txn'
      /\ (row' = row \/ row' = txn)
  BY DEF Commit, Abort
<1>2. unsure' \in [Contact -> SUBSET Facts]
  BY DoubtTyped DEF Commit, Abort, IInv
<1>3. TypeOK'
  BY <1>1, <1>2, NoPushTyped DEF IInv, TypeOK
<1>4. Books' /\ Guarded'
  BY <1>1 DEF Books, Guarded, NoPush, Mid
<1>5. Links' /\ Numbered' /\ OnePerEmail'
  BY <1>1 DEF IInv, Safe, Links, LinkOK, Numbered, OnePerEmail
<1>6. QED
  BY <1>3, <1>4, <1>5 DEF IInv, Safe

-----------------------------------------------------------------------------
(* What a call does to the contacts in GHL.                                *)

\* The contact i changes, but neither its owner nor its being there.
Touches(i) ==
    /\ DOMAIN ghl' = DOMAIN ghl
    /\ \A j \in DOMAIN ghl : /\ ghl'[j] \in GhlContact /\ ghl'[j].owner = ghl[j].owner
                             /\ j # i => ghl'[j] = ghl[j]

LEMMA OneChanges ==
    ASSUME IInv, NEW i \in DOMAIN ghl, NEW g \in GhlContact, g.owner = ghl[i].owner,
           ghl' = [ghl EXCEPT ![i] = g]
    PROVE  Touches(i) /\ ghl'[i] = g
BY DEF IInv, TypeOK, Touches

LEMMA TouchKeeps ==
    ASSUME IInv, NEW i \in DOMAIN ghl, Touches(i)
    PROVE  /\ Numbered' /\ OnePerEmail'
           /\ DOMAIN ghl' \subseteq Id /\ \A j \in DOMAIN ghl' : ghl'[j] \in GhlContact
<1>1. Numbered' /\ OnePerEmail'
  BY DEF IInv, Safe, Touches, Numbered, OnePerEmail
<1>2. DOMAIN ghl' \subseteq Id /\ \A j \in DOMAIN ghl' : ghl'[j] \in GhlContact
  BY DEF IInv, TypeOK, Touches
<1>3. QED
  BY <1>1, <1>2

LEMMA GhlTypes ==
    ASSUME IInv, NEW i \in DOMAIN ghl
    PROVE  /\ ghl[i] \in GhlContact /\ ghl[i].tags \subseteq TagName
           /\ ghl[i].fresh \subseteq TagName /\ ghl[i].fields \in Values
           /\ ghl[i].stage \in Stages /\ ghl[i].owner \in Contact
BY DEF IInv, TypeOK, GhlContact

LEMMA PushedTyped ==
    ASSUME NEW old \in Values, NEW new \in Values, NEW there \in Values
    PROVE  Pushed(old, new, there) \in Values
BY DEF Pushed, Values

LEMMA FieldsEffect ==
    ASSUME IInv, NEW i \in DOMAIN ghl, NEW old \in Values,
           ghl' = [ghl EXCEPT ![i].fields = Pushed(old, FieldsOf(current), @)]
    PROVE  /\ Touches(i) /\ ghl'[i].tags = ghl[i].tags /\ ghl'[i].fresh = ghl[i].fresh
           /\ ghl'[i].fields = Pushed(old, FieldsOf(current), ghl[i].fields)
           /\ ghl'[i].stage = ghl[i].stage
<1> DEFINE fs == Pushed(old, FieldsOf(current), ghl[i].fields)
           g == [ghl[i] EXCEPT !.fields = fs]
<1>1. ghl[i] \in GhlContact /\ ghl[i].fields \in Values /\ FieldsOf(current) \in Values
  BY GhlTypes, RowTypes, FieldsTyped DEF IInv
<1>2. fs \in Values
  BY <1>1, PushedTyped
<1>3. ghl' = [ghl EXCEPT ![i] = g] /\ fs = Pushed(old, FieldsOf(current), ghl[i].fields)
  OBVIOUS
<1> HIDE DEF fs
<1>4. /\ g \in GhlContact /\ g.owner = ghl[i].owner
      /\ g.tags = ghl[i].tags /\ g.fresh = ghl[i].fresh
      /\ g.fields = fs /\ g.stage = ghl[i].stage
  BY <1>1, <1>2 DEF GhlContact
<1> HIDE DEF g
<1>5. QED
  BY <1>3, <1>4, OneChanges

LEMMA AddEffect ==
    ASSUME IInv, NEW i \in DOMAIN ghl, AddTo(i)
    PROVE  /\ Touches(i) /\ ghl'[i].tags = ghl[i].tags \cup TagsToAdd(current, prev)
           /\ ghl'[i].fresh = ghl[i].fresh \cup TagsToAdd(current, prev)
           /\ ghl'[i].fields = ghl[i].fields /\ ghl'[i].stage = ghl[i].stage
<1> DEFINE add == TagsToAdd(current, prev)
           g == [ghl[i] EXCEPT !.tags = @ \cup add, !.fresh = @ \cup add]
<1>1. ghl[i] \in GhlContact /\ add \subseteq TagName
  BY GhlTypes, RowTypes, DeltaFacts DEF IInv
<1>2. ghl' = [ghl EXCEPT ![i] = g]
  BY DEF AddTo
<1> HIDE DEF add
<1>3. /\ g \in GhlContact /\ g.owner = ghl[i].owner
      /\ g.tags = ghl[i].tags \cup add /\ g.fresh = ghl[i].fresh \cup add
      /\ g.fields = ghl[i].fields /\ g.stage = ghl[i].stage
  BY <1>1 DEF GhlContact
<1> HIDE DEF g
<1>4. Touches(i) /\ ghl'[i] = g
  BY <1>2, <1>3, OneChanges
<1>5. QED
  BY <1>3, <1>4 DEF add

LEMMA RemoveEffect ==
    ASSUME IInv, NEW i \in DOMAIN ghl, RemoveFrom(i)
    PROVE  /\ Touches(i) /\ ghl'[i].tags = ghl[i].tags \ push.remove
           /\ ghl'[i].fresh = ghl[i].fresh \ push.remove
           /\ ghl'[i].fields = ghl[i].fields /\ ghl'[i].stage = ghl[i].stage
<1> DEFINE g == [ghl[i] EXCEPT !.tags = @ \ push.remove, !.fresh = @ \ push.remove]
<1>1. ghl[i] \in GhlContact
  BY GhlTypes
<1>2. ghl' = [ghl EXCEPT ![i] = g]
  BY DEF RemoveFrom
<1>3. /\ g \in GhlContact /\ g.owner = ghl[i].owner
      /\ g.tags = ghl[i].tags \ push.remove /\ g.fresh = ghl[i].fresh \ push.remove
      /\ g.fields = ghl[i].fields /\ g.stage = ghl[i].stage
  BY <1>1 DEF GhlContact
<1> HIDE DEF g
<1>4. QED
  BY <1>2, <1>3, OneChanges

LEMMA StageEffect ==
    ASSUME IInv, NEW i \in DOMAIN ghl, NEW p \in Pipeline, SetStage(i, p)
    PROVE  /\ Touches(i) /\ ghl'[i].tags = ghl[i].tags /\ ghl'[i].fresh = ghl[i].fresh
           /\ ghl'[i].fields = ghl[i].fields
           /\ \A q \in Pipeline : q # p => ghl'[i].stage[q] = ghl[i].stage[q]
           /\ ghl'[i].stage[p] = IF p \in known THEN StagesDesired(current, prev.tags)[p]
                                 ELSE ghl[i].stage[p]
<1>1. ghl[i] \in GhlContact /\ ghl[i].stage \in Stages
  BY GhlTypes
<1>2. CASE p \in known
  <2> DEFINE to == StagesDesired(current, prev.tags)[p]
             st == [ghl[i].stage EXCEPT ![p] = to]
             g == [ghl[i] EXCEPT !.stage = st]
  <2>1. to \in Stage
    BY StagesTyped, RowTypes DEF IInv, Stages
  <2>2. ghl' = [ghl EXCEPT ![i] = g]
    BY <1>2 DEF SetStage
  <2>3. to = StagesDesired(current, prev.tags)[p]
    OBVIOUS
  <2> HIDE DEF to
  <2>4. /\ st \in Stages /\ st[p] = to
        /\ \A q \in Pipeline : q # p => st[q] = ghl[i].stage[q]
    BY <1>1, <2>1 DEF Stages
  <2> HIDE DEF st
  <2>5. /\ g \in GhlContact /\ g.owner = ghl[i].owner
        /\ g.tags = ghl[i].tags /\ g.fresh = ghl[i].fresh
        /\ g.fields = ghl[i].fields /\ g.stage = st
    BY <1>1, <2>4 DEF GhlContact
  <2> HIDE DEF g
  <2>6. Touches(i) /\ ghl'[i] = g
    BY <2>2, <2>5, OneChanges
  <2>7. QED
    BY <1>2, <2>3, <2>4, <2>5, <2>6
<1>3. CASE p \notin known
  BY <1>3 DEF SetStage, Touches, IInv, TypeOK
<1>4. QED
  BY <1>2, <1>3

\* The contact an upsert has updated or created.
LEMMA UpsertEffect ==
    ASSUME IInv, NEW i \in Id, Upsert(i)
    PROVE  /\ DOMAIN ghl \subseteq DOMAIN ghl' /\ DOMAIN ghl' \subseteq Id
           /\ i \in DOMAIN ghl' /\ ghl'[i].owner = contact
           /\ \A j \in DOMAIN ghl' : ghl'[j] \in GhlContact
           /\ \A j \in DOMAIN ghl : /\ ghl'[j].owner = ghl[j].owner
                                    /\ ghl'[j].tags = ghl[j].tags
                                    /\ ghl'[j].fresh = ghl[j].fresh
                                    /\ ghl'[j].stage = ghl[j].stage
                                    /\ j # i => ghl'[j] = ghl[j]
           /\ \A j \in DOMAIN ghl' : j \in DOMAIN ghl \/ j = i
           /\ i \in DOMAIN ghl => ghl[i].owner = contact /\ contact \in Email
           /\ ghl'[i].fields = Pushed(NoFields, FieldsOf(current),
                                      IF i \in DOMAIN ghl THEN ghl[i].fields ELSE NoFields)
           /\ i \notin DOMAIN ghl => ghl'[i].tags = {} /\ ghl'[i].stage = NoStages
           /\ Numbered' /\ OnePerEmail'
<1>1. CASE Found # {}
  <2>1. /\ i \in DOMAIN ghl /\ ghl[i].owner = contact /\ contact \in Email
        /\ ghl' = [ghl EXCEPT ![i].fields = Pushed(NoFields, FieldsOf(current), @)]
    BY <1>1 DEF Upsert, Found
  <2>2. NoFields \in Values
    BY DEF NoFields, Values
  <2>3. /\ Touches(i) /\ ghl'[i].tags = ghl[i].tags /\ ghl'[i].fresh = ghl[i].fresh
        /\ ghl'[i].fields = Pushed(NoFields, FieldsOf(current), ghl[i].fields)
        /\ ghl'[i].stage = ghl[i].stage
    BY <2>1, <2>2, FieldsEffect
  <2>4. Numbered' /\ OnePerEmail' /\ DOMAIN ghl' \subseteq Id
        /\ \A j \in DOMAIN ghl' : ghl'[j] \in GhlContact
    BY <2>1, <2>3, TouchKeeps
  <2>5. QED
    BY <2>1, <2>3, <2>4 DEF Touches
<1>2. CASE Found = {}
  <2> DEFINE fs == Pushed(NoFields, FieldsOf(current), NoFields)
             new == [owner |-> contact, tags |-> {}, stage |-> NoStages, fields |-> fs,
                     fresh |-> {}]
  <2>1. i = NewId /\ ghl' = [j \in DOMAIN ghl \cup {i} |-> IF j = i THEN new ELSE ghl[j]]
    BY <1>2 DEF Upsert
  <2>2. /\ new \in GhlContact /\ new.owner = contact
        /\ new.fields = fs /\ new.tags = {} /\ new.stage = NoStages
    <3>1. NoStages \in Stages
      BY DEF NoStages, Stages, Stage
    <3>2. FieldsOf(current) \in Values /\ contact \in Contact
      BY RowTypes, FieldsTyped DEF IInv
    <3>3. NoFields \in Values
      BY DEF NoFields, Values
    <3>4. fs \in Values
      BY <3>2, <3>3, PushedTyped
    <3> HIDE DEF fs
    <3>5. QED
      BY <3>1, <3>2, <3>4 DEF GhlContact
  <2> HIDE DEF new
  <2>3. PICK n \in Nat : DOMAIN ghl = 1..n
    BY DEF IInv, Safe, Numbered
  <2>4. i = n + 1
    <3>1. Cardinality(1..n) = n
      BY <2>3, FS_Interval
    <3>2. QED
      BY <2>1, <2>3, <3>1 DEF NewId
  <2>5. DOMAIN ghl' = 1..(n + 1) /\ i \notin DOMAIN ghl
    BY <2>1, <2>3, <2>4
  <2>6. Numbered'
    BY <2>5 DEF Numbered
  <2>7. /\ DOMAIN ghl' = DOMAIN ghl \cup {i} /\ ghl'[i] = new
        /\ \A j \in DOMAIN ghl : ghl'[j] = ghl[j]
    BY <2>1, <2>5
  <2>8. OnePerEmail'
    <3>1. \A j \in DOMAIN ghl : ~(contact \in Email /\ ghl[j].owner = contact)
      BY <1>2 DEF Found
    <3>2. QED
      BY <2>2, <2>7, <3>1 DEF OnePerEmail, IInv, Safe
  <2>9. \A j \in DOMAIN ghl' : ghl'[j] \in GhlContact
    BY <2>2, <2>7 DEF IInv, TypeOK
  <2>10. QED
    BY <2>2, <2>5, <2>6, <2>7, <2>8, <2>9 DEF IInv, TypeOK
<1>3. QED
  BY <1>1, <1>2

-----------------------------------------------------------------------------
(* The calls of a push.                                                    *)

\* The GHL contact of the row at hand.
LEMMA AtHand ==
    ASSUME IInv, push.pc \in Mid \ {"upserting"}
    PROVE  /\ txn[contact].id \in DOMAIN ghl /\ contact \in Contact
           /\ ghl[txn[contact].id].owner = contact
           /\ txn[contact].snap = row[contact].snap
<1>1. contact \in Contact /\ contact \notin push.ended
  BY RowTypes DEF IInv, Safe, Books
<1>2. txn[contact].id # NoId
  BY DEF IInv, Safe, Books
<1>3. LinkOK(txn[contact], contact)
  BY <1>1 DEF IInv, Safe, Links
<1>4. QED
  BY <1>1, <1>2, <1>3 DEF LinkOK, IInv, Safe, Books

\* A call that makes no tag look recent but the additions keeps the links.
LEMMA CallKeepsLinks ==
    ASSUME IInv, push.pc \in Mid \ {"upserting"}, UNCHANGED <<row, txn>>,
           Touches(txn[contact].id),
           ghl'[txn[contact].id].fresh
              \subseteq ghl[txn[contact].id].fresh \cup TagsToAdd(current, prev)
    PROVE  Links'
<1> DEFINE i == txn[contact].id
<1>1. /\ i \in DOMAIN ghl /\ contact \in Contact /\ ghl[i].owner = contact
      /\ txn[contact].snap = row[contact].snap
  BY AtHand
<1>2. TagsToAdd(current, prev) \cap prev.tags = {} /\ prev = txn[contact].snap
  BY RowTypes, DeltaFacts DEF IInv, prev
<1>3. ASSUME NEW d \in Contact, NEW r, LinkOK(r, d), d = contact => r.snap = prev
      PROVE  LinkOK(r, d)'
  <2>1. CASE r.id = i
    <3>1. i # NoId /\ d = contact
      BY <1>1, <1>3, <2>1 DEF LinkOK, IInv, TypeOK, Id, NoId
    <3>2. QED
      BY <1>1, <1>2, <1>3, <2>1, <3>1 DEF LinkOK, Touches
  <2>2. CASE r.id # i
    BY <1>3, <2>2 DEF LinkOK, Touches
  <2>3. QED
    BY <2>1, <2>2
<1>4. \A d \in Contact : LinkOK(row[d], d)' /\ LinkOK(txn[d], d)'
  BY <1>1, <1>2, <1>3 DEF IInv, Safe, Links
<1>5. QED
  BY <1>4 DEF Links

LEMMA UpdateIInv ==
    ASSUME IInv, UpdateContact
    PROVE  IInv'
<1>1. push \in Push /\ push.pc = "updating" /\ UNCHANGED <<row, txn, known, unsure>>
  BY DEF UpdateContact, IInv, TypeOK
<1>2. /\ push' \in Push /\ push'.pc = "adding" /\ push'.remove = push.remove
      /\ push'.todo = push.todo /\ push'.touched = push.touched /\ push'.ended = push.ended
      /\ push'.at = push.at /\ push'.seen = push.seen
  BY <1>1 DEF UpdateContact, Push, Pc
<1>3. txn[contact].id \in DOMAIN ghl
  BY <1>1, AtHand DEF Mid
<1>4. prev.fields \in Values
  BY RowTypes DEF IInv, Snapshot
<1>5. Touches(txn[contact].id) /\ ghl'[txn[contact].id].fresh = ghl[txn[contact].id].fresh
  BY <1>3, <1>4, FieldsEffect DEF UpdateContact, UpdateFields
<1>6. Links'
  BY <1>1, <1>5, CallKeepsLinks DEF Mid
<1>7. TypeOK' /\ Numbered' /\ OnePerEmail'
  BY <1>1, <1>2, <1>3, <1>5, TouchKeeps DEF IInv, TypeOK
<1>8. Books' /\ Guarded'
  BY <1>1, <1>2 DEF IInv, Safe, Books, Guarded, Mid, contact
<1>9. QED
  BY <1>6, <1>7, <1>8 DEF IInv, Safe

LEMMA AddIInv ==
    ASSUME IInv, AddTags
    PROVE  IInv'
<1>1. push \in Push /\ push.pc = "adding" /\ UNCHANGED <<row, txn, known, unsure>>
  BY DEF AddTags, IInv, TypeOK
<1>2. /\ SafeToRemove \subseteq TagName /\ SafeToRemove \subseteq prev.tags
      /\ SafeToRemove \cap NeverRemoved = {}
      /\ SafeToRemove \cap txn[contact].fresh = {}
  BY RowTypes, DeltaFacts DEF IInv, SafeToRemove
<1>3. /\ push' \in Push /\ push'.pc = "removing" /\ push'.remove = SafeToRemove
      /\ push'.todo = push.todo /\ push'.touched = push.touched /\ push'.ended = push.ended
      /\ push'.at = push.at /\ push'.seen = push.seen
  BY <1>1, <1>2 DEF AddTags, Push, Pc
<1>4. contact' = contact /\ prev' = prev
  BY <1>1, <1>3 DEF contact, prev
<1>5. txn[contact].id \in DOMAIN ghl
  BY <1>1, AtHand DEF Mid
<1>6. /\ Touches(txn[contact].id)
      /\ ghl'[txn[contact].id].fresh
            = ghl[txn[contact].id].fresh \cup TagsToAdd(current, prev)
  BY <1>5, AddEffect DEF AddTags
<1>7. Links'
  BY <1>1, <1>6, CallKeepsLinks DEF Mid
<1>8. TypeOK' /\ Numbered' /\ OnePerEmail'
  BY <1>1, <1>3, <1>5, <1>6, TouchKeeps DEF IInv, TypeOK
<1>9. Books'
  BY <1>1, <1>3, <1>4 DEF IInv, Safe, Books, Mid
<1>10. Guarded'
  BY <1>1, <1>2, <1>3, <1>4 DEF Guarded
<1>11. QED
  BY <1>7, <1>8, <1>9, <1>10 DEF IInv, Safe

\* The row at hand changes in the transaction; id and snapshot stay.
LEMMA RowChanges ==
    ASSUME IInv, NEW r \in Row, txn' = [txn EXCEPT ![contact] = r]
    PROVE  /\ txn' \in [Contact -> Row] /\ txn'[contact] = r
           /\ \A d \in Contact : d # contact => txn'[d] = txn[d]
<1>1. txn \in [Contact -> Row] /\ contact \in Contact
  BY RowTypes DEF IInv, TypeOK
<1>2. QED
  BY <1>1

LEMMA RemoveIInv ==
    ASSUME IInv, RemoveTags
    PROVE  IInv'
<1> DEFINE i == txn[contact].id
           add == TagsToAdd(current, prev)
           fr == (txn[contact].fresh \cup JustAdded) \ push.remove
           r == [txn[contact] EXCEPT !.fresh = fr]
           to == IF push.moves = {} THEN "recording" ELSE "moving"
<1>1. push \in Push /\ push.pc = "removing" /\ UNCHANGED <<row, known, unsure>>
  BY DEF RemoveTags, IInv, TypeOK
<1>2. /\ push' \in Push /\ push'.pc \in {"recording", "moving"}
      /\ push'.remove = push.remove
      /\ push'.todo = push.todo /\ push'.touched = push.touched /\ push'.ended = push.ended
      /\ push'.at = push.at /\ push'.seen = push.seen
  <2>1. push' = [push EXCEPT !.pc = to] /\ to \in {"recording", "moving"}
    BY DEF RemoveTags
  <2> HIDE DEF to
  <2>2. QED
    BY <1>1, <2>1 DEF Push, Pc
<1>3. /\ i \in DOMAIN ghl /\ contact \in Contact /\ ghl[i].owner = contact
      /\ txn[contact].snap = row[contact].snap
  BY <1>1, AtHand DEF Mid
<1>4. /\ Touches(i)
      /\ ghl'[i].fresh = ghl[i].fresh \ push.remove
  BY <1>3, RemoveEffect DEF RemoveTags
<1>5. /\ txn[contact] \in Row /\ prev = txn[contact].snap
      /\ add \subseteq TagName /\ add \cap prev.tags = {}
      /\ JustAdded = add \cap ghl[i].fresh
  BY RowTypes, DeltaFacts DEF IInv, JustAdded, prev
<1>6. txn' = [txn EXCEPT ![contact] = r] /\ fr = (txn[contact].fresh \cup JustAdded) \ push.remove
  BY DEF RemoveTags
<1>7. i = txn[contact].id /\ add = TagsToAdd(current, prev)
  OBVIOUS
<1> HIDE DEF fr, i, add
<1>8. r \in Row /\ r.id = i /\ r.snap = prev /\ r.fresh = fr
  BY <1>5, <1>6, <1>7 DEF Row
<1> HIDE DEF r
<1>9. /\ txn' \in [Contact -> Row] /\ txn'[contact] = r
      /\ \A d \in Contact : d # contact => txn'[d] = txn[d]
  BY <1>6, <1>8, RowChanges
<1>10. contact' = contact /\ current' = current /\ prev' = prev
  BY <1>2, <1>8, <1>9 DEF contact, current, prev
<1>11. \A d \in Contact : LinkOK(row[d], d)' /\ (d # contact => LinkOK(txn[d], d)')
  <2>1. ASSUME NEW d \in Contact, NEW q, LinkOK(q, d)
        PROVE  LinkOK(q, d)'
    <3>1. CASE q.id = i
      BY <1>3, <1>4, <2>1, <3>1 DEF LinkOK, Touches
    <3>2. CASE q.id # i
      BY <1>4, <2>1, <3>2 DEF LinkOK, Touches
    <3>3. QED
      BY <3>1, <3>2
  <2>2. \A d \in Contact : LinkOK(row[d], d) /\ LinkOK(txn[d], d)
    BY DEF IInv, Safe, Links
  <2>3. \A d \in Contact : LinkOK(row[d], d)'
    BY <1>1, <2>1, <2>2
  <2>4. ASSUME NEW d \in Contact, d # contact
        PROVE  LinkOK(txn[d], d)'
    <3>1. LinkOK(txn[d], d) /\ txn'[d] = txn[d]
      BY <1>9, <2>2, <2>4
    <3>2. QED
      BY <2>1, <3>1
  <2>5. QED
    BY <2>3, <2>4
<1>12. LinkOK(txn[contact], contact)
  BY <1>3 DEF IInv, Safe, Links
<1>13. i # NoId
  BY <1>1, <1>7 DEF IInv, Safe, Books, Mid
<1>14. (ghl[i].fresh \cap prev.tags) \subseteq txn[contact].fresh
  BY <1>5, <1>7, <1>12, <1>13 DEF LinkOK
<1>15. LinkOK(txn[contact], contact)'
  BY <1>3, <1>4, <1>6, <1>8, <1>9, <1>10, <1>13, <1>14 DEF LinkOK, Touches
<1>16. Links'
  BY <1>10, <1>11, <1>15 DEF Links
<1>17. Guarded'
  <2>1. add \cap ghl'[i].fresh \subseteq fr
    BY <1>4, <1>5, <1>6
  <2>2. push.remove \cap NeverRemoved = {}
    BY DEF IInv, Safe, Guarded
  <2>3. QED
    BY <1>2, <1>7, <1>8, <1>9, <1>10, <2>1, <2>2 DEF Guarded
<1>18. TypeOK' /\ Numbered' /\ OnePerEmail'
  BY <1>1, <1>2, <1>3, <1>4, <1>9, TouchKeeps DEF IInv, TypeOK
<1>19. Books'
  <2>1. txn'[contact].id # NoId
    BY <1>8, <1>9, <1>13
  <2>2. \A d \in Contact : txn'[d].snap = txn[d].snap
    BY <1>5, <1>8, <1>9
  <2>3. QED
    BY <1>1, <1>2, <1>10, <2>1, <2>2 DEF IInv, Safe, Books, Mid
<1>20. QED
  BY <1>16, <1>17, <1>18, <1>19 DEF IInv, Safe

LEMMA MoveIInv ==
    ASSUME IInv, NEW p \in Pipeline, MovePipeline(p)
    PROVE  IInv'
<1> DEFINE i == txn[contact].id
           sk == Skipped(p)
           r == [txn[contact] EXCEPT !.skipped = sk]
           to == IF push.moves = {p} THEN "recording" ELSE "moving"
<1>1. push \in Push /\ push.pc = "moving" /\ UNCHANGED <<row, known, unsure>>
  BY DEF MovePipeline, IInv, TypeOK
<1>2. /\ push' \in Push /\ push'.pc \in {"recording", "moving"}
      /\ push'.remove = push.remove
      /\ push'.todo = push.todo /\ push'.touched = push.touched /\ push'.ended = push.ended
      /\ push'.at = push.at /\ push'.seen = push.seen
  <2>1. push' = [push EXCEPT !.moves = @ \ {p}, !.pc = to] /\ to \in {"recording", "moving"}
    BY DEF MovePipeline
  <2> HIDE DEF to
  <2>2. QED
    BY <1>1, <2>1 DEF Push, Pc
<1>3. /\ i \in DOMAIN ghl /\ contact \in Contact /\ ghl[i].owner = contact
      /\ txn[contact].snap = row[contact].snap /\ i # NoId
  BY <1>1, AtHand DEF Mid, IInv, Safe, Books
<1>4. Touches(i) /\ ghl'[i].fresh = ghl[i].fresh
  BY <1>3, StageEffect DEF MovePipeline
<1>5. txn[contact] \in Row /\ sk \subseteq Pipeline \cup Field /\ prev = txn[contact].snap
  BY RowTypes DEF IInv, Skipped, Row, prev
<1>6. txn' = [txn EXCEPT ![contact] = r]
  BY DEF MovePipeline
<1>7. i = txn[contact].id
  OBVIOUS
<1> HIDE DEF sk, i
<1>8. r \in Row /\ r.id = i /\ r.snap = prev /\ r.fresh = txn[contact].fresh
  BY <1>5, <1>7 DEF Row
<1> HIDE DEF r
<1>9. /\ txn' \in [Contact -> Row] /\ txn'[contact] = r
      /\ \A d \in Contact : d # contact => txn'[d] = txn[d]
  BY <1>6, <1>8, RowChanges
<1>10. contact' = contact /\ current' = current /\ prev' = prev
  BY <1>2, <1>8, <1>9 DEF contact, current, prev
<1>11. \A d \in Contact : /\ txn'[d].id = txn[d].id /\ txn'[d].snap = txn[d].snap
                          /\ txn'[d].fresh = txn[d].fresh
  BY <1>5, <1>7, <1>8, <1>9
<1>12. \A j \in DOMAIN ghl : ghl'[j].owner = ghl[j].owner /\ ghl'[j].fresh = ghl[j].fresh
  BY <1>4 DEF Touches
<1>13. Links'
  BY <1>1, <1>4, <1>11, <1>12 DEF IInv, Safe, Links, LinkOK, Touches
<1>14. Guarded'
  BY <1>1, <1>2, <1>3, <1>4, <1>7, <1>10, <1>11 DEF IInv, Safe, Guarded
<1>15. Books'
  BY <1>1, <1>2, <1>3, <1>7, <1>10, <1>11 DEF IInv, Safe, Books, Mid
<1>16. TypeOK' /\ Numbered' /\ OnePerEmail'
  BY <1>1, <1>2, <1>3, <1>4, <1>9, TouchKeeps DEF IInv, TypeOK
<1>17. QED
  BY <1>13, <1>14, <1>15, <1>16 DEF IInv, Safe

LEMMA RecordIInv ==
    ASSUME IInv, Record
    PROVE  IInv'
<1> DEFINE i == txn[contact].id
           st == [p \in Pipeline |-> LET to == StagesDesired(current, prev.tags)[p]
                                     IN  IF to = "none" THEN prev.stage[p] ELSE to]
           s == [fields |-> FieldsOf(current), tags |-> NewTags, stage |-> st]
           sk == NewSkipped
           r == [txn[contact] EXCEPT !.snap = s, !.skipped = sk]
<1>1. push \in Push /\ push.pc = "recording" /\ UNCHANGED <<row, ghl, known, unsure>>
  BY DEF Record, IInv, TypeOK
<1>2. /\ i \in DOMAIN ghl /\ contact \in Contact /\ ghl[i].owner = contact
      /\ i = txn[contact].id /\ i # NoId
  BY <1>1, AtHand DEF Mid, IInv, Safe, Books
<1>3. /\ push' \in Push /\ push'.pc = "visiting" /\ push'.remove = {}
      /\ push'.todo = push.todo /\ push'.touched = push.touched
      /\ push'.ended = push.ended \cup {contact}
  BY <1>1, <1>2 DEF Record, Push, Pc
<1>4. s \in Snapshot /\ s.tags = NewTags
  <2>1. NewTags \subseteq TagName /\ FieldsOf(current) \in Values
    BY RowTypes, DeltaFacts, FieldsTyped DEF IInv, NewTags
  <2>2. st \in Stages
    <3>1. StagesDesired(current, prev.tags) \in Stages /\ prev.stage \in Stages
      BY RowTypes, StagesTyped DEF IInv, Snapshot
    <3>2. QED
      BY <3>1 DEF Stages
  <2> HIDE DEF st
  <2>3. QED
    BY <2>1, <2>2 DEF Snapshot
<1>5. txn' = [txn EXCEPT ![contact] = r] /\ txn[contact] \in Row
  BY RowTypes DEF Record, IInv
<1>0. sk \subseteq Pipeline \cup Field
  BY <1>5 DEF NewSkipped, Row
<1> HIDE DEF s, i, sk
<1>6. r \in Row /\ r.id = i /\ r.snap = s /\ r.fresh = txn[contact].fresh
  BY <1>0, <1>2, <1>4, <1>5 DEF Row
<1> HIDE DEF r
<1>7. /\ txn' \in [Contact -> Row] /\ txn'[contact] = r
      /\ \A d \in Contact : d # contact => txn'[d] = txn[d]
  BY <1>5, <1>6, RowChanges
<1>8. LinkOK(txn[contact], contact) /\ prev = txn[contact].snap
  BY <1>2 DEF IInv, Safe, Links, prev
<1>9. ghl[i].fresh \cap NewTags \subseteq txn[contact].fresh
  <2>1. TagsToAdd(current, prev) \cap ghl[i].fresh \subseteq txn[contact].fresh
    BY <1>1, <1>2 DEF IInv, Safe, Guarded
  <2>2. ghl[i].fresh \cap prev.tags \subseteq txn[contact].fresh
    BY <1>2, <1>8 DEF LinkOK
  <2>3. QED
    BY <2>1, <2>2 DEF NewTags
<1>10. Links'
  <2>1. ASSUME NEW d \in Contact
        PROVE  LinkOK(row[d], d)' /\ LinkOK(txn[d], d)'
    <3>1. LinkOK(row[d], d) /\ LinkOK(txn[d], d)
      BY DEF IInv, Safe, Links
    <3>2. LinkOK(row[d], d)'
      BY <1>1, <3>1 DEF LinkOK
    <3>3. CASE d = contact
      <4>1. txn'[d].id = i /\ txn'[d].snap.tags = NewTags /\ txn'[d].fresh = txn[d].fresh
        BY <1>4, <1>6, <1>7, <3>3
      <4>2. QED
        BY <1>1, <1>2, <1>9, <3>2, <3>3, <4>1 DEF LinkOK
    <3>4. CASE d # contact
      BY <1>1, <1>7, <3>1, <3>2, <3>4 DEF LinkOK
    <3>5. QED
      BY <3>3, <3>4
  <2>2. QED
    BY <2>1 DEF Links
<1>11. Books'
  <2>1. push.ended \subseteq push.touched /\ push.todo \cap push.touched = {}
        /\ contact \in push.touched
    BY <1>1 DEF IInv, Safe, Books, Mid
  <2>2. \A d \in Contact \ push'.ended : txn'[d].snap = row'[d].snap
    BY <1>1, <1>3, <1>7 DEF IInv, Safe, Books
  <2>3. QED
    BY <1>3, <2>1, <2>2 DEF Books, Mid
<1>12. Guarded'
  BY <1>3 DEF Guarded
<1>13. TypeOK' /\ Numbered' /\ OnePerEmail'
  BY <1>1, <1>3, <1>7 DEF IInv, TypeOK, Safe, Numbered, OnePerEmail
<1>14. QED
  BY <1>10, <1>11, <1>12, <1>13 DEF IInv, Safe

\* New contacts, and fields, take nothing from the rows.
LEMMA UpsertKeepsLinks ==
    ASSUME IInv, NEW i \in Id, Upsert(i),
           NEW r, NEW d \in Contact, LinkOK(r, d)
    PROVE  LinkOK(r, d)'
BY UpsertEffect DEF LinkOK

LEMMA UpsertIInv ==
    ASSUME IInv, UpsertContact
    PROVE  IInv'
<1>1. push \in Push /\ push.pc = "upserting" /\ UNCHANGED <<row, known, unsure>>
  BY DEF UpsertContact, IInv, TypeOK
<1>2. PICK i \in Id : Upsert(i) /\ txn' = [txn EXCEPT ![contact].id = i]
  BY DEF UpsertContact
<1> DEFINE r == [txn[contact] EXCEPT !.id = i]
<1>3. /\ push' \in Push /\ push'.pc = "adding" /\ push'.remove = push.remove
      /\ push'.todo = push.todo /\ push'.touched = push.touched /\ push'.ended = push.ended
      /\ push'.at = push.at
  BY <1>1 DEF UpsertContact, Push, Pc
<1>4. /\ txn[contact] \in Row /\ contact \in Contact
      /\ txn[contact].id = NoId
  BY <1>1, RowTypes DEF IInv, Safe, Books
<1>5. txn[contact].snap.tags = {}
  BY <1>4 DEF IInv, Safe, Links, LinkOK
<1>6. /\ r \in Row /\ r.id = i /\ r.snap = txn[contact].snap
      /\ txn' = [txn EXCEPT ![contact] = r]
  BY <1>2, <1>4 DEF Row
<1> HIDE DEF r
<1>7. /\ txn' \in [Contact -> Row] /\ txn'[contact] = r
      /\ \A d \in Contact : d # contact => txn'[d] = txn[d]
  BY <1>6, RowChanges
<1>8. i \in DOMAIN ghl' /\ ghl'[i].owner = contact /\ i # NoId
  BY <1>2, UpsertEffect, ContactSyncAssumption DEF Id, NoId
<1>9. \A d \in Contact : d = contact => LinkOK(txn[d], d)'
  BY <1>5, <1>6, <1>7, <1>8 DEF LinkOK
<1>10. \A d \in Contact : LinkOK(row[d], d)'
  <2>1. TAKE d \in Contact
  <2>2. LinkOK(row[d], d) /\ row'[d] = row[d]
    BY <1>1 DEF IInv, Safe, Links
  <2>3. QED
    BY <1>2, <2>2, UpsertKeepsLinks
<1>11. \A d \in Contact : d # contact => LinkOK(txn[d], d)'
  <2>1. TAKE d \in Contact
  <2>2. HAVE d # contact
  <2>3. LinkOK(txn[d], d) /\ txn'[d] = txn[d]
    BY <1>7, <2>2 DEF IInv, Safe, Links
  <2>4. QED
    BY <1>2, <2>3, UpsertKeepsLinks
<1>12. contact' = contact
  BY <1>3 DEF contact
<1>13. Links'
  BY <1>9, <1>10, <1>11, <1>12 DEF Links
<1>14. Books'
  <2>1. \A d \in Contact : txn'[d].snap = txn[d].snap
    BY <1>6, <1>7
  <2>2. txn'[contact].id # NoId
    BY <1>6, <1>7, <1>8
  <2>3. QED
    BY <1>1, <1>3, <1>12, <2>1, <2>2 DEF IInv, Safe, Books, Mid
<1>15. Guarded'
  BY <1>3 DEF IInv, Safe, Guarded
<1>16. Numbered' /\ OnePerEmail' /\ DOMAIN ghl' \subseteq Id
       /\ \A j \in DOMAIN ghl' : ghl'[j] \in GhlContact
  BY <1>2, UpsertEffect
<1>17. TypeOK'
  BY <1>1, <1>3, <1>7, <1>16 DEF IInv, TypeOK
<1>18. QED
  BY <1>13, <1>14, <1>15, <1>16, <1>17 DEF IInv, Safe

LEMMA LostIInv ==
    ASSUME IInv, AnswerLost
    PROVE  IInv'
<1> DEFINE k == txn[contact].id
<1>1. GiveUp("visiting") /\ UNCHANGED <<row, txn, known, unsure>> /\ InCall
  BY DEF AnswerLost
<1>2. Books' /\ Guarded' /\ push' \in Push
  BY <1>1, GaveUp, TurnsTo DEF InCall
<1>3. CASE push.pc = "upserting"
  <2>1. PICK i \in Id : Upsert(i)
    BY <1>3 DEF AnswerLost
  <2>2. Numbered' /\ OnePerEmail' /\ DOMAIN ghl' \subseteq Id
        /\ \A j \in DOMAIN ghl' : ghl'[j] \in GhlContact
    BY <2>1, UpsertEffect
  <2>3. \A d \in Contact : LinkOK(row[d], d)' /\ LinkOK(txn[d], d)'
    <3>1. TAKE d \in Contact
    <3>2. /\ LinkOK(row[d], d) /\ LinkOK(txn[d], d)
          /\ row'[d] = row[d] /\ txn'[d] = txn[d]
      BY <1>1 DEF IInv, Safe, Links
    <3>3. QED
      BY <2>1, <3>2, UpsertKeepsLinks
  <2>4. TypeOK'
    BY <1>1, <1>2, <2>2 DEF IInv, TypeOK
  <2>5. QED
    BY <1>2, <2>2, <2>3, <2>4 DEF IInv, Safe, Links
<1>4. CASE push.pc # "upserting"
  <2>1. push.pc \in Mid \ {"upserting"}
    BY <1>1, <1>4 DEF InCall, Mid
  <2>2. k \in DOMAIN ghl
    BY <2>1, AtHand
  <2>3. /\ Touches(k)
        /\ ghl'[k].fresh \subseteq ghl[k].fresh \cup TagsToAdd(current, prev)
    <3>1. CASE push.pc = "updating"
      <4>1. UpdateFields(k) /\ prev.fields \in Values
        BY <3>1, RowTypes DEF AnswerLost, IInv, Snapshot
      <4>2. QED
        BY <2>2, <4>1, FieldsEffect DEF UpdateFields
    <3>2. CASE push.pc = "adding"
      BY <2>2, <3>2, AddEffect DEF AnswerLost
    <3>3. CASE push.pc = "removing"
      BY <2>2, <3>3, RemoveEffect DEF AnswerLost
    <3>4. CASE push.pc = "moving"
      <4>1. PICK p \in push.moves : SetStage(k, p)
        BY <3>4 DEF AnswerLost
      <4>2. p \in Pipeline
        BY RowTypes DEF IInv, Push
      <4>3. QED
        BY <2>2, <4>1, <4>2, StageEffect
    <3>5. QED
      BY <1>1, <1>4, <3>1, <3>2, <3>3, <3>4 DEF InCall
  <2>4. Links'
    BY <1>1, <2>1, <2>3, CallKeepsLinks
  <2>5. TypeOK' /\ Numbered' /\ OnePerEmail'
    BY <1>1, <1>2, <2>2, <2>3, TouchKeeps DEF IInv, TypeOK
  <2>6. QED
    BY <1>2, <2>4, <2>5 DEF IInv, Safe
<1>5. QED
  BY <1>3, <1>4

-----------------------------------------------------------------------------
(* The others.                                                             *)

LEMMA ExpireIInv ==
    ASSUME IInv, NEW e \in Contact, GuardExpires(e)
    PROVE  IInv'
<1>1. /\ row \in [Contact -> Row] /\ txn \in [Contact -> Row]
      /\ UNCHANGED <<push, known, unsure>>
  BY DEF GuardExpires, IInv, TypeOK
<1>2. \A q \in Row : /\ [q EXCEPT !.fresh = {}] \in Row
                     /\ [q EXCEPT !.fresh = {}].id = q.id
                     /\ [q EXCEPT !.fresh = {}].snap = q.snap
                     /\ [q EXCEPT !.fresh = {}].fresh = {}
  BY DEF Row
<1>3. /\ row' = [row EXCEPT ![e] = [row[e] EXCEPT !.fresh = {}]]
      /\ txn' = [txn EXCEPT ![e] = [txn[e] EXCEPT !.fresh = {}]]
  BY DEF GuardExpires
<1>4. /\ row' \in [Contact -> Row] /\ txn' \in [Contact -> Row]
      /\ \A d \in Contact : /\ row'[d].id = row[d].id /\ row'[d].snap = row[d].snap
                            /\ txn'[d].id = txn[d].id /\ txn'[d].snap = txn[d].snap
                            /\ d # e => row'[d] = row[d] /\ txn'[d] = txn[d]
                            /\ d = e => row'[d].fresh = {} /\ txn'[d].fresh = {}
  BY <1>1, <1>2, <1>3
<1>5. \A g \in GhlContact : /\ [g EXCEPT !.fresh = {}] \in GhlContact
                            /\ [g EXCEPT !.fresh = {}].owner = g.owner
                            /\ [g EXCEPT !.fresh = {}].fresh = {}
  BY DEF GhlContact
<1>6. /\ DOMAIN ghl' = DOMAIN ghl
      /\ \A j \in DOMAIN ghl :
            /\ ghl'[j] \in GhlContact /\ ghl'[j].owner = ghl[j].owner
            /\ ghl'[j].fresh = IF ghl[j].owner = e THEN {} ELSE ghl[j].fresh
  BY <1>5, GhlTypes DEF GuardExpires
<1>7. TypeOK'
  BY <1>1, <1>4, <1>6 DEF IInv, TypeOK
<1>8. Numbered' /\ OnePerEmail'
  BY <1>6 DEF IInv, Safe, Numbered, OnePerEmail
<1>9. Links'
  BY <1>4, <1>6 DEF IInv, Safe, Links, LinkOK
<1>10. contact' = contact /\ current' = current /\ prev' = prev /\ contact \in Contact
  BY <1>1, <1>4, RowTypes DEF IInv, contact, current, prev
<1>11. Books'
  <2>1. row = txn => row' = txn'
    BY <1>3
  <2>2. QED
    BY <1>1, <1>4, <1>10, <2>1 DEF IInv, Safe, Books
<1>12. Guarded'
  <2>1. push.pc = "removing" => push.remove \cap txn'[contact].fresh = {}
    BY <1>4, <1>10 DEF IInv, Safe, Guarded
  <2>2. ASSUME push.pc \in {"moving", "recording"}
        PROVE  TagsToAdd(current, prev) \cap ghl'[txn'[contact].id].fresh
                  \subseteq txn'[contact].fresh
    <3>1. /\ txn[contact].id \in DOMAIN ghl /\ ghl[txn[contact].id].owner = contact
      BY <2>2, AtHand DEF Mid
    <3>2. CASE contact = e
      BY <1>4, <1>6, <3>1, <3>2
    <3>3. CASE contact # e
      BY <1>4, <1>6, <1>10, <2>2, <3>1, <3>3 DEF IInv, Safe, Guarded
    <3>4. QED
      BY <3>2, <3>3
  <2>3. QED
    BY <1>1, <1>10, <2>1, <2>2 DEF IInv, Safe, Guarded
<1>13. QED
  BY <1>7, <1>8, <1>9, <1>11, <1>12 DEF IInv, Safe

LEMMA WorkflowEffect ==
    ASSUME IInv, NEW i \in DOMAIN ghl, NEW t \in WorkflowOnly, WorkflowTags(i, t)
    PROVE  /\ Touches(i) /\ ghl'[i].tags = ghl[i].tags \cup {t} /\ ghl'[i].fresh = ghl[i].fresh
           /\ ghl'[i].fields = ghl[i].fields /\ ghl'[i].stage = ghl[i].stage
<1> DEFINE g == [ghl[i] EXCEPT !.tags = @ \cup {t}]
<1>1. ghl[i] \in GhlContact /\ t \in TagName
  <2>1. t \in TagName
    BY DEF WorkflowOnly, TagName
  <2>2. QED
    BY <2>1, GhlTypes
<1>2. ghl' = [ghl EXCEPT ![i] = g]
  BY DEF WorkflowTags
<1>3. /\ g \in GhlContact /\ g.owner = ghl[i].owner
      /\ g.tags = ghl[i].tags \cup {t} /\ g.fresh = ghl[i].fresh
      /\ g.fields = ghl[i].fields /\ g.stage = ghl[i].stage
  BY <1>1 DEF GhlContact
<1> HIDE DEF g
<1>4. QED
  BY <1>2, <1>3, OneChanges

LEMMA WorkflowIInv ==
    ASSUME IInv, NEW i \in DOMAIN ghl, NEW t \in WorkflowOnly, WorkflowTags(i, t)
    PROVE  IInv'
<1>1. UNCHANGED <<row, txn, push, known, unsure>>
  BY DEF WorkflowTags
<1>2. Touches(i) /\ ghl'[i].fresh = ghl[i].fresh
  BY WorkflowEffect
<1>3. DOMAIN ghl' = DOMAIN ghl /\ \A j \in DOMAIN ghl : /\ ghl'[j].owner = ghl[j].owner
                                                       /\ ghl'[j].fresh = ghl[j].fresh
  BY <1>2 DEF Touches
<1>4. TypeOK' /\ Numbered' /\ OnePerEmail'
  BY <1>1, <1>2, TouchKeeps DEF IInv, TypeOK
<1>5. Links'
  BY <1>1, <1>3 DEF IInv, Safe, Links, LinkOK
<1>6. contact' = contact /\ current' = current /\ prev' = prev
  BY <1>1 DEF contact, current, prev
<1>7. Books'
  BY <1>1, <1>6 DEF IInv, Safe, Books
<1>8. Guarded'
  <2>1. push.pc \in {"moving", "recording"} => txn[contact].id \in DOMAIN ghl
    BY AtHand DEF Mid
  <2>2. QED
    BY <1>1, <1>3, <1>6, <2>1 DEF IInv, Safe, Guarded
<1>9. QED
  BY <1>4, <1>5, <1>7, <1>8 DEF IInv, Safe

LEMMA QuietIInv ==
    ASSUME IInv, UNCHANGED <<row, txn, push, ghl, unsure>>, known' \subseteq Pipeline \cup Field
    PROVE  IInv'
<1>1. TypeOK'
  BY DEF IInv, TypeOK
<1>2. Books' /\ Links' /\ Guarded' /\ Numbered' /\ OnePerEmail'
  BY DEF IInv, Safe, Books, Links, LinkOK, Guarded, Numbered, OnePerEmail,
         contact, current, prev
<1>3. QED
  BY <1>1, <1>2 DEF IInv, Safe

-----------------------------------------------------------------------------
(* The invariant and what follows from it.                                 *)

LEMMA NextIInv ==
    ASSUME IInv, [Next]_vars
    PROVE  IInv'
<1>1. CASE Start \/ BatchEnds \/ UpsertContact \/ UpdateContact \/ AddTags \/ RemoveTags
  BY <1>1, StartIInv, BatchEndsIInv, UpsertIInv, UpdateIInv, AddIInv, RemoveIInv
<1>2. CASE Record \/ CallRefused \/ AnswerLost \/ Commit \/ Abort
  BY <1>2, RecordIInv, RefusedIInv, LostIInv, TransactionEnds
<1>3. ASSUME NEW d \in Contact, GuardExpires(d) PROVE IInv'
  BY <1>3, ExpireIInv
<1>4. ASSUME NEW d \in push.todo, Visit(d) PROVE IInv'
  BY <1>4, VisitIInv
<1>5. ASSUME NEW p \in Pipeline, MovePipeline(p) PROVE IInv'
  BY <1>5, MoveIInv
<1>6. ASSUME NEW x \in Pipeline \cup Field, Appears(x) PROVE IInv'
  BY <1>6, QuietIInv DEF Appears, IInv, TypeOK
<1>7. ASSUME NEW i \in DOMAIN ghl, NEW t \in WorkflowOnly, WorkflowTags(i, t) PROVE IInv'
  BY <1>7, WorkflowIInv
<1>8. CASE UNCHANGED vars
  BY <1>8, QuietIInv DEF vars, IInv, TypeOK
<1>9. QED
  BY <1>1, <1>2, <1>3, <1>4, <1>5, <1>6, <1>7, <1>8 DEF Next

\* The inductive invariant holds in every reachable state.
THEOREM Invariance == Spec => []IInv
<1>1. IInv /\ [Next]_vars => IInv'
  BY NextIInv
<1>2. QED
  BY <1>1, InitIInv, PTL DEF Spec

\* Every variable keeps its type, for every set of facts compute_flags can be
\* asked about: no snapshot gets a field value, tag or stage of another kind.
THEOREM TypeCorrect == Spec => []TypeOK
<1>1. IInv => TypeOK
  BY DEF IInv
<1>2. QED
  BY <1>1, Invariance, PTL

\* However often a run creates a contact and is rolled back, the next one finds
\* it by its email address (app/ghl/sync.py: upsert_contact).
THEOREM NoTwins == Spec => []OneContactPerEmail
<1>1. IInv => OneContactPerEmail
  <2> SUFFICES ASSUME IInv, NEW d \in Email
               PROVE  Cardinality({i \in DOMAIN ghl : ghl[i].owner = d}) <= 1
    BY DEF OneContactPerEmail
  <2> DEFINE S == {i \in DOMAIN ghl : ghl[i].owner = d}
  <2>1. \A i, j \in S : i = j
    BY DEF IInv, Safe, OnePerEmail
  <2>2. CASE S = {}
    BY <2>2, FS_EmptySet
  <2>3. CASE S # {}
    <3>1. PICK i \in S : TRUE
      BY <2>3
    <3>2. S = {i}
      BY <2>1, <3>1
    <3>3. Cardinality(S) = 1
      BY <3>2, FS_Singleton
    <3>4. QED
      BY <3>3
  <2>4. QED
    BY <2>2, <2>3
<1>2. QED
  BY <1>1, Invariance, PTL

\* Whose tags a step does not touch.
Keeps == \A i \in DOMAIN ghl : ghl[i].tags \subseteq ghl'[i].tags

\* What leaves a contact in GHL was among the removals that the guard let pass.
Spares ==
    \A i \in DOMAIN ghl : \A t \in ghl[i].tags \ ghl'[i].tags :
        t \notin ghl[i].fresh /\ t \notin NeverRemoved

LEMMA TouchSpares ==
    ASSUME NEW i \in DOMAIN ghl, Touches(i), ghl[i].tags \subseteq ghl'[i].tags
    PROVE  Keeps
BY DEF Touches, Keeps

LEMMA RemoveSpares ==
    ASSUME IInv, push.pc = "removing", RemoveFrom(txn[contact].id)
    PROVE  Spares
<1> DEFINE i == txn[contact].id
<1>1. i \in DOMAIN ghl /\ ghl[i].owner = contact /\ contact \in Contact
  BY AtHand DEF Mid
<1>2. Touches(i) /\ ghl'[i].tags = ghl[i].tags \ push.remove
  BY <1>1, RemoveEffect
<1>3. /\ push.remove \cap NeverRemoved = {}
      /\ push.remove \subseteq prev.tags /\ push.remove \cap txn[contact].fresh = {}
  BY DEF IInv, Safe, Guarded
<1>4. LinkOK(txn[contact], contact) /\ i # NoId
  BY <1>1 DEF IInv, Safe, Links, Books, Mid
<1>5. ghl[i].fresh \cap prev.tags \subseteq txn[contact].fresh
  BY <1>4 DEF LinkOK, prev
<1>6. \A t \in push.remove : t \notin ghl[i].fresh /\ t \notin NeverRemoved
  BY <1>3, <1>5
<1>7. QED
  BY <1>2, <1>6 DEF Touches, Spares

LEMMA LostSpares ==
    ASSUME IInv, AnswerLost
    PROVE  Spares
<1> DEFINE k == txn[contact].id
<1>1. CASE push.pc = "upserting"
  <2>1. PICK i \in Id : Upsert(i)
    BY <1>1 DEF AnswerLost
  <2>2. QED
    BY <2>1, UpsertEffect DEF Spares
<1>2. ASSUME push.pc \in {"updating", "adding", "moving"}
      PROVE  Keeps
  <2>1. k \in DOMAIN ghl
    BY <1>2, AtHand DEF Mid
  <2>2. Touches(k) /\ ghl[k].tags \subseteq ghl'[k].tags
    <3>1. CASE push.pc = "updating"
      <4>1. UpdateFields(k) /\ prev.fields \in Values
        BY <3>1, RowTypes DEF AnswerLost, IInv, Snapshot
      <4>2. QED
        BY <2>1, <4>1, FieldsEffect DEF UpdateFields
    <3>2. CASE push.pc = "adding"
      BY <2>1, <3>2, AddEffect DEF AnswerLost
    <3>3. CASE push.pc = "moving"
      <4>1. PICK p \in push.moves : SetStage(k, p)
        BY <3>3 DEF AnswerLost
      <4>2. p \in Pipeline
        BY RowTypes DEF IInv, Push
      <4>3. QED
        BY <2>1, <4>1, <4>2, StageEffect
    <3>4. QED
      BY <1>2, <3>1, <3>2, <3>3
  <2>3. QED
    BY <2>1, <2>2, TouchSpares
<1>3. CASE push.pc = "removing"
  BY <1>3, RemoveSpares DEF AnswerLost
<1>4. QED
  BY <1>1, <1>2, <1>3 DEF AnswerLost, InCall, Keeps, Spares

LEMMA StepSpares ==
    ASSUME IInv, [Next]_vars
    PROVE  Spares
<1> DEFINE k == txn[contact].id
<1>1. CASE UpsertContact
  <2>1. PICK i \in Id : Upsert(i)
    BY <1>1 DEF UpsertContact
  <2>2. QED
    BY <2>1, UpsertEffect DEF Spares
<1>2. CASE UpdateContact
  <2>1. k \in DOMAIN ghl /\ prev.fields \in Values
    BY <1>2, AtHand, RowTypes DEF UpdateContact, Mid, IInv, Snapshot
  <2>2. Touches(k) /\ ghl'[k].tags = ghl[k].tags
    BY <1>2, <2>1, FieldsEffect DEF UpdateContact, UpdateFields
  <2>3. QED
    BY <2>1, <2>2, TouchSpares DEF Keeps, Spares
<1>3. CASE AddTags
  <2>1. k \in DOMAIN ghl
    BY <1>3, AtHand DEF AddTags, Mid
  <2>2. Touches(k) /\ ghl[k].tags \subseteq ghl'[k].tags
    BY <1>3, <2>1, AddEffect DEF AddTags
  <2>3. QED
    BY <2>1, <2>2, TouchSpares DEF Keeps, Spares
<1>4. CASE RemoveTags
  BY <1>4, RemoveSpares DEF RemoveTags
<1>5. CASE AnswerLost
  BY <1>5, LostSpares
<1>6. ASSUME NEW p \in Pipeline, MovePipeline(p)
      PROVE  Spares
  <2>1. k \in DOMAIN ghl
    BY <1>6, AtHand DEF MovePipeline, Mid
  <2>2. Touches(k) /\ ghl'[k].tags = ghl[k].tags
    BY <1>6, <2>1, StageEffect DEF MovePipeline
  <2>3. QED
    BY <2>1, <2>2, TouchSpares DEF Keeps, Spares
<1>7. ASSUME NEW i \in DOMAIN ghl, NEW t \in WorkflowOnly, WorkflowTags(i, t)
      PROVE  Spares
  <2>1. Touches(i) /\ ghl[i].tags \subseteq ghl'[i].tags
    BY <1>7, WorkflowEffect
  <2>2. QED
    BY <2>1, TouchSpares DEF Keeps, Spares
<1>8. ASSUME NEW e \in Contact, GuardExpires(e)
      PROVE  Spares
  <2>1. \A g \in GhlContact : [g EXCEPT !.fresh = {}].tags = g.tags
    BY DEF GhlContact
  <2>2. \A j \in DOMAIN ghl : ghl'[j].tags = ghl[j].tags
    BY <1>8, <2>1, GhlTypes DEF GuardExpires
  <2>3. QED
    BY <2>2 DEF Spares
<1>9. ASSUME UNCHANGED ghl
      PROVE  Spares
  BY <1>9 DEF Spares
<1>10. CASE Start \/ BatchEnds \/ Record \/ CallRefused \/ Commit \/ Abort \/ UNCHANGED vars
  BY <1>9, <1>10 DEF Start, BatchEnds, Record, CallRefused, Commit, Abort, vars
<1>11. ASSUME \/ \E d \in push.todo : Visit(d)
              \/ \E x \in Pipeline \cup Field : Appears(x)
       PROVE  Spares
  BY <1>9, <1>11 DEF Visit, Appears
<1>12. QED
  BY <1>1, <1>2, <1>3, <1>4, <1>5, <1>6, <1>7, <1>8, <1>10, <1>11 DEF Next

\* A tag stays for 60 seconds after a push asked for it, for any contacts and
\* facts, and whichever calls, commits and processes fail
\* (app/ghl/tags.py: apply_tag_changes; app/ghl/sync.py).
THEOREM Guard == Spec => GuardHolds
<1>1. IInv /\ [Next]_vars =>
        [\A i \in DOMAIN ghl : \A t \in ghl[i].tags \ ghl'[i].tags :
            t \notin ghl[i].fresh]_vars
  BY StepSpares DEF Spares
<1>2. QED
  BY <1>1, Invariance, PTL DEF Spec, GuardHolds

\* No push removes a tag that compute_delta must leave alone, whatever the facts
\* (app/delta/engine.py, app/ghl/tags.py).
THEOREM Markers == Spec => MarkersStay
<1>1. IInv /\ [Next]_vars =>
        [\A i \in DOMAIN ghl : ghl[i].tags \cap NeverRemoved \subseteq ghl'[i].tags]_vars
  BY StepSpares DEF Spares
<1>2. QED
  BY <1>1, Invariance, PTL DEF Spec, MarkersStay

-----------------------------------------------------------------------------
(* Agreement.  A second invariant on top of IInv: what GHL shows of a      *)
(* contact differs from the snapshot only by what a push still owes it.    *)

StageTo(f) == StagesDesired(f, {})

\* g shows what s says, but for what pushes of facts in F may have changed; sk
\* are the pipelines and fields nobody vouches for.
TagsDue(g, s, F) ==
    /\ \A t \in (g.tags \ s.tags) \ WorkflowOnly : \E f \in F : t \in TagsDesired(f)
    /\ \A t \in s.tags \ g.tags : t \notin NeverRemoved /\ \E f \in F : t \notin TagsDesired(f)

FieldsDue(g, s, sk, F) ==
    \A k \in Field \ sk :
        g.fields[k] = s.fields[k] \/ \E f \in F : g.fields[k] = FieldsOf(f)[k]

StagesDue(g, s, sk, F) ==
    \A p \in Pipeline \ sk :
        \/ g.stage[p] = s.stage[p]
        \/ \E f \in F : StageTo(f)[p] # "none" /\ g.stage[p] = StageTo(f)[p]

Explained(g, s, sk, F) ==
    TagsDue(g, s, F) /\ FieldsDue(g, s, sk, F) /\ StagesDue(g, s, sk, F)

\* The contact in GHL that a row knows or, not knowing any, is going to find.
Accounted(G, r, d, F) ==
    \A i \in DOMAIN G : G[i].owner = d /\ (d \in Email \/ i = r.id) =>
        Explained(G[i], r.snap, r.skipped, F)

Owed(d, pushed) == unsure[d] \cup {f \in {push.seen[d]} : d \in pushed}

\* The table owes what any push of the batch has begun, the transaction only
\* what has not ended.
Explains ==
    \A d \in Contact : /\ Accounted(ghl, row[d], d, Owed(d, push.touched))
                       /\ Accounted(ghl, txn[d], d, Owed(d, push.touched \ push.ended))

\* A tag with a recent timestamp is in GHL.
RowSound(r, G) ==
    /\ r.snap.tags \cap WorkflowOnly = {}
    /\ IF r.id = NoId THEN r.snap = NoSnapshot /\ r.fresh = {}
       ELSE r.fresh \subseteq G[r.id].tags

Sound ==
    /\ \A d \in Contact : /\ RowSound(row[d], ghl) /\ RowSound(txn[d], ghl)
                          /\ row[d].fresh \subseteq txn[d].fresh
    /\ push.pc = "idle" => push.touched = {} /\ push.ended = {}

\* What the push at hand has done so far.
Done(g) ==
    /\ push.pc \in Mid \ {"upserting", "updating"} =>
          \A k \in Field \cap known : FieldsOf(current)[k] # prev.fields[k] =>
              g.fields[k] = FieldsOf(current)[k]
    /\ push.pc \in {"removing", "moving", "recording"} =>
          /\ TagsToAdd(current, prev) \subseteq g.tags
          /\ push.remove \subseteq TagsToRemove(current, prev)
          /\ TagsToRemove(current, prev) \ push.remove \subseteq g.tags
    /\ push.pc \in {"moving", "recording"} =>
          /\ push.remove \cap g.tags = {}
          /\ \A p \in Moves(current, prev) \ push.moves :
                p \in txn[contact].skipped \/ g.stage[p] = StageTo(current)[p]

Phases ==
    /\ push.pc \in Mid =>
          /\ push.moves \subseteq Moves(current, prev)
          /\ push.pc \notin {"moving", "recording"} => push.moves = Moves(current, prev)
          /\ push.pc = "recording" => push.moves = {}
    /\ push.pc \in Mid \ {"upserting"} => Done(ghl[txn[contact].id])

\* A push that ended has recorded its facts; what GHL lacks of the snapshot, it
\* lacks of them.
Recorded(r, f, G) ==
    /\ r.id # NoId /\ r.snap.fields = FieldsOf(f) /\ TagsDesired(f) \subseteq r.snap.tags
    /\ r.snap.tags \ G[r.id].tags \subseteq TagsDesired(f)
    /\ \A p \in Pipeline : StageTo(f)[p] # "none" => r.snap.stage[p] = StageTo(f)[p]

Ended == \A d \in push.ended : Recorded(txn[d], push.seen[d], ghl)

Agree == Sound /\ Explains /\ Phases /\ Ended

-----------------------------------------------------------------------------
(* What explains a difference.                                             *)

LEMMA SameShown ==
    ASSUME NEW g, NEW s, NEW sk, NEW F,
           g.tags = s.tags, g.fields = s.fields, g.stage = s.stage
    PROVE  Explained(g, s, sk, F)
BY DEF Explained, TagsDue, FieldsDue, StagesDue

\* More facts, and fewer pipelines to vouch for, explain no less.
LEMMA MoreExplained ==
    ASSUME NEW g, NEW s, NEW sk, NEW F, NEW tk, NEW E,
           Explained(g, s, sk, F), sk \subseteq tk, F \subseteq E
    PROVE  Explained(g, s, tk, E)
<1>1. TagsDue(g, s, E)
  BY DEF Explained, TagsDue
<1>2. FieldsDue(g, s, tk, E)
  BY DEF Explained, FieldsDue
<1>3. StagesDue(g, s, tk, E)
  BY DEF Explained, StagesDue
<1>4. QED
  BY <1>1, <1>2, <1>3 DEF Explained

\* What explains two steps explains both together.
LEMMA ThenExplained ==
    ASSUME NEW h, NEW g, NEW s, NEW sk, NEW F,
           Explained(g, s, sk, F), Explained(h, g, {}, F)
    PROVE  Explained(h, s, sk, F)
<1>1. TagsDue(g, s, F) /\ TagsDue(h, g, F)
  BY DEF Explained
<1>2. FieldsDue(g, s, sk, F) /\ FieldsDue(h, g, {}, F)
  BY DEF Explained
<1>3. StagesDue(g, s, sk, F) /\ StagesDue(h, g, {}, F)
  BY DEF Explained
<1>4. TagsDue(h, s, F)
  BY <1>1 DEF TagsDue
<1>5. FieldsDue(h, s, sk, F)
  BY <1>2 DEF FieldsDue
<1>6. StagesDue(h, s, sk, F)
  BY <1>3 DEF StagesDue
<1>7. QED
  BY <1>4, <1>5, <1>6 DEF Explained

LEMMA MoreAccounted ==
    ASSUME NEW G, NEW r, NEW q, NEW d, NEW F, NEW E, Accounted(G, r, d, F),
           q.id = r.id \/ d \in Email, q.snap = r.snap, r.skipped \subseteq q.skipped,
           F \subseteq E
    PROVE  Accounted(G, q, d, E)
BY MoreExplained DEF Accounted

\* No facts ask for the tag of a workflow.
LEMMA WorkflowsOwn ==
    ASSUME NEW f
    PROVE  TagsDesired(f) \cap WorkflowOnly = {}
BY DEF TagsDesired, WorkflowOnly

LEMMA WorkflowTagsKept == WorkflowOnly \subseteq NeverRemoved
BY DEF WorkflowOnly, NeverRemoved

\* The stages asked for depend on the tags only through that tag.
LEMMA StagesAsked ==
    ASSUME NEW f, NEW tags, tags \cap WorkflowOnly = {}
    PROVE  StagesDesired(f, tags) = StageTo(f)
<1>1. "trial-not-converted" \notin tags
  BY DEF WorkflowOnly
<1>2. LeadStage(f, tags) = LeadStage(f, {})
  <2> DEFINE lead == IF Converted(f)
                     THEN IF f.active = "membership" \/ f.named THEN "Converted (membership)"
                          ELSE "Converted (card)"
                     ELSE IF f.active = "trial"
                     THEN IF f.attended THEN "Trial booked" ELSE "Trial sold"
                     ELSE IF NoProducts(f) THEN "New lead" ELSE "none"
  <2>1. ASSUME NEW x, "trial-not-converted" \notin x
        PROVE  LeadStage(f, x) = lead
    <3>1. CASE Converted(f)
      BY <2>1, <3>1 DEF LeadStage, Converted, NoProducts
    <3>2. CASE ~Converted(f) /\ f.active = "trial"
      BY <2>1, <3>2 DEF LeadStage
    <3>3. CASE ~Converted(f) /\ f.active # "trial" /\ NoProducts(f)
      BY <2>1, <3>3 DEF LeadStage
    <3>4. CASE ~Converted(f) /\ f.active # "trial" /\ ~NoProducts(f)
      BY <2>1, <3>4 DEF LeadStage
    <3>5. QED
      BY <3>1, <3>2, <3>3, <3>4
  <2> HIDE DEF lead
  <2>2. LeadStage(f, tags) = lead
    BY <1>1, <2>1
  <2>3. LeadStage(f, {}) = lead
    BY <2>1
  <2>4. QED
    BY <2>2, <2>3
<1>3. QED
  BY <1>2 DEF StageTo, StagesDesired

\* Facts that were recorded, and the only ones in doubt, leave no doubt.
LEMMA NothingDue ==
    ASSUME NEW G, NEW r, NEW f, NEW F, Recorded(r, f, G), F \subseteq {f},
           Explained(G[r.id], r.snap, r.skipped, F)
    PROVE  Explained(G[r.id], r.snap, r.skipped, {})
<1> DEFINE g == G[r.id]
           s == r.snap
<1>1. TagsDue(g, s, F) /\ FieldsDue(g, s, r.skipped, F) /\ StagesDue(g, s, r.skipped, F)
  BY DEF Explained
<1>2. /\ s.fields = FieldsOf(f) /\ TagsDesired(f) \subseteq s.tags
      /\ s.tags \ g.tags \subseteq TagsDesired(f)
      /\ \A p \in Pipeline : StageTo(f)[p] # "none" => s.stage[p] = StageTo(f)[p]
  BY DEF Recorded
<1>3. \A e \in F : e = f
  OBVIOUS
<1> HIDE DEF g, s
<1>4. TagsDue(g, s, {})
  BY <1>1, <1>2, <1>3 DEF TagsDue
<1>5. FieldsDue(g, s, r.skipped, {})
  BY <1>1, <1>2, <1>3 DEF FieldsDue
<1>6. StagesDue(g, s, r.skipped, {})
  BY <1>1, <1>2, <1>3 DEF StagesDue
<1>7. QED
  BY <1>4, <1>5, <1>6 DEF Explained, g, s

-----------------------------------------------------------------------------
(* What a call does to the agreement.                                      *)

\* The facts the push at hand has GHL follow, for the contact at hand.
Asked(d) == {f \in {current} : push.pc \in Mid /\ d = contact}

\* Contacts in GHL change only towards those facts.
Serves ==
    /\ DOMAIN ghl' = DOMAIN ghl
    /\ \A j \in DOMAIN ghl : /\ ghl'[j].owner = ghl[j].owner
                             /\ Explained(ghl'[j], ghl[j], {}, Asked(ghl[j].owner))

\* They lose no tags but those the push at hand removes.
Losses ==
    \A j \in DOMAIN ghl :
        /\ j \in DOMAIN ghl'
        /\ \/ ghl[j].tags \subseteq ghl'[j].tags
           \/ /\ push.pc = "removing" /\ j = txn[contact].id
              /\ ghl[j].tags \ push.remove \subseteq ghl'[j].tags

LEMMA AskedIsOwed ==
    ASSUME IInv, NEW d \in Contact
    PROVE  /\ Asked(d) \subseteq Owed(d, push.touched \ push.ended)
           /\ Asked(d) \subseteq Owed(d, push.touched)
BY DEF IInv, Safe, Books, Asked, Owed, current

LEMMA ServedRow ==
    ASSUME Serves, NEW d, NEW r, NEW F, Asked(d) \subseteq F, Accounted(ghl, r, d, F)
    PROVE  Accounted(ghl', r, d, F)
<1> SUFFICES ASSUME NEW i \in DOMAIN ghl', ghl'[i].owner = d, d \in Email \/ i = r.id
             PROVE  Explained(ghl'[i], r.snap, r.skipped, F)
  BY DEF Accounted
<1>1. i \in DOMAIN ghl /\ ghl[i].owner = d /\ Explained(ghl'[i], ghl[i], {}, Asked(d))
  BY DEF Serves
<1>2. Explained(ghl[i], r.snap, r.skipped, F)
  BY <1>1 DEF Accounted
<1>3. Explained(ghl'[i], ghl[i], {}, F)
  BY <1>1, MoreExplained
<1>4. QED
  BY <1>2, <1>3, ThenExplained

\* Rows keep their links and snapshots, and vouch for nothing further.
SameRows ==
    /\ \A d \in Contact : /\ row'[d].id = row[d].id /\ row'[d].snap = row[d].snap
                          /\ row[d].skipped \subseteq row'[d].skipped
    /\ \A d \in Contact : /\ txn'[d].id = txn[d].id /\ txn'[d].snap = txn[d].snap
                          /\ txn[d].skipped \subseteq txn'[d].skipped

SameBatch ==
    /\ push'.seen = push.seen /\ push'.touched = push.touched /\ push'.ended = push.ended
    /\ unsure' = unsure

LEMMA SameOwed ==
    ASSUME SameBatch, NEW d
    PROVE  /\ Owed(d, push.touched)' = Owed(d, push.touched)
           /\ Owed(d, push.touched \ push.ended)' = Owed(d, push.touched \ push.ended)
BY DEF SameBatch, Owed

LEMMA ServesExplains ==
    ASSUME IInv, Explains, Serves, SameRows, SameBatch
    PROVE  Explains'
<1> SUFFICES ASSUME NEW d \in Contact
             PROVE  /\ Accounted(ghl', row'[d], d, Owed(d, push.touched)')
                    /\ Accounted(ghl', txn'[d], d, Owed(d, push.touched \ push.ended)')
  BY DEF Explains
<1>1. /\ Accounted(ghl', row[d], d, Owed(d, push.touched))
      /\ Accounted(ghl', txn[d], d, Owed(d, push.touched \ push.ended))
  BY AskedIsOwed, ServedRow DEF Explains
<1>2. /\ row'[d].id = row[d].id /\ row'[d].snap = row[d].snap
      /\ row[d].skipped \subseteq row'[d].skipped
      /\ txn'[d].id = txn[d].id /\ txn'[d].snap = txn[d].snap
      /\ txn[d].skipped \subseteq txn'[d].skipped
  BY DEF SameRows
<1>3. /\ Owed(d, push.touched)' = Owed(d, push.touched)
      /\ Owed(d, push.touched \ push.ended)' = Owed(d, push.touched \ push.ended)
  BY SameOwed
<1>4. Accounted(ghl', row'[d], d, Owed(d, push.touched))
  BY <1>1, <1>2, MoreAccounted
<1>5. Accounted(ghl', txn'[d], d, Owed(d, push.touched \ push.ended))
  BY <1>1, <1>2, MoreAccounted
<1>6. QED
  BY <1>3, <1>4, <1>5

LEMMA QuietServes ==
    ASSUME UNCHANGED ghl
    PROVE  Serves /\ Losses
BY SameShown DEF Serves, Losses

\* What a removal takes has no timestamp in the transaction, nor in the table;
\* contacts already pushed in the batch are others.
LEMMA LossesSound ==
    ASSUME IInv, Agree, Losses
    PROVE  /\ \A d \in Contact : RowSound(row[d], ghl') /\ RowSound(txn[d], ghl')
           /\ \A d \in push.ended : Recorded(txn[d], push.seen[d], ghl')
<1> DEFINE k == txn[contact].id
           Kept(d, r) == r.id # NoId /\ d # contact => ghl[r.id].tags \subseteq ghl'[r.id].tags
<1>1. push.pc = "removing" => ghl[k].owner = contact /\ k # NoId
  BY AtHand DEF Mid, IInv, Safe, Books
<1>2. \A d \in Contact : LinkOK(row[d], d) /\ LinkOK(txn[d], d)
  BY DEF IInv, Safe, Links
<1>3. ASSUME NEW d \in Contact, NEW r, LinkOK(r, d)
      PROVE  Kept(d, r)
  BY <1>1, <1>3 DEF LinkOK, Losses
<1>4. ASSUME NEW r, LinkOK(r, contact), RowSound(r, ghl),
             push.pc = "removing" => r.fresh \cap push.remove = {}
      PROVE  RowSound(r, ghl')
  BY <1>4 DEF LinkOK, RowSound, Losses
<1>5. ASSUME NEW d \in Contact, NEW r, LinkOK(r, d), RowSound(r, ghl), d # contact
      PROVE  RowSound(r, ghl')
  BY <1>3, <1>5 DEF RowSound
<1>6. \A d \in Contact : /\ RowSound(row[d], ghl) /\ RowSound(txn[d], ghl)
                         /\ row[d].fresh \subseteq txn[d].fresh
  BY DEF Agree, Sound
<1>7. push.pc = "removing" => txn[contact].fresh \cap push.remove = {}
  BY DEF IInv, Safe, Guarded
<1>8. contact \in Contact
  BY RowTypes DEF IInv
<1>9. \A d \in Contact : RowSound(row[d], ghl') /\ RowSound(txn[d], ghl')
  <2>1. RowSound(row[contact], ghl') /\ RowSound(txn[contact], ghl')
    BY <1>2, <1>4, <1>6, <1>7, <1>8
  <2>2. ASSUME NEW d \in Contact, d # contact
        PROVE  RowSound(row[d], ghl') /\ RowSound(txn[d], ghl')
    BY <1>2, <1>5, <1>6, <2>2
  <2>3. QED
    BY <2>1, <2>2
<1>10. ASSUME NEW d \in push.ended
       PROVE  Recorded(txn[d], push.seen[d], ghl')
  <2>1. d \in Contact
    BY DEF IInv, TypeOK, Push
  <2>2. Recorded(txn[d], push.seen[d], ghl)
    BY DEF Agree, Ended
  <2>3. push.pc = "removing" => d # contact
    BY DEF IInv, Safe, Books, Mid
  <2>4. txn[d].id \in DOMAIN ghl /\ ghl[txn[d].id].owner = d
    BY <1>2, <2>1, <2>2 DEF Recorded, LinkOK
  <2>5. ghl[txn[d].id].tags \subseteq ghl'[txn[d].id].tags
    BY <1>1, <2>3, <2>4 DEF Losses
  <2>6. QED
    BY <2>2, <2>5 DEF Recorded
<1>11. QED
  BY <1>9, <1>10

-----------------------------------------------------------------------------
(* The calls.                                                              *)

\* The contact at hand is the only one a call to it changes.
LEMMA TouchServes ==
    ASSUME IInv, push.pc \in Mid \ {"upserting"}, Touches(txn[contact].id),
           Explained(ghl'[txn[contact].id], ghl[txn[contact].id], {}, {current})
    PROVE  Serves
<1> DEFINE k == txn[contact].id
<1>1. k \in DOMAIN ghl /\ ghl[k].owner = contact
  BY AtHand
<1>2. Asked(contact) = {current}
  BY DEF Asked
<1>3. ASSUME NEW j \in DOMAIN ghl
      PROVE  Explained(ghl'[j], ghl[j], {}, Asked(ghl[j].owner))
  <2>1. CASE j = k
    BY <1>1, <1>2, <2>1
  <2>2. CASE j # k
    BY <2>2, SameShown DEF Touches
  <2>3. QED
    BY <2>1, <2>2
<1>4. QED
  BY <1>3 DEF Serves, Touches

\* What the push at hand asks of the pipelines.
LEMMA MovesAsk ==
    ASSUME IInv, Sound
    PROVE  /\ StagesDesired(current, prev.tags) = StageTo(current)
           /\ \A p \in Pipeline : p \in Moves(current, prev) <=>
                 StageTo(current)[p] # "none" /\ StageTo(current)[p] # prev.stage[p]
<1>1. contact \in Contact
  BY RowTypes DEF IInv
<1>2. prev.tags \cap WorkflowOnly = {}
  BY <1>1 DEF Sound, RowSound, prev
<1>3. StagesDesired(current, prev.tags) = StageTo(current)
  BY <1>2, StagesAsked
<1>4. QED
  BY <1>3 DEF Moves

LEMMA FieldsPushed ==
    ASSUME NEW old, NEW g, NEW h, NEW f,
           h.fields = Pushed(old, FieldsOf(f), g.fields), h.tags = g.tags, h.stage = g.stage
    PROVE  /\ Explained(h, g, {}, {f})
           /\ \A k \in Field \cap known :
                 FieldsOf(f)[k] # old[k] => h.fields[k] = FieldsOf(f)[k]
<1>1. \A k \in Field : h.fields[k] = IF k \in known /\ FieldsOf(f)[k] # old[k]
                                     THEN FieldsOf(f)[k] ELSE g.fields[k]
  BY DEF Pushed
<1>2. TagsDue(h, g, {f})
  BY DEF TagsDue
<1>3. FieldsDue(h, g, {}, {f})
  BY <1>1 DEF FieldsDue
<1>4. StagesDue(h, g, {}, {f})
  BY DEF StagesDue
<1>5. QED
  BY <1>1, <1>2, <1>3, <1>4 DEF Explained

LEMMA FieldsServe ==
    ASSUME IInv, push.pc = "updating", UpdateFields(txn[contact].id)
    PROVE  /\ Serves /\ Losses
           /\ \A k \in Field \cap known : FieldsOf(current)[k] # prev.fields[k] =>
                 ghl'[txn[contact].id].fields[k] = FieldsOf(current)[k]
<1> DEFINE i == txn[contact].id
<1>1. i \in DOMAIN ghl /\ prev.fields \in Values
  BY AtHand, RowTypes DEF Mid, IInv, Snapshot
<1>2. /\ Touches(i) /\ ghl'[i].tags = ghl[i].tags /\ ghl'[i].stage = ghl[i].stage
      /\ ghl'[i].fields = Pushed(prev.fields, FieldsOf(current), ghl[i].fields)
  BY <1>1, FieldsEffect DEF UpdateFields
<1>3. /\ Explained(ghl'[i], ghl[i], {}, {current})
      /\ \A k \in Field \cap known : FieldsOf(current)[k] # prev.fields[k] =>
            ghl'[i].fields[k] = FieldsOf(current)[k]
  <2> DEFINE g == ghl[i]
             h == ghl'[i]
             f == current
             old == prev.fields
  <2>1. h.fields = Pushed(old, FieldsOf(f), g.fields) /\ h.tags = g.tags /\ h.stage = g.stage
    BY <1>2
  <2> HIDE DEF g, h, f, old
  <2>2. /\ Explained(h, g, {}, {f})
        /\ \A k \in Field \cap known :
              FieldsOf(f)[k] # old[k] => h.fields[k] = FieldsOf(f)[k]
    BY <2>1, FieldsPushed
  <2>3. QED
    BY <2>2 DEF f, g, h, old
<1>4. Serves
  BY <1>2, <1>3, TouchServes DEF Mid
<1>5. Losses
  BY <1>2 DEF Touches, Losses
<1>6. QED
  BY <1>3, <1>4, <1>5

LEMMA AddServes ==
    ASSUME IInv, push.pc = "adding", AddTo(txn[contact].id)
    PROVE  /\ Serves /\ Losses
           /\ LET i == txn[contact].id
              IN  /\ ghl'[i].tags = ghl[i].tags \cup TagsToAdd(current, prev)
                  /\ ghl'[i].fields = ghl[i].fields /\ ghl'[i].stage = ghl[i].stage
<1> DEFINE i == txn[contact].id
<1>1. i \in DOMAIN ghl
  BY AtHand DEF Mid
<1>2. /\ Touches(i) /\ ghl'[i].tags = ghl[i].tags \cup TagsToAdd(current, prev)
      /\ ghl'[i].fields = ghl[i].fields /\ ghl'[i].stage = ghl[i].stage
  BY <1>1, AddEffect
<1>3. Explained(ghl'[i], ghl[i], {}, {current})
  <2>1. TagsDue(ghl'[i], ghl[i], {current})
    BY <1>2 DEF TagsDue, TagsToAdd
  <2>2. QED
    BY <1>2, <2>1 DEF Explained, FieldsDue, StagesDue
<1>4. Serves
  BY <1>2, <1>3, TouchServes DEF Mid
<1>5. Losses
  BY <1>2 DEF Touches, Losses
<1>6. QED
  BY <1>2, <1>4, <1>5

LEMMA RemoveServes ==
    ASSUME IInv, Phases, push.pc = "removing", RemoveFrom(txn[contact].id)
    PROVE  /\ Serves /\ Losses
           /\ LET i == txn[contact].id
              IN  /\ ghl'[i].tags = ghl[i].tags \ push.remove
                  /\ ghl'[i].fields = ghl[i].fields /\ ghl'[i].stage = ghl[i].stage
<1> DEFINE i == txn[contact].id
<1>1. i \in DOMAIN ghl
  BY AtHand DEF Mid
<1>2. /\ Touches(i) /\ ghl'[i].tags = ghl[i].tags \ push.remove
      /\ ghl'[i].fields = ghl[i].fields /\ ghl'[i].stage = ghl[i].stage
  BY <1>1, RemoveEffect
<1>3. push.remove \subseteq TagsToRemove(current, prev)
  BY DEF Phases, Done, Mid
<1>4. Explained(ghl'[i], ghl[i], {}, {current})
  <2>1. TagsDue(ghl'[i], ghl[i], {current})
    BY <1>2, <1>3 DEF TagsDue, TagsToRemove
  <2>2. QED
    BY <1>2, <2>1 DEF Explained, FieldsDue, StagesDue
<1>5. Serves
  BY <1>2, <1>4, TouchServes DEF Mid
<1>6. Losses
  BY <1>2 DEF Touches, Losses
<1>7. QED
  BY <1>2, <1>5, <1>6

LEMMA MoveServes ==
    ASSUME IInv, Sound, Phases, push.pc = "moving", NEW p \in push.moves,
           SetStage(txn[contact].id, p)
    PROVE  /\ Serves /\ Losses
           /\ LET i == txn[contact].id
              IN  /\ ghl'[i].tags = ghl[i].tags /\ ghl'[i].fields = ghl[i].fields
                  /\ \A q \in Pipeline : q # p => ghl'[i].stage[q] = ghl[i].stage[q]
                  /\ p \in known => ghl'[i].stage[p] = StageTo(current)[p]
                  /\ StageTo(current)[p] # "none"
<1> DEFINE i == txn[contact].id
<1>1. i \in DOMAIN ghl
  BY AtHand DEF Mid
<1>2. p \in Pipeline /\ p \in Moves(current, prev)
  BY RowTypes DEF IInv, Push, Phases, Mid
<1>3. /\ Touches(i) /\ ghl'[i].tags = ghl[i].tags /\ ghl'[i].fields = ghl[i].fields
      /\ \A q \in Pipeline : q # p => ghl'[i].stage[q] = ghl[i].stage[q]
      /\ ghl'[i].stage[p] = IF p \in known THEN StagesDesired(current, prev.tags)[p]
                            ELSE ghl[i].stage[p]
  BY <1>1, <1>2, StageEffect
<1>4. StagesDesired(current, prev.tags) = StageTo(current) /\ StageTo(current)[p] # "none"
  BY <1>2, MovesAsk
<1>5. Explained(ghl'[i], ghl[i], {}, {current})
  <2>1. StagesDue(ghl'[i], ghl[i], {}, {current})
    BY <1>3, <1>4 DEF StagesDue
  <2>2. QED
    BY <1>3, <2>1 DEF Explained, FieldsDue, TagsDue
<1>6. Serves
  BY <1>3, <1>5, TouchServes DEF Mid
<1>7. Losses
  BY <1>3 DEF Touches, Losses
<1>8. QED
  BY <1>3, <1>4, <1>6, <1>7

-----------------------------------------------------------------------------
(* Every step keeps the agreement.                                         *)

LEMMA InitAgree == Init => Agree
<1> SUFFICES ASSUME Init PROVE Agree
  OBVIOUS
<1>1. Sound
  BY DEF Init, Sound, RowSound, NoSnapshot, NoPush
<1>2. Explains
  BY DEF Init, Explains, Accounted
<1>3. Phases /\ Ended
  BY DEF Init, Phases, Ended, NoPush, Mid
<1>4. QED
  BY <1>1, <1>2, <1>3 DEF Agree

LEMMA QuietAgree ==
    ASSUME Agree, UNCHANGED <<row, txn, push, ghl, unsure>>,
           push.pc \in Mid => UNCHANGED known
    PROVE  Agree'
<1>1. Sound'
  BY DEF Agree, Sound, RowSound
<1>2. Explains'
  BY DEF Agree, Explains, Accounted, Owed
<1>3. Phases'
  BY DEF Agree, Phases, Done, contact, current, prev, Mid
<1>4. Ended'
  BY DEF Agree, Ended, Recorded
<1>5. QED
  BY <1>1, <1>2, <1>3, <1>4 DEF Agree

\* The batch goes on with another contact, or to its end.
LEMMA TurnsAgree ==
    ASSUME IInv, Agree, push'.pc \in {"visiting", "closing"}, SameBatch,
           UNCHANGED <<row, txn>>, Serves, Losses
    PROVE  Agree'
<1>1. /\ \A d \in Contact : RowSound(row[d], ghl') /\ RowSound(txn[d], ghl')
      /\ \A d \in push.ended : Recorded(txn[d], push.seen[d], ghl')
  BY LossesSound
<1>2. Sound'
  BY <1>1 DEF Agree, Sound
<1>3. Explains'
  BY ServesExplains DEF Agree, SameRows
<1>4. Phases'
  BY DEF Phases, Mid
<1>5. Ended'
  BY <1>1 DEF Ended, SameBatch
<1>6. QED
  BY <1>2, <1>3, <1>4, <1>5 DEF Agree

LEMMA GaveUpBatch ==
    ASSUME IInv, NEW to \in {"visiting", "closing"}, GiveUp(to), unsure' = unsure
    PROVE  push'.pc \in {"visiting", "closing"} /\ SameBatch
<1>1. push \in Push
  BY DEF IInv, TypeOK
<1>2. QED
  BY <1>1 DEF GiveUp, Push, SameBatch

LEMMA RefusedAgree ==
    ASSUME IInv, Agree, CallRefused
    PROVE  Agree'
<1>1. PICK to \in {"visiting", "closing"} : GiveUp(to)
  BY DEF CallRefused
<1>2. UNCHANGED <<row, txn, ghl, known, unsure>>
  BY DEF CallRefused
<1>3. push'.pc \in {"visiting", "closing"} /\ SameBatch
  BY <1>1, <1>2, GaveUpBatch
<1>4. QED
  BY <1>2, <1>3, TurnsAgree, QuietServes

LEMMA BatchEndsAgree ==
    ASSUME IInv, Agree, BatchEnds
    PROVE  Agree'
<1>1. push \in Push /\ UNCHANGED <<row, txn, ghl, known, unsure>>
  BY DEF BatchEnds, IInv, TypeOK
<1>2. push'.pc = "closing" /\ SameBatch
  BY <1>1 DEF BatchEnds, Push, SameBatch
<1>3. QED
  BY <1>1, <1>2, TurnsAgree, QuietServes

LEMMA StartAgree ==
    ASSUME IInv, Agree, Start
    PROVE  Agree'
<1>1. PICK seen \in [Contact -> Facts] :
        push' = [NoPush EXCEPT !.pc = "visiting", !.seen = seen, !.todo = Contact]
  BY DEF Start
<1>2. push'.pc = "visiting" /\ push'.ended = {} /\ push'.touched = {}
  BY <1>1 DEF NoPush
<1>3. UNCHANGED <<row, txn, ghl, known, unsure>> /\ push.pc = "idle"
  BY DEF Start
<1>4. push.touched = {} /\ push.ended = {}
  BY <1>3 DEF Agree, Sound
<1>5. Sound'
  BY <1>2, <1>3 DEF Agree, Sound, RowSound
<1>6. Explains'
  BY <1>2, <1>3, <1>4 DEF Agree, Explains, Owed, Accounted
<1>7. Phases' /\ Ended'
  BY <1>2 DEF Phases, Ended, Mid
<1>8. QED
  BY <1>5, <1>6, <1>7 DEF Agree

LEMMA VisitAgree ==
    ASSUME IInv, Agree, NEW d \in push.todo, Visit(d)
    PROVE  Agree'
<1> DEFINE moves == Moves(push.seen[d], txn[d].snap)
           to == IF txn[d].id = NoId THEN "upserting" ELSE "updating"
<1>1. push \in Push /\ push.pc = "visiting" /\ d \in Contact
  BY DEF Visit, IInv, TypeOK, Push
<1>2. UNCHANGED <<row, txn, ghl, known, unsure>>
  BY DEF Visit
<1>3. CASE Changed(d)
  <2>1. push' = [push EXCEPT !.pc = to, !.at = d, !.todo = @ \ {d},
                             !.touched = @ \cup {d}, !.moves = moves]
    BY <1>3 DEF Visit
  <2>2. to \in {"upserting", "updating"} /\ moves = Moves(push.seen[d], txn[d].snap)
    OBVIOUS
  <2> HIDE DEF to, moves
  <2>3. /\ push'.pc = to /\ push'.at = d /\ push'.seen = push.seen /\ push'.moves = moves
        /\ push'.touched = push.touched \cup {d} /\ push'.ended = push.ended
    BY <1>1, <2>1 DEF Push
  <2>4. Sound' /\ Ended'
    BY <1>2, <2>2, <2>3 DEF Agree, Sound, RowSound, Ended, Recorded
  <2>5. Phases'
    <3>1. current' = push.seen[d] /\ prev' = txn[d].snap
      BY <1>2, <2>3 DEF current, prev, contact
    <3>2. push'.moves = Moves(current, prev)'
      BY <2>2, <2>3, <3>1 DEF Moves
    <3>3. QED
      BY <2>2, <2>3, <3>2 DEF Phases, Done
  <2>6. Explains'
    <3> SUFFICES ASSUME NEW e \in Contact
                 PROVE  /\ Accounted(ghl', row'[e], e, Owed(e, push.touched)')
                        /\ Accounted(ghl', txn'[e], e, Owed(e, push.touched \ push.ended)')
      BY DEF Explains
    <3>1. /\ Accounted(ghl, row[e], e, Owed(e, push.touched))
          /\ Accounted(ghl, txn[e], e, Owed(e, push.touched \ push.ended))
      BY DEF Agree, Explains
    <3>2. /\ Owed(e, push.touched) \subseteq Owed(e, push.touched)'
          /\ Owed(e, push.touched \ push.ended) \subseteq Owed(e, push.touched \ push.ended)'
      BY <1>2, <2>3 DEF Owed
    <3> DEFINE F == Owed(e, push.touched)
               G == Owed(e, push.touched \ push.ended)
    <3>3. F \subseteq F' /\ G \subseteq G'
      BY <3>2
    <3>4. Accounted(ghl, row[e], e, F) /\ Accounted(ghl, txn[e], e, G)
      BY <3>1
    <3> HIDE DEF F, G
    <3>5. Accounted(ghl, row[e], e, F')
      BY <3>3, <3>4, MoreAccounted
    <3>6. Accounted(ghl, txn[e], e, G')
      BY <3>3, <3>4, MoreAccounted
    <3>7. QED
      BY <1>2, <3>5, <3>6 DEF F, G
  <2>7. QED
    BY <2>4, <2>5, <2>6 DEF Agree
<1>4. CASE ~Changed(d)
  <2>1. push' = [push EXCEPT !.todo = @ \ {d}]
    BY <1>4 DEF Visit
  <2>2. push'.pc = "visiting" /\ SameBatch
    BY <1>1, <1>2, <2>1 DEF Push, SameBatch
  <2>3. QED
    BY <1>2, <2>2, TurnsAgree, QuietServes
<1>5. QED
  BY <1>3, <1>4

\* The agreement after a call whose contact stays at hand.
LEMMA CallAgree ==
    ASSUME IInv, Agree, push'.pc # "idle", SameBatch, SameRows, Serves, Losses,
           \A d \in Contact : /\ RowSound(row'[d], ghl') /\ RowSound(txn'[d], ghl')
                              /\ row'[d].fresh \subseteq txn'[d].fresh,
           Phases'
    PROVE  Agree'
<1>1. Sound'
  BY DEF Sound
<1>2. Explains'
  BY ServesExplains DEF Agree
<1>3. Ended'
  <2>1. \A d \in push.ended : d \in Contact /\ Recorded(txn[d], push.seen[d], ghl')
    BY LossesSound DEF IInv, TypeOK, Push
  <2>2. QED
    BY <2>1 DEF Ended, Recorded, SameBatch, SameRows
<1>4. QED
  BY <1>1, <1>2, <1>3 DEF Agree

LEMMA UpdateAgree ==
    ASSUME IInv, Agree, UpdateContact
    PROVE  Agree'
<1>1. push \in Push /\ push.pc = "updating" /\ UNCHANGED <<row, txn, known, unsure>>
  BY DEF UpdateContact, IInv, TypeOK
<1>2. /\ push'.pc = "adding" /\ push'.at = push.at /\ push'.moves = push.moves /\ SameBatch
  BY <1>1 DEF UpdateContact, Push, SameBatch
<1>3. /\ Serves /\ Losses
      /\ \A k \in Field \cap known : FieldsOf(current)[k] # prev.fields[k] =>
            ghl'[txn[contact].id].fields[k] = FieldsOf(current)[k]
  BY <1>1, FieldsServe DEF UpdateContact
<1>4. contact' = contact /\ current' = current /\ prev' = prev
  BY <1>1, <1>2 DEF contact, current, prev, SameBatch
<1>5. push.moves = Moves(current, prev)
  BY <1>1 DEF Agree, Phases, Mid
<1>6. Moves(current, prev)' = Moves(current, prev)
  BY <1>4 DEF Moves
<1>7. Phases'
  BY <1>1, <1>2, <1>3, <1>4, <1>5, <1>6 DEF Phases, Done
<1>8. \A d \in Contact : /\ RowSound(row'[d], ghl') /\ RowSound(txn'[d], ghl')
                         /\ row'[d].fresh \subseteq txn'[d].fresh
  BY <1>1, <1>3, LossesSound DEF Agree, Sound
<1>9. QED
  BY <1>1, <1>2, <1>3, <1>7, <1>8, CallAgree DEF SameRows

LEMMA AddAgree ==
    ASSUME IInv, Agree, AddTags
    PROVE  Agree'
<1> DEFINE k == txn[contact].id
<1>1. push \in Push /\ push.pc = "adding" /\ UNCHANGED <<row, txn, known, unsure>>
  BY DEF AddTags, IInv, TypeOK
<1>2. /\ push'.pc = "removing" /\ push'.at = push.at /\ push'.moves = push.moves
      /\ push'.remove = SafeToRemove /\ SameBatch
  BY <1>1 DEF AddTags, Push, SameBatch
<1>3. /\ Serves /\ Losses
      /\ ghl'[k].tags = ghl[k].tags \cup TagsToAdd(current, prev)
      /\ ghl'[k].fields = ghl[k].fields
  BY <1>1, AddServes DEF AddTags
<1>4. contact' = contact /\ current' = current /\ prev' = prev
  BY <1>1, <1>2 DEF contact, current, prev, SameBatch
<1>5. push.moves = Moves(current, prev) /\ Done(ghl[k])
  BY <1>1 DEF Agree, Phases, Mid
<1>6. /\ Moves(current, prev)' = Moves(current, prev)
      /\ TagsToAdd(current, prev)' = TagsToAdd(current, prev)
      /\ TagsToRemove(current, prev)' = TagsToRemove(current, prev)
  BY <1>4 DEF Moves, TagsToAdd, TagsToRemove
<1>7. txn[contact].fresh \subseteq ghl[k].tags
  <2>1. contact \in Contact /\ k # NoId
    BY <1>1, RowTypes DEF IInv, Safe, Books, Mid
  <2>2. QED
    BY <2>1 DEF Agree, Sound, RowSound
<1>8. TagsToRemove(current, prev) \ SafeToRemove \subseteq ghl'[k].tags
  BY <1>3, <1>7 DEF SafeToRemove
<1>9. SafeToRemove \subseteq TagsToRemove(current, prev)
  BY DEF SafeToRemove
<1>10. \A f \in Field \cap known : FieldsOf(current)[f] # prev.fields[f] =>
          ghl'[k].fields[f] = FieldsOf(current)[f]
  BY <1>1, <1>3, <1>5 DEF Done, Mid
<1>11. k' = k
  BY <1>1, <1>4
<1> HIDE DEF k
<1>12. Done(ghl[k])'
  BY <1>1, <1>2, <1>3, <1>4, <1>6, <1>8, <1>9, <1>10, <1>11 DEF Done
<1>13. Phases'
  BY <1>2, <1>5, <1>6, <1>12 DEF Phases, k
<1>14. \A d \in Contact : /\ RowSound(row'[d], ghl') /\ RowSound(txn'[d], ghl')
                          /\ row'[d].fresh \subseteq txn'[d].fresh
  BY <1>1, <1>3, LossesSound DEF Agree, Sound
<1>15. QED
  BY <1>1, <1>2, <1>3, <1>13, <1>14, CallAgree DEF SameRows

\* The row at hand after a step that leaves its link and its snapshot.
LEMMA RowAtHand ==
    ASSUME IInv, NEW r, txn' = [txn EXCEPT ![contact] = r]
    PROVE  /\ txn'[contact] = r /\ contact \in Contact
           /\ \A d \in Contact : d # contact => txn'[d] = txn[d]
BY RowTypes DEF IInv, TypeOK

LEMMA RemoveAgree ==
    ASSUME IInv, Agree, RemoveTags
    PROVE  Agree'
<1> DEFINE k == txn[contact].id
           fr == (txn[contact].fresh \cup JustAdded) \ push.remove
           r == [txn[contact] EXCEPT !.fresh = fr]
           to == IF push.moves = {} THEN "recording" ELSE "moving"
<1>1. push \in Push /\ push.pc = "removing" /\ UNCHANGED <<row, known, unsure>>
  BY DEF RemoveTags, IInv, TypeOK
<1>2. /\ push'.pc \in {"recording", "moving"} /\ push'.at = push.at
      /\ push'.moves = push.moves /\ push'.remove = push.remove /\ SameBatch
      /\ push'.pc = "recording" => push.moves = {}
  <2>1. push' = [push EXCEPT !.pc = to] /\ to \in {"recording", "moving"}
        /\ (to = "recording" => push.moves = {})
    BY DEF RemoveTags
  <2> HIDE DEF to
  <2>2. QED
    BY <1>1, <2>1 DEF Push, SameBatch
<1>3. /\ Serves /\ Losses
      /\ ghl'[k].tags = ghl[k].tags \ push.remove /\ ghl'[k].fields = ghl[k].fields
  BY <1>1, RemoveServes DEF RemoveTags, Agree
<1>4. txn' = [txn EXCEPT ![contact] = r]
  BY DEF RemoveTags
<1>5. txn[contact] \in Row /\ contact \in Contact /\ k # NoId
  BY <1>1, RowTypes DEF IInv, Safe, Books, Mid
<1>6. /\ k = txn[contact].id
      /\ fr \subseteq (txn[contact].fresh \cup TagsToAdd(current, prev)) \ push.remove
      /\ txn[contact].fresh \ push.remove \subseteq fr
  BY DEF JustAdded
<1> HIDE DEF fr
<1>7. /\ r.id = k /\ r.snap = txn[contact].snap /\ r.fresh = fr
      /\ r.skipped = txn[contact].skipped
  BY <1>5 DEF Row
<1> HIDE DEF r, k
<1>8. txn'[contact] = r /\ \A d \in Contact : d # contact => txn'[d] = txn[d]
  BY <1>4, RowAtHand
<1>9. contact' = contact /\ current' = current /\ prev' = prev
  BY <1>2, <1>7, <1>8 DEF contact, current, prev, SameBatch
<1>10. /\ push.moves = Moves(current, prev) /\ Done(ghl[k])
  BY <1>1, <1>6 DEF Agree, Phases, Mid
<1>11. /\ \A f \in Field \cap known : FieldsOf(current)[f] # prev.fields[f] =>
             ghl[k].fields[f] = FieldsOf(current)[f]
       /\ TagsToAdd(current, prev) \subseteq ghl[k].tags
       /\ push.remove \subseteq TagsToRemove(current, prev)
       /\ TagsToRemove(current, prev) \ push.remove \subseteq ghl[k].tags
  BY <1>1, <1>10 DEF Done, Mid
<1>12. TagsToAdd(current, prev) \cap TagsToRemove(current, prev) = {}
  BY DEF TagsToAdd, TagsToRemove
<1>13. /\ Moves(current, prev)' = Moves(current, prev)
       /\ TagsToAdd(current, prev)' = TagsToAdd(current, prev)
       /\ TagsToRemove(current, prev)' = TagsToRemove(current, prev)
  BY <1>9 DEF Moves, TagsToAdd, TagsToRemove
<1>14. /\ TagsToAdd(current, prev) \subseteq ghl'[k].tags
       /\ TagsToRemove(current, prev) \ push.remove \subseteq ghl'[k].tags
       /\ push.remove \cap ghl'[k].tags = {}
  BY <1>3, <1>11, <1>12
<1>15. k' = k
  BY <1>6, <1>7, <1>8, <1>9 DEF k
<1>16. Done(ghl[k])'
  BY <1>1, <1>2, <1>3, <1>9, <1>10, <1>11, <1>13, <1>14, <1>15 DEF Done
<1>17. Phases'
  BY <1>2, <1>10, <1>13, <1>16 DEF Phases, k
<1>18. /\ \A d \in Contact : RowSound(row[d], ghl') /\ RowSound(txn[d], ghl')
       /\ \A d \in Contact : row[d].fresh \subseteq txn[d].fresh
       /\ txn[contact].fresh \cap push.remove = {}
  BY <1>1, <1>3, LossesSound DEF Agree, Sound, IInv, Safe, Guarded
<1>19. \A d \in Contact : /\ RowSound(row'[d], ghl') /\ RowSound(txn'[d], ghl')
                          /\ row'[d].fresh \subseteq txn'[d].fresh
  <2>1. fr \subseteq ghl'[k].tags
    BY <1>5, <1>6, <1>14, <1>18 DEF RowSound
  <2>2. RowSound(r, ghl')
    BY <1>5, <1>6, <1>7, <1>18, <2>1 DEF RowSound
  <2>3. row[contact].fresh \subseteq fr
    BY <1>5, <1>6, <1>18
  <2>4. QED
    BY <1>1, <1>5, <1>7, <1>8, <1>18, <2>2, <2>3
<1>20. SameRows
  BY <1>1, <1>6, <1>7, <1>8 DEF SameRows
<1>21. QED
  BY <1>2, <1>3, <1>17, <1>19, <1>20, CallAgree

LEMMA MoveAgree ==
    ASSUME IInv, IInv', Agree, NEW p \in Pipeline, MovePipeline(p)
    PROVE  Agree'
<1> DEFINE k == txn[contact].id
           sk == Skipped(p)
           r == [txn[contact] EXCEPT !.skipped = sk]
           to == IF push.moves = {p} THEN "recording" ELSE "moving"
           F == Owed(contact, push.touched \ push.ended)
<1>1. /\ push \in Push /\ push.pc = "moving" /\ UNCHANGED <<row, known, unsure>>
      /\ p \in push.moves
  BY DEF MovePipeline, IsNext, IInv, TypeOK
<1>2. /\ push'.pc \in {"recording", "moving"} /\ push'.at = push.at
      /\ push'.moves = push.moves \ {p} /\ push'.remove = push.remove /\ SameBatch
      /\ push'.pc = "recording" => push'.moves = {}
  <2>1. push' = [push EXCEPT !.moves = @ \ {p}, !.pc = to] /\ to \in {"recording", "moving"}
        /\ (to = "recording" => push.moves = {p})
    BY DEF MovePipeline
  <2> HIDE DEF to
  <2>2. QED
    BY <1>1, <2>1 DEF Push, SameBatch
<1>3. /\ Serves /\ Losses
      /\ ghl'[k].tags = ghl[k].tags /\ ghl'[k].fields = ghl[k].fields
      /\ \A q \in Pipeline : q # p => ghl'[k].stage[q] = ghl[k].stage[q]
      /\ p \in known => ghl'[k].stage[p] = StageTo(current)[p]
      /\ StageTo(current)[p] # "none"
  BY <1>1, MoveServes DEF MovePipeline, Agree
<1>4. txn' = [txn EXCEPT ![contact] = r]
  BY DEF MovePipeline
<1>5. /\ txn[contact] \in Row /\ contact \in Contact /\ k # NoId
      /\ k \in DOMAIN ghl /\ ghl[k].owner = contact
  BY <1>1, RowTypes, AtHand DEF IInv, Safe, Books, Mid
<1>6. /\ k = txn[contact].id
      /\ sk = IF p \in known THEN txn[contact].skipped \ {p} ELSE txn[contact].skipped \cup {p}
  BY DEF Skipped
<1>7. current \in F
  BY <1>1 DEF IInv, Safe, Books, Mid, Owed, current
<1> HIDE DEF sk
<1>8. /\ r.id = k /\ r.snap = txn[contact].snap /\ r.fresh = txn[contact].fresh
      /\ r.skipped = sk
  BY <1>5 DEF Row
<1> HIDE DEF r, k, F
<1>9. txn'[contact] = r /\ \A d \in Contact : d # contact => txn'[d] = txn[d]
  BY <1>4, RowAtHand
<1>10. contact' = contact /\ current' = current /\ prev' = prev
  BY <1>2, <1>8, <1>9 DEF contact, current, prev, SameBatch
<1>11. push.moves \subseteq Moves(current, prev) /\ Done(ghl[k])
  BY <1>1, <1>6 DEF Agree, Phases, Mid
<1>12. /\ Moves(current, prev)' = Moves(current, prev)
       /\ TagsToAdd(current, prev)' = TagsToAdd(current, prev)
       /\ TagsToRemove(current, prev)' = TagsToRemove(current, prev)
       /\ StageTo(current)' = StageTo(current)
  BY <1>10 DEF Moves, TagsToAdd, TagsToRemove, StageTo
<1>13. k' = k
  BY <1>6, <1>8, <1>9, <1>10 DEF k
<1>14. \A q \in Moves(current, prev) \ push'.moves :
          q \in sk \/ ghl'[k].stage[q] = StageTo(current)[q]
  <2>1. TAKE q \in Moves(current, prev) \ push'.moves
  <2>2. q \in Pipeline
    BY DEF Moves
  <2>3. CASE q = p
    BY <1>3, <1>6, <2>3
  <2>4. CASE q # p
    <3>1. q \in txn[contact].skipped \/ ghl[k].stage[q] = StageTo(current)[q]
      BY <1>1, <1>2, <1>11, <2>4 DEF Done
    <3>2. QED
      BY <1>3, <1>6, <2>2, <2>4, <3>1
  <2>5. QED
    BY <2>3, <2>4
<1>15. Done(ghl[k])'
  BY <1>1, <1>2, <1>3, <1>8, <1>9, <1>10, <1>11, <1>12, <1>13, <1>14 DEF Done, Mid
<1>16. Phases'
  BY <1>2, <1>11, <1>12, <1>15 DEF Phases, k
<1>17. /\ \A d \in Contact : RowSound(row[d], ghl') /\ RowSound(txn[d], ghl')
       /\ \A d \in Contact : row[d].fresh \subseteq txn[d].fresh
       /\ \A d \in push.ended : Recorded(txn[d], push.seen[d], ghl')
  BY <1>3, LossesSound DEF Agree, Sound
<1>18. Sound'
  <2>1. \A d \in Contact : /\ txn'[d].id = txn[d].id /\ txn'[d].snap = txn[d].snap
                           /\ txn'[d].fresh = txn[d].fresh
    BY <1>6, <1>8, <1>9
  <2>2. QED
    BY <1>1, <1>2, <1>17, <2>1 DEF Sound, RowSound
<1>19. Ended'
  <2>1. \A d \in push.ended : d \in Contact
    BY <1>1 DEF Push
  <2>2. \A d \in push.ended : txn'[d].id = txn[d].id /\ txn'[d].snap = txn[d].snap
    BY <1>6, <1>8, <1>9, <2>1
  <2>3. QED
    BY <1>2, <1>17, <2>2 DEF Ended, Recorded, SameBatch
<1>20. /\ \A d \in Contact : Accounted(ghl', row[d], d, Owed(d, push.touched))
       /\ \A d \in Contact : Accounted(ghl', txn[d], d, Owed(d, push.touched \ push.ended))
  BY <1>3, AskedIsOwed, ServedRow DEF Agree, Explains
<1>21. Accounted(ghl', r, contact, F)
  <2> SUFFICES ASSUME NEW i \in DOMAIN ghl', ghl'[i].owner = contact, contact \in Email \/ i = k
               PROVE  Explained(ghl'[i], r.snap, sk, F)
    BY <1>8 DEF Accounted
  <2>1. k \in DOMAIN ghl' /\ ghl'[k].owner = contact
    BY <1>3, <1>5 DEF Serves
  <2>2. i = k
    BY <2>1 DEF IInv, Safe, OnePerEmail
  <2>3. Explained(ghl'[k], txn[contact].snap, txn[contact].skipped, F)
    BY <1>5, <1>6, <1>20, <2>1 DEF Accounted, F
  <2>4. StagesDue(ghl'[k], txn[contact].snap, sk, F)
    BY <1>3, <1>6, <1>7, <2>3 DEF Explained, StagesDue
  <2>5. FieldsDue(ghl'[k], txn[contact].snap, sk, F)
    <3>1. \A f \in Field : f \in sk <=> f \in txn[contact].skipped
      BY <1>6 DEF Pipeline, Field
    <3>2. QED
      BY <2>3, <3>1 DEF Explained, FieldsDue
  <2>6. QED
    BY <1>8, <2>2, <2>3, <2>4, <2>5 DEF Explained
<1>22. Explains'
  <2> SUFFICES ASSUME NEW d \in Contact
               PROVE  /\ Accounted(ghl', row'[d], d, Owed(d, push.touched)')
                      /\ Accounted(ghl', txn'[d], d, Owed(d, push.touched \ push.ended)')
    BY DEF Explains
  <2>1. /\ Owed(d, push.touched)' = Owed(d, push.touched)
        /\ Owed(d, push.touched \ push.ended)' = Owed(d, push.touched \ push.ended)
    BY <1>2, SameOwed
  <2>2. Accounted(ghl', txn'[d], d, Owed(d, push.touched \ push.ended))
    BY <1>9, <1>20, <1>21 DEF F
  <2>3. QED
    BY <1>1, <1>20, <2>1, <2>2
<1>23. QED
  BY <1>16, <1>18, <1>19, <1>22 DEF Agree

\* What the push at hand has done explains the snapshot it is about to record.
LEMMA RecordExplained ==
    ASSUME IInv, Agree, push.pc = "recording", NEW s,
           s.fields = FieldsOf(current), s.tags = NewTags,
           \A p \in Pipeline : s.stage[p] = IF StageTo(current)[p] = "none" THEN prev.stage[p]
                                            ELSE StageTo(current)[p]
    PROVE  LET g == ghl[txn[contact].id]
           IN  /\ Explained(g, s, NewSkipped, unsure[contact])
               /\ TagsDesired(current) \subseteq s.tags
               /\ s.tags \ g.tags \subseteq TagsDesired(current)
               /\ s.tags \cap WorkflowOnly = {}
<1> DEFINE k == txn[contact].id
           g == ghl[k]
           sk == txn[contact].skipped
           U == unsure[contact]
<1>1. /\ k \in DOMAIN ghl /\ g.owner = contact /\ contact \in Contact
      /\ prev = txn[contact].snap
  BY AtHand DEF Mid, prev
<1>2. Accounted(ghl, txn[contact], contact, Owed(contact, push.touched \ push.ended))
  BY <1>1 DEF Agree, Explains
<1>3. Owed(contact, push.touched \ push.ended) = U \cup {current}
  BY DEF IInv, Safe, Books, Mid, Owed, current
<1>4. Explained(g, prev, sk, U \cup {current})
  BY <1>1, <1>2, <1>3 DEF Accounted
<1>5. /\ TagsDue(g, prev, U \cup {current}) /\ FieldsDue(g, prev, sk, U \cup {current})
      /\ StagesDue(g, prev, sk, U \cup {current})
  BY <1>4 DEF Explained
<1>6. push.moves = {} /\ Done(g)
  BY DEF Agree, Phases, Mid
<1>7. /\ \A f \in Field \cap known : FieldsOf(current)[f] # prev.fields[f] =>
             g.fields[f] = FieldsOf(current)[f]
      /\ TagsToAdd(current, prev) \subseteq g.tags
      /\ push.remove \subseteq TagsToRemove(current, prev)
      /\ TagsToRemove(current, prev) \ push.remove \subseteq g.tags
      /\ push.remove \cap g.tags = {}
      /\ \A p \in Moves(current, prev) : p \in sk \/ g.stage[p] = StageTo(current)[p]
  BY <1>6 DEF Done, Mid
<1>8. /\ \A p \in Pipeline : p \in Moves(current, prev) <=>
             StageTo(current)[p] # "none" /\ StageTo(current)[p] # prev.stage[p]
  BY MovesAsk DEF Agree
<1>9. prev.tags \cap WorkflowOnly = {}
  BY <1>1 DEF Agree, Sound, RowSound
<1> DEFINE tk == NewSkipped
<1>17. /\ \A p \in Pipeline : p \in tk <=> p \in sk
       /\ \A f \in Field : f \in tk <=> IF FieldsOf(current)[f] # prev.fields[f]
                                       THEN f \notin known ELSE f \in sk
  BY DEF NewSkipped, Pipeline, Field
<1> HIDE DEF g, k, sk, tk, U
<1>10. TagsDue(g, s, U)
  <2>1. ASSUME NEW t \in (g.tags \ s.tags) \ WorkflowOnly
        PROVE  \E f \in U : t \in TagsDesired(f)
    <3>1. t \notin prev.tags /\ t \notin TagsDesired(current)
      BY <1>7 DEF NewTags, TagsToAdd
    <3>2. QED
      BY <1>5, <3>1 DEF TagsDue
  <2>2. ASSUME NEW t \in s.tags \ g.tags
        PROVE  t \notin NeverRemoved /\ \E f \in U : t \notin TagsDesired(f)
    <3>1. t \in prev.tags /\ t \notin push.remove
      BY <1>7 DEF NewTags
    <3>2. t \notin NeverRemoved /\ \E f \in U \cup {current} : t \notin TagsDesired(f)
      BY <1>5, <3>1 DEF TagsDue
    <3>3. t \in TagsDesired(current)
      BY <1>7, <3>1, <3>2 DEF TagsToRemove
    <3>4. QED
      BY <3>2, <3>3
  <2>3. QED
    BY <2>1, <2>2 DEF TagsDue
<1>11. FieldsDue(g, s, tk, U)
  BY <1>5, <1>7, <1>17 DEF FieldsDue
<1>12. StagesDue(g, s, tk, U)
  <2> SUFFICES ASSUME NEW p \in Pipeline \ tk
               PROVE  \/ g.stage[p] = s.stage[p]
                      \/ \E f \in U : StageTo(f)[p] # "none" /\ g.stage[p] = StageTo(f)[p]
    BY DEF StagesDue
  <2>4. p \notin sk
    BY <1>17
  <2>1. CASE p \in Moves(current, prev)
    BY <1>7, <1>8, <2>1, <2>4
  <2>2. CASE p \notin Moves(current, prev)
    <3>1. s.stage[p] = prev.stage[p]
      BY <1>8, <2>2
    <3>2. \/ g.stage[p] = prev.stage[p]
          \/ \E f \in U \cup {current} : StageTo(f)[p] # "none" /\ g.stage[p] = StageTo(f)[p]
      BY <1>5, <2>4 DEF StagesDue
    <3>3. QED
      BY <3>1, <3>2
  <2>3. QED
    BY <2>1, <2>2
<1>13. TagsDesired(current) \subseteq s.tags
  BY <1>7 DEF NewTags, TagsToAdd, TagsToRemove
<1>14. s.tags \ g.tags \subseteq TagsDesired(current)
  <2>1. ASSUME NEW t \in s.tags \ g.tags
        PROVE  t \in TagsDesired(current)
    <3>1. t \in prev.tags /\ t \notin push.remove
      BY <1>7 DEF NewTags
    <3>2. t \notin NeverRemoved
      BY <1>5, <3>1 DEF TagsDue
    <3>3. QED
      BY <1>7, <3>1, <3>2 DEF TagsToRemove
  <2>2. QED
    BY <2>1
<1>15. s.tags \cap WorkflowOnly = {}
  BY <1>9, WorkflowsOwn DEF NewTags, TagsToAdd
<1>16. QED
  BY <1>10, <1>11, <1>12, <1>13, <1>14, <1>15 DEF Explained, g, k, tk, U

LEMMA RecordAgree ==
    ASSUME IInv, Agree, Record
    PROVE  Agree'
<1> DEFINE k == txn[contact].id
           st == [p \in Pipeline |-> LET to == StagesDesired(current, prev.tags)[p]
                                     IN  IF to = "none" THEN prev.stage[p] ELSE to]
           s == [fields |-> FieldsOf(current), tags |-> NewTags, stage |-> st]
           sk == NewSkipped
           r == [txn[contact] EXCEPT !.snap = s, !.skipped = sk]
           U == unsure[contact]
<1>1. push \in Push /\ push.pc = "recording" /\ UNCHANGED <<row, ghl, known, unsure>>
  BY DEF Record, IInv, TypeOK
<1>2. /\ txn[contact] \in Row /\ contact \in Contact /\ k # NoId /\ k = txn[contact].id
      /\ k \in DOMAIN ghl /\ ghl[k].owner = contact
  BY <1>1, RowTypes, AtHand DEF Mid, IInv, Safe, Books
<1>3. /\ push'.pc = "visiting" /\ push'.touched = push.touched /\ push'.seen = push.seen
      /\ push'.ended = push.ended \cup {contact}
  BY <1>1 DEF Record, Push
<1>4. StagesDesired(current, prev.tags) = StageTo(current)
  BY MovesAsk DEF Agree
<1>5. /\ s.fields = FieldsOf(current) /\ s.tags = NewTags
      /\ \A p \in Pipeline : s.stage[p] = IF StageTo(current)[p] = "none" THEN prev.stage[p]
                                          ELSE StageTo(current)[p]
  BY <1>4
<1>6. txn' = [txn EXCEPT ![contact] = r]
  BY <1>1, <1>2 DEF Record, IInv, TypeOK
<1> HIDE DEF s, sk
<1>7. /\ r.id = k /\ r.snap = s /\ r.fresh = txn[contact].fresh
      /\ r.skipped = sk
  BY <1>2 DEF Row
<1> HIDE DEF r, k, U
<1>8. txn'[contact] = r /\ \A d \in Contact : d # contact => txn'[d] = txn[d]
  BY <1>6, RowAtHand
<1>9. /\ Explained(ghl[k], s, sk, U)
      /\ TagsDesired(current) \subseteq s.tags
      /\ s.tags \ ghl[k].tags \subseteq TagsDesired(current)
      /\ s.tags \cap WorkflowOnly = {}
  BY <1>1, <1>5, RecordExplained DEF k, U, sk
<1>10. Sound'
  <2>1. RowSound(r, ghl)
    BY <1>2, <1>7, <1>9 DEF Agree, Sound, RowSound
  <2>2. \A d \in Contact : RowSound(txn'[d], ghl) /\ row[d].fresh \subseteq txn'[d].fresh
    BY <1>7, <1>8, <2>1 DEF Agree, Sound
  <2>3. QED
    BY <1>1, <1>3, <2>2 DEF Agree, Sound
<1>11. Phases'
  BY <1>3 DEF Phases, Mid
<1>12. Ended'
  <2>1. Recorded(r, current, ghl)
    BY <1>2, <1>5, <1>7, <1>9 DEF Recorded
  <2>2. \A d \in push.ended : d \in Contact /\ d # contact
    BY <1>1 DEF IInv, Safe, Books, Mid, Push
  <2>3. \A d \in push.ended \cup {contact} : Recorded(txn'[d], push.seen[d], ghl)
    BY <1>8, <2>1, <2>2 DEF Agree, Ended, current
  <2>4. QED
    BY <1>1, <1>3, <2>3 DEF Ended
<1>13. Accounted(ghl, r, contact, U)
  <2> SUFFICES ASSUME NEW i \in DOMAIN ghl, ghl[i].owner = contact, contact \in Email \/ i = k
               PROVE  Explained(ghl[i], s, sk, U)
    BY <1>7 DEF Accounted
  <2>1. i = k
    BY <1>2 DEF IInv, Safe, OnePerEmail
  <2>2. QED
    BY <1>9, <2>1
<1>14. ASSUME NEW d \in Contact
       PROVE  /\ Accounted(ghl, row[d], d, Owed(d, push.touched)')
              /\ Accounted(ghl, txn'[d], d, Owed(d, push.touched \ push.ended)')
  <2>1. /\ Accounted(ghl, row[d], d, Owed(d, push.touched))
        /\ Accounted(ghl, txn[d], d, Owed(d, push.touched \ push.ended))
    BY DEF Agree, Explains
  <2>2. Owed(d, push.touched)' = Owed(d, push.touched)
    BY <1>1, <1>3 DEF Owed
  <2>3. CASE d = contact
    <3>1. Owed(d, push.touched \ push.ended)' = U
      BY <1>1, <1>3, <2>3 DEF Owed, U
    <3>2. QED
      BY <1>8, <1>13, <2>1, <2>2, <2>3, <3>1
  <2>4. CASE d # contact
    <3>1. Owed(d, push.touched \ push.ended)' = Owed(d, push.touched \ push.ended)
      BY <1>1, <1>3, <2>4 DEF Owed
    <3>2. QED
      BY <1>8, <2>1, <2>2, <2>4, <3>1
  <2>5. QED
    BY <2>3, <2>4
<1>15. Explains'
  BY <1>1, <1>14 DEF Explains
<1>16. QED
  BY <1>10, <1>11, <1>12, <1>15 DEF Agree

\* A contact found or created by an upsert shows nothing but the facts at hand
\* on top of what it showed.
LEMMA UpsertRow ==
    ASSUME IInv, push.pc = "upserting", NEW i \in Id, Upsert(i),
           NEW d, NEW r, NEW F, Asked(d) \subseteq F, Accounted(ghl, r, d, F),
           d = contact => r.snap = NoSnapshot
    PROVE  /\ Accounted(ghl', r, d, F)
           /\ d = contact => Explained(ghl'[i], r.snap, r.skipped, F)
<1>1. /\ i \in DOMAIN ghl' /\ ghl'[i].owner = contact
      /\ \A j \in DOMAIN ghl : ghl'[j].tags = ghl[j].tags /\ ghl'[j].stage = ghl[j].stage
      /\ \A j \in DOMAIN ghl' : j # i => j \in DOMAIN ghl /\ ghl'[j] = ghl[j]
      /\ i \in DOMAIN ghl => ghl[i].owner = contact /\ contact \in Email
      /\ ghl'[i].fields = Pushed(NoFields, FieldsOf(current),
                                 IF i \in DOMAIN ghl THEN ghl[i].fields ELSE NoFields)
      /\ i \notin DOMAIN ghl => ghl'[i].tags = {} /\ ghl'[i].stage = NoStages
  BY UpsertEffect
<1>2. ASSUME d = contact
      PROVE  Explained(ghl'[i], r.snap, r.skipped, F)
  <2> DEFINE h == ghl'[i]
             g == ghl[i]
             f == current
  <2>1. {f} \subseteq F
    BY <1>2 DEF Asked, Mid
  <2>2. CASE i \in DOMAIN ghl
    <3>1. h.fields = Pushed(NoFields, FieldsOf(f), g.fields) /\ h.tags = g.tags
          /\ h.stage = g.stage
      BY <1>1, <2>2
    <3>2. Explained(g, r.snap, r.skipped, F)
      BY <1>1, <1>2, <2>2 DEF Accounted
    <3> HIDE DEF h, g, f
    <3>3. Explained(h, g, {}, {f})
      BY <3>1, FieldsPushed
    <3>4. Explained(h, g, {}, F)
      BY <2>1, <3>3, MoreExplained
    <3>5. QED
      BY <3>2, <3>4, ThenExplained DEF h, g
  <2>3. CASE i \notin DOMAIN ghl
    <3> DEFINE n == NoSnapshot
    <3>1. n.tags = {} /\ n.fields = NoFields /\ n.stage = NoStages /\ r.snap = n
      BY <1>2 DEF NoSnapshot
    <3>2. h.fields = Pushed(NoFields, FieldsOf(f), n.fields) /\ h.tags = n.tags
          /\ h.stage = n.stage
      BY <1>1, <2>3, <3>1
    <3> HIDE DEF h, n, f
    <3>3. Explained(h, n, {}, {f})
      BY <3>2, FieldsPushed
    <3>4. Explained(h, n, r.skipped, F)
      BY <2>1, <3>3, MoreExplained
    <3>5. QED
      BY <3>1, <3>4 DEF h
  <2>4. QED
    BY <2>2, <2>3
<1>3. Accounted(ghl', r, d, F)
  <2> SUFFICES ASSUME NEW j \in DOMAIN ghl', ghl'[j].owner = d, d \in Email \/ j = r.id
               PROVE  Explained(ghl'[j], r.snap, r.skipped, F)
    BY DEF Accounted
  <2>1. CASE j = i
    BY <1>1, <1>2, <2>1
  <2>2. CASE j # i
    BY <1>1, <2>2 DEF Accounted
  <2>3. QED
    BY <2>1, <2>2
<1>4. QED
  BY <1>2, <1>3

LEMMA UpsertServes ==
    ASSUME IInv, Agree, push.pc = "upserting", NEW i \in Id, Upsert(i)
    PROVE  /\ Losses
           /\ \A d \in Contact :
                 /\ Accounted(ghl', row[d], d, Owed(d, push.touched))
                 /\ Accounted(ghl', txn[d], d, Owed(d, push.touched \ push.ended))
           /\ Explained(ghl'[i], txn[contact].snap, txn[contact].skipped,
                        Owed(contact, push.touched \ push.ended))
           /\ txn[contact].snap = NoSnapshot /\ txn[contact].fresh = {}
<1>1. Losses
  BY UpsertEffect DEF Losses
<1>2. contact \in Contact /\ contact \notin push.ended /\ txn[contact].id = NoId
  BY RowTypes DEF IInv, Safe, Books, Mid
<1>3. txn[contact].snap = NoSnapshot /\ txn[contact].fresh = {}
  BY <1>2 DEF Agree, Sound, RowSound
<1>4. row[contact].snap = NoSnapshot
  BY <1>2, <1>3 DEF IInv, Safe, Books
<1>5. ASSUME NEW d \in Contact
      PROVE  /\ Accounted(ghl', row[d], d, Owed(d, push.touched))
             /\ Accounted(ghl', txn[d], d, Owed(d, push.touched \ push.ended))
             /\ d = contact => Explained(ghl'[i], txn[d].snap, txn[d].skipped,
                                         Owed(d, push.touched \ push.ended))
  <2> DEFINE F == Owed(d, push.touched)
             G == Owed(d, push.touched \ push.ended)
  <2>1. Asked(d) \subseteq F /\ Asked(d) \subseteq G
    BY AskedIsOwed
  <2>2. Accounted(ghl, row[d], d, F) /\ Accounted(ghl, txn[d], d, G)
    BY DEF Agree, Explains
  <2>3. d = contact => row[d].snap = NoSnapshot /\ txn[d].snap = NoSnapshot
    BY <1>3, <1>4
  <2> HIDE DEF F, G
  <2>4. Accounted(ghl', row[d], d, F)
    BY <2>1, <2>2, <2>3, UpsertRow
  <2>5. /\ Accounted(ghl', txn[d], d, G)
        /\ d = contact => Explained(ghl'[i], txn[d].snap, txn[d].skipped, G)
    BY <2>1, <2>2, <2>3, UpsertRow
  <2>6. QED
    BY <2>4, <2>5 DEF F, G
<1>6. QED
  BY <1>1, <1>2, <1>3, <1>5

LEMMA UpsertAgree ==
    ASSUME IInv, IInv', Agree, UpsertContact
    PROVE  Agree'
<1>1. push \in Push /\ push.pc = "upserting" /\ UNCHANGED <<row, known, unsure>>
  BY DEF UpsertContact, IInv, TypeOK
<1>2. PICK i \in Id : Upsert(i) /\ txn' = [txn EXCEPT ![contact].id = i]
  BY DEF UpsertContact
<1> DEFINE r == [txn[contact] EXCEPT !.id = i]
           F == Owed(contact, push.touched \ push.ended)
<1>3. /\ push'.pc = "adding" /\ push'.at = push.at /\ push'.moves = push.moves /\ SameBatch
  BY <1>1 DEF UpsertContact, Push, SameBatch
<1>4. txn[contact] \in Row /\ contact \in Contact /\ txn' = [txn EXCEPT ![contact] = r]
  BY <1>2, RowTypes DEF IInv
<1>5. /\ r.id = i /\ r.snap = txn[contact].snap /\ r.fresh = txn[contact].fresh
      /\ r.skipped = txn[contact].skipped
  BY <1>4 DEF Row
<1> HIDE DEF r, F
<1>6. txn'[contact] = r /\ \A d \in Contact : d # contact => txn'[d] = txn[d]
  BY <1>4, RowAtHand
<1>7. /\ Losses
      /\ \A d \in Contact : /\ Accounted(ghl', row[d], d, Owed(d, push.touched))
                            /\ Accounted(ghl', txn[d], d, Owed(d, push.touched \ push.ended))
      /\ Explained(ghl'[i], txn[contact].snap, txn[contact].skipped, F)
      /\ txn[contact].snap = NoSnapshot /\ txn[contact].fresh = {}
  BY <1>1, <1>2, UpsertServes DEF F
<1>8. /\ \A d \in Contact : /\ RowSound(row[d], ghl') /\ RowSound(txn[d], ghl')
                            /\ row[d].fresh \subseteq txn[d].fresh
      /\ \A d \in push.ended : Recorded(txn[d], push.seen[d], ghl')
  BY <1>7, LossesSound DEF Agree, Sound
<1>9. i # NoId /\ i \in DOMAIN ghl' /\ ghl'[i].owner = contact
  BY <1>2, UpsertEffect, ContactSyncAssumption DEF Id, NoId
<1>10. Sound'
  <2>1. RowSound(r, ghl') /\ r.fresh = {}
    BY <1>5, <1>7, <1>9 DEF RowSound, NoSnapshot
  <2>2. \A d \in Contact : RowSound(txn'[d], ghl') /\ row[d].fresh \subseteq txn'[d].fresh
    BY <1>5, <1>6, <1>8, <2>1
  <2>3. QED
    BY <1>1, <1>3, <1>8, <2>2 DEF Sound
<1>11. contact' = contact /\ current' = current /\ prev' = prev /\ prev.fields = NoFields
  BY <1>3, <1>5, <1>6, <1>7 DEF contact, current, prev, SameBatch, NoSnapshot
<1>12. Phases'
  <2>1. push.moves = Moves(current, prev)
    BY <1>1 DEF Agree, Phases, Mid
  <2>2. Moves(current, prev)' = Moves(current, prev)
    BY <1>11 DEF Moves
  <2>3. \A k \in Field \cap known : FieldsOf(current)[k] # prev.fields[k] =>
           ghl'[i].fields[k] = FieldsOf(current)[k]
    <3>1. ghl'[i].fields = Pushed(NoFields, FieldsOf(current),
                                  IF i \in DOMAIN ghl THEN ghl[i].fields ELSE NoFields)
      BY <1>2, UpsertEffect
    <3>2. QED
      BY <1>11, <3>1 DEF Pushed
  <2>4. Done(ghl[i])'
    <3>1. i' = i
      OBVIOUS
    <3>2. QED
      BY <1>1, <1>3, <1>11, <2>3 DEF Done
  <2>5. txn'[contact'].id = i
    BY <1>5, <1>6, <1>11
  <2>6. QED
    BY <1>3, <2>1, <2>2, <2>4, <2>5 DEF Phases
<1>13. Ended'
  <2>1. \A d \in push.ended : d \in Contact /\ d # contact
    BY <1>1 DEF IInv, Safe, Books, Mid, Push
  <2>2. QED
    BY <1>3, <1>6, <1>8, <2>1 DEF Ended, SameBatch
<1>14. Accounted(ghl', r, contact, F)
  <2> SUFFICES ASSUME NEW j \in DOMAIN ghl', ghl'[j].owner = contact, contact \in Email \/ j = i
               PROVE  Explained(ghl'[j], r.snap, r.skipped, F)
    BY <1>5 DEF Accounted
  <2>1. j = i
    BY <1>9 DEF IInv, Safe, OnePerEmail
  <2>2. QED
    BY <1>5, <1>7, <2>1
<1>15. Explains'
  <2> SUFFICES ASSUME NEW d \in Contact
               PROVE  /\ Accounted(ghl', row'[d], d, Owed(d, push.touched)')
                      /\ Accounted(ghl', txn'[d], d, Owed(d, push.touched \ push.ended)')
    BY DEF Explains
  <2>1. /\ Owed(d, push.touched)' = Owed(d, push.touched)
        /\ Owed(d, push.touched \ push.ended)' = Owed(d, push.touched \ push.ended)
    BY <1>3, SameOwed
  <2>2. Accounted(ghl', txn'[d], d, Owed(d, push.touched \ push.ended))
    BY <1>6, <1>7, <1>14 DEF F
  <2>3. QED
    BY <1>1, <1>7, <2>1, <2>2
<1>16. QED
  BY <1>10, <1>12, <1>13, <1>15 DEF Agree

LEMMA LostAgree ==
    ASSUME IInv, Agree, AnswerLost
    PROVE  Agree'
<1>1. GiveUp("visiting") /\ UNCHANGED <<row, txn, known, unsure>> /\ InCall
  BY DEF AnswerLost
<1>2. push'.pc = "visiting" /\ SameBatch
  <2>1. "visiting" \in {"visiting", "closing"} /\ unsure' = unsure /\ push \in Push
    BY <1>1 DEF IInv, TypeOK
  <2>2. QED
    BY <1>1, <2>1 DEF GiveUp, Push, SameBatch
<1>3. CASE push.pc = "upserting"
  <2>1. PICK i \in Id : Upsert(i)
    BY <1>3 DEF AnswerLost
  <2>2. /\ Losses
        /\ \A d \in Contact : /\ Accounted(ghl', row[d], d, Owed(d, push.touched))
                              /\ Accounted(ghl', txn[d], d, Owed(d, push.touched \ push.ended))
    BY <1>3, <2>1, UpsertServes
  <2>3. /\ \A d \in Contact : RowSound(row[d], ghl') /\ RowSound(txn[d], ghl')
        /\ \A d \in push.ended : Recorded(txn[d], push.seen[d], ghl')
    BY <2>2, LossesSound
  <2>4. Sound' /\ Ended' /\ Phases'
    BY <1>1, <1>2, <2>3 DEF Agree, Sound, Ended, Phases, Mid, SameBatch
  <2>5. \A d \in Contact :
           /\ Owed(d, push.touched)' = Owed(d, push.touched)
           /\ Owed(d, push.touched \ push.ended)' = Owed(d, push.touched \ push.ended)
    BY <1>2, SameOwed
  <2>6. Explains'
    BY <1>1, <2>2, <2>5 DEF Explains
  <2>7. QED
    BY <2>4, <2>6 DEF Agree
<1>4. CASE push.pc # "upserting"
  <2>1. Serves /\ Losses
    <3>1. CASE push.pc = "updating"
      BY <3>1, FieldsServe DEF AnswerLost
    <3>2. CASE push.pc = "adding"
      BY <3>2, AddServes DEF AnswerLost
    <3>3. CASE push.pc = "removing"
      BY <3>3, RemoveServes DEF AnswerLost, Agree
    <3>4. CASE push.pc = "moving"
      BY <3>4, MoveServes DEF AnswerLost, Agree
    <3>5. QED
      BY <1>1, <1>4, <3>1, <3>2, <3>3, <3>4 DEF InCall
  <2>2. QED
    BY <1>1, <1>2, <2>1, TurnsAgree
<1>5. QED
  BY <1>3, <1>4

\* Between batches both rows are the same, and owe what is in doubt.
LEMMA IdleAgree ==
    ASSUME push' = NoPush, row' = txn', UNCHANGED ghl,
           \A d \in Contact : RowSound(row'[d], ghl),
           \A d \in Contact : Accounted(ghl, row'[d], d, unsure'[d])
    PROVE  Agree'
<1>1. push'.pc = "idle" /\ push'.touched = {} /\ push'.ended = {}
  BY DEF NoPush
<1>2. Sound'
  BY <1>1 DEF Sound
<1>3. Explains'
  <2> SUFFICES ASSUME NEW d \in Contact
               PROVE  /\ Accounted(ghl', row'[d], d, Owed(d, push.touched)')
                      /\ Accounted(ghl', txn'[d], d, Owed(d, push.touched \ push.ended)')
    BY DEF Explains
  <2>1. /\ Owed(d, push.touched)' = unsure'[d]
        /\ Owed(d, push.touched \ push.ended)' = unsure'[d]
    BY <1>1 DEF Owed
  <2>2. QED
    BY <2>1
<1>4. Phases' /\ Ended'
  BY <1>1 DEF Phases, Ended, Mid
<1>5. QED
  BY <1>2, <1>3, <1>4 DEF Agree

LEMMA CommitAgree ==
    ASSUME IInv, Agree, Commit
    PROVE  Agree'
<1> DEFINE begun == push.touched \ push.ended
<1>1. /\ row' = txn /\ txn' = txn /\ UNCHANGED ghl /\ push' = NoPush
      /\ unsure' = Doubt(begun, push.ended)
  BY DEF Commit
<1>2. \A d \in Contact : RowSound(txn[d], ghl)
  BY DEF Agree, Sound
<1>3. ASSUME NEW d \in Contact
      PROVE  Accounted(ghl, txn[d], d, unsure'[d])
  <2>1. Accounted(ghl, txn[d], d, Owed(d, begun))
    BY DEF Agree, Explains
  <2>2. unsure'[d] = IF d \in begun THEN unsure[d] \cup {push.seen[d]}
                     ELSE IF d \in push.ended /\ unsure[d] \subseteq {push.seen[d]} THEN {}
                     ELSE unsure[d]
    BY <1>1 DEF Doubt
  <2>3. CASE d \in begun
    <3>1. Owed(d, begun) = unsure'[d]
      BY <2>2, <2>3 DEF Owed
    <3>2. QED
      BY <2>1, <3>1
  <2>4. CASE d \notin begun /\ ~(d \in push.ended /\ unsure[d] \subseteq {push.seen[d]})
    <3>1. Owed(d, begun) = unsure'[d]
      BY <2>2, <2>4 DEF Owed
    <3>2. QED
      BY <2>1, <3>1
  <2>5. CASE d \notin begun /\ d \in push.ended /\ unsure[d] \subseteq {push.seen[d]}
    <3> DEFINE r == txn[d]
               f == push.seen[d]
               U == unsure[d]
    <3>1. Owed(d, begun) = U /\ unsure'[d] = {} /\ U \subseteq {f}
      BY <2>2, <2>5 DEF Owed
    <3>2. Recorded(r, f, ghl)
      BY <2>5 DEF Agree, Ended
    <3>3. LinkOK(r, d)
      BY DEF IInv, Safe, Links
    <3>4. r.id \in DOMAIN ghl /\ ghl[r.id].owner = d
      BY <3>2, <3>3 DEF Recorded, LinkOK
    <3>5. Accounted(ghl, r, d, U)
      BY <2>1, <3>1
    <3> HIDE DEF r, f, U
    <3>6. ASSUME NEW i \in DOMAIN ghl, ghl[i].owner = d, d \in Email \/ i = r.id
          PROVE  Explained(ghl[i], r.snap, r.skipped, {})
      <4>1. i = r.id
        BY <3>4, <3>6 DEF IInv, Safe, OnePerEmail
      <4>2. Explained(ghl[r.id], r.snap, r.skipped, U)
        BY <3>4, <3>5 DEF Accounted
      <4>3. QED
        BY <3>1, <3>2, <4>1, <4>2, NothingDue
    <3>7. Accounted(ghl, r, d, {})
      BY <3>6 DEF Accounted
    <3>8. QED
      BY <3>1, <3>7 DEF r
  <2>6. QED
    BY <2>3, <2>4, <2>5
<1>4. QED
  BY <1>1, <1>2, <1>3, IdleAgree

LEMMA AbortAgree ==
    ASSUME IInv, Agree, Abort
    PROVE  Agree'
<1>1. /\ row' = row /\ txn' = row /\ UNCHANGED ghl /\ push' = NoPush
      /\ unsure' = Doubt(push.touched, {})
  BY DEF Abort
<1>2. \A d \in Contact : RowSound(row[d], ghl)
  BY DEF Agree, Sound
<1>3. ASSUME NEW d \in Contact
      PROVE  Accounted(ghl, row[d], d, unsure'[d])
  <2>1. Accounted(ghl, row[d], d, Owed(d, push.touched))
    BY DEF Agree, Explains
  <2>2. unsure'[d] = IF d \in push.touched THEN unsure[d] \cup {push.seen[d]} ELSE unsure[d]
    BY <1>1 DEF Doubt
  <2>3. Owed(d, push.touched) = unsure'[d]
    BY <2>2 DEF Owed
  <2>4. QED
    BY <2>1, <2>3
<1>4. QED
  BY <1>1, <1>2, <1>3, IdleAgree

\* What workflows and the clock do: tags of workflows come, timestamps go.
LEMMA OthersAgree ==
    ASSUME IInv, Agree, UNCHANGED <<push, known, unsure>>,
           DOMAIN ghl' = DOMAIN ghl,
           \A j \in DOMAIN ghl : /\ ghl'[j].owner = ghl[j].owner
                                 /\ ghl'[j].fields = ghl[j].fields
                                 /\ ghl'[j].stage = ghl[j].stage
                                 /\ ghl[j].tags \subseteq ghl'[j].tags
                                 /\ ghl'[j].tags \ ghl[j].tags \subseteq WorkflowOnly,
           \A d \in Contact : /\ row'[d].id = row[d].id /\ row'[d].snap = row[d].snap
                              /\ row'[d].skipped = row[d].skipped
                              /\ row'[d].fresh \subseteq row[d].fresh
                              /\ row'[d].fresh \subseteq txn'[d].fresh,
           \A d \in Contact : /\ txn'[d].id = txn[d].id /\ txn'[d].snap = txn[d].snap
                              /\ txn'[d].skipped = txn[d].skipped
                              /\ txn'[d].fresh \subseteq txn[d].fresh
    PROVE  Agree'
<1> DEFINE k == txn[contact].id
<1>1. Serves
  <2>1. ASSUME NEW j \in DOMAIN ghl
        PROVE  Explained(ghl'[j], ghl[j], {}, Asked(ghl[j].owner))
    BY DEF Explained, TagsDue, FieldsDue, StagesDue
  <2>2. QED
    BY <2>1 DEF Serves
<1>2. Losses
  BY DEF Losses
<1>3. SameRows /\ SameBatch
  BY DEF SameRows, SameBatch
<1>4. Explains'
  BY <1>1, <1>3, ServesExplains DEF Agree
<1>5. /\ \A d \in Contact : RowSound(row[d], ghl') /\ RowSound(txn[d], ghl')
      /\ \A d \in push.ended : d \in Contact /\ Recorded(txn[d], push.seen[d], ghl')
  BY <1>2, LossesSound, RowTypes DEF IInv, Push
<1>6. Sound'
  <2>1. \A d \in Contact : RowSound(row'[d], ghl')
    BY <1>5 DEF RowSound
  <2>2. \A d \in Contact : RowSound(txn'[d], ghl')
    BY <1>5 DEF RowSound
  <2>3. QED
    BY <2>1, <2>2 DEF Agree, Sound
<1>7. Ended'
  BY <1>5 DEF Ended, Recorded
<1>8. contact' = contact /\ current' = current /\ prev' = prev /\ contact \in Contact
  BY RowTypes DEF IInv, contact, current, prev
<1>9. Phases'
  <2>1. /\ Moves(current, prev)' = Moves(current, prev)
        /\ TagsToAdd(current, prev)' = TagsToAdd(current, prev)
        /\ TagsToRemove(current, prev)' = TagsToRemove(current, prev)
        /\ StageTo(current)' = StageTo(current)
    BY <1>8 DEF Moves, TagsToAdd, TagsToRemove, StageTo
  <2>2. k' = k /\ txn'[contact].skipped = txn[contact].skipped
    BY <1>8
  <2>3. ASSUME push.pc \in Mid \ {"upserting"}
        PROVE  Done(ghl[k])'
    <3>1. k \in DOMAIN ghl /\ Done(ghl[k])
      BY <2>3, AtHand DEF Agree, Phases
    <3>2. push.remove \cap WorkflowOnly = {}
      BY WorkflowTagsKept DEF IInv, Safe, Guarded
    <3> HIDE DEF k
    <3>3. /\ ghl'[k].fields = ghl[k].fields /\ ghl'[k].stage = ghl[k].stage
          /\ ghl[k].tags \subseteq ghl'[k].tags
          /\ ghl'[k].tags \ ghl[k].tags \subseteq WorkflowOnly
      BY <3>1
    <3>4. push.remove \cap ghl[k].tags = {} => push.remove \cap ghl'[k].tags = {}
      BY <3>2, <3>3
    <3>5. QED
      BY <1>8, <2>1, <2>2, <3>1, <3>3, <3>4 DEF Done
  <2>4. QED
    BY <1>8, <2>1, <2>2, <2>3 DEF Agree, Phases
<1>10. QED
  BY <1>4, <1>6, <1>7, <1>9 DEF Agree

LEMMA ExpireAgree ==
    ASSUME IInv, Agree, NEW e \in Contact, GuardExpires(e)
    PROVE  Agree'
<1>1. UNCHANGED <<push, known, unsure>>
  BY DEF GuardExpires
<1>2. \A q \in Row : /\ [q EXCEPT !.fresh = {}].id = q.id
                     /\ [q EXCEPT !.fresh = {}].snap = q.snap
                     /\ [q EXCEPT !.fresh = {}].skipped = q.skipped
                     /\ [q EXCEPT !.fresh = {}].fresh = {}
  BY DEF Row
<1>3. /\ row \in [Contact -> Row] /\ txn \in [Contact -> Row]
      /\ row' = [row EXCEPT ![e] = [row[e] EXCEPT !.fresh = {}]]
      /\ txn' = [txn EXCEPT ![e] = [txn[e] EXCEPT !.fresh = {}]]
  BY DEF GuardExpires, IInv, TypeOK
<1>4. \A d \in Contact : row[d].fresh \subseteq txn[d].fresh
  BY DEF Agree, Sound
<1>5. \A d \in Contact : /\ row'[d].id = row[d].id /\ row'[d].snap = row[d].snap
                         /\ row'[d].skipped = row[d].skipped
                         /\ row'[d].fresh = IF d = e THEN {} ELSE row[d].fresh
  BY <1>2, <1>3
<1>6. \A d \in Contact : /\ txn'[d].id = txn[d].id /\ txn'[d].snap = txn[d].snap
                         /\ txn'[d].skipped = txn[d].skipped
                         /\ txn'[d].fresh = IF d = e THEN {} ELSE txn[d].fresh
  BY <1>2, <1>3
<1>7. \A g \in GhlContact : /\ [g EXCEPT !.fresh = {}].owner = g.owner
                            /\ [g EXCEPT !.fresh = {}].fields = g.fields
                            /\ [g EXCEPT !.fresh = {}].stage = g.stage
                            /\ [g EXCEPT !.fresh = {}].tags = g.tags
  BY DEF GhlContact
<1>8. /\ DOMAIN ghl' = DOMAIN ghl
      /\ \A j \in DOMAIN ghl : /\ ghl'[j].owner = ghl[j].owner
                               /\ ghl'[j].fields = ghl[j].fields
                               /\ ghl'[j].stage = ghl[j].stage
                               /\ ghl'[j].tags = ghl[j].tags
  BY <1>7, GhlTypes DEF GuardExpires
<1>9. QED
  BY <1>1, <1>4, <1>5, <1>6, <1>8, OthersAgree

LEMMA WorkflowAgree ==
    ASSUME IInv, Agree, NEW i \in DOMAIN ghl, NEW t \in WorkflowOnly, WorkflowTags(i, t)
    PROVE  Agree'
<1>1. UNCHANGED <<row, txn, push, known, unsure>>
  BY DEF WorkflowTags
<1>2. /\ Touches(i) /\ ghl'[i].tags = ghl[i].tags \cup {t}
      /\ ghl'[i].fields = ghl[i].fields /\ ghl'[i].stage = ghl[i].stage
  BY WorkflowEffect
<1>3. /\ DOMAIN ghl' = DOMAIN ghl
      /\ \A j \in DOMAIN ghl : /\ ghl'[j].owner = ghl[j].owner
                               /\ ghl'[j].fields = ghl[j].fields
                               /\ ghl'[j].stage = ghl[j].stage
                               /\ ghl[j].tags \subseteq ghl'[j].tags
                               /\ ghl'[j].tags \ ghl[j].tags \subseteq WorkflowOnly
  BY <1>2 DEF Touches
<1>4. \A d \in Contact : row[d].fresh \subseteq txn[d].fresh
  BY DEF Agree, Sound
<1>5. QED
  BY <1>1, <1>3, <1>4, OthersAgree

LEMMA NextAgree ==
    ASSUME IInv, IInv', Agree, [Next]_vars
    PROVE  Agree'
<1>1. CASE Start \/ BatchEnds \/ UpsertContact \/ UpdateContact \/ AddTags \/ RemoveTags
  BY <1>1, StartAgree, BatchEndsAgree, UpsertAgree, UpdateAgree, AddAgree, RemoveAgree
<1>2. CASE Record \/ CallRefused \/ AnswerLost \/ Commit \/ Abort
  BY <1>2, RecordAgree, RefusedAgree, LostAgree, CommitAgree, AbortAgree
<1>3. ASSUME NEW d \in Contact, GuardExpires(d) PROVE Agree'
  BY <1>3, ExpireAgree
<1>4. ASSUME NEW d \in push.todo, Visit(d) PROVE Agree'
  BY <1>4, VisitAgree
<1>5. ASSUME NEW p \in Pipeline, MovePipeline(p) PROVE Agree'
  BY <1>5, MoveAgree
<1>6. ASSUME NEW x \in Pipeline \cup Field, Appears(x) PROVE Agree'
  BY <1>6, QuietAgree DEF Appears, Mid
<1>7. ASSUME NEW i \in DOMAIN ghl, NEW t \in WorkflowOnly, WorkflowTags(i, t) PROVE Agree'
  BY <1>7, WorkflowAgree
<1>8. CASE UNCHANGED vars
  BY <1>8, QuietAgree DEF vars
<1>9. QED
  BY <1>1, <1>2, <1>3, <1>4, <1>5, <1>6, <1>7, <1>8 DEF Next

\* The agreement of GHL, table, transaction and batch holds in every reachable
\* state.
THEOREM Agreement == Spec => []Agree
<1>1. IInv /\ IInv' /\ Agree /\ [Next]_vars => Agree'
  BY NextAgree
<1>2. QED
  BY <1>1, InitAgree, Invariance, PTL DEF Spec

\* Between batches, a contact nothing is in doubt about shows its snapshot.
LEMMA AgreementHeals ==
    ASSUME IInv, Agree
    PROVE  RepeatHeals
<1> SUFFICES ASSUME push.pc = "idle", NEW d \in Contact, row[d].id # NoId, unsure[d] = {}
             PROVE  LET g == ghl[row[d].id]
                        s == row[d].snap
                    IN  /\ g.tags \ WorkflowOnly = s.tags
                        /\ \A k \in Field \ row[d].skipped : g.fields[k] = s.fields[k]
                        /\ \A p \in Pipeline \ row[d].skipped : g.stage[p] = s.stage[p]
  BY DEF RepeatHeals
<1> DEFINE g == ghl[row[d].id]
           s == row[d].snap
<1>1. Owed(d, push.touched) = {}
  BY DEF Agree, Sound, Owed
<1>2. LinkOK(row[d], d)
  BY DEF IInv, Safe, Links
<1>3. row[d].id \in DOMAIN ghl /\ g.owner = d
  BY <1>2 DEF LinkOK
<1>4. Explained(g, s, row[d].skipped, {})
  BY <1>1, <1>3 DEF Agree, Explains, Accounted
<1>5. /\ TagsDue(g, s, {}) /\ FieldsDue(g, s, row[d].skipped, {})
      /\ StagesDue(g, s, row[d].skipped, {})
  BY <1>4 DEF Explained
<1>6. s.tags \cap WorkflowOnly = {}
  BY DEF Agree, Sound, RowSound
<1> HIDE DEF g, s
<1>7. g.tags \ WorkflowOnly = s.tags
  BY <1>5, <1>6 DEF TagsDue
<1>8. \A k \in Field \ row[d].skipped : g.fields[k] = s.fields[k]
  BY <1>5 DEF FieldsDue
<1>9. \A p \in Pipeline \ row[d].skipped : g.stage[p] = s.stage[p]
  BY <1>5 DEF StagesDue
<1>10. QED
  BY <1>7, <1>8, <1>9 DEF g, s

\* Repeating a push to its end with the same facts sets GHL right, by whatever
\* path it failed before: refused, unanswered, rolled back, cut off by a crash or
\* by an authorisation error; but for stages and fields that GHL could not take when
\* they were pushed, which the snapshot has as set (sync_contact, and
\* sync_all_contacts_for_location).
THEOREM Heals == Spec => []RepeatHeals
<1>1. IInv /\ Agree => RepeatHeals
  BY AgreementHeals
<1>2. QED
  BY <1>1, Invariance, Agreement, PTL

\* Where GHL and the snapshot of a contact differ, the difference was asked for by
\* a push of that contact that is under way, was rolled back or did not end well:
\* no tag, value or stage is lost or got by any other way, except those left out
\* for want of the pipeline or of the field's key (skipped).
THEOREM Owes == Spec => []Explains
<1>1. Agree => Explains
  BY DEF Agree
<1>2. QED
  BY <1>1, Agreement, PTL

\* The next delta of the same facts is empty, but for removals GHL still needs.
NothingLeft(d) ==
    LET f == push.seen[d]
        s == txn[d].snap
    IN  /\ FieldsOf(f) = s.fields /\ TagsToAdd(f, s) = {} /\ Moves(f, s) = {}
        /\ TagsToRemove(f, s) \subseteq ghl[txn[d].id].tags

LEMMA EndedLeavesNothing ==
    ASSUME IInv, Agree, NEW d \in push.ended
    PROVE  NothingLeft(d)
<1> DEFINE f == push.seen[d]
           s == txn[d].snap
<1>1. d \in Contact
  BY RowTypes DEF IInv, Push
<1>2. Recorded(txn[d], f, ghl) /\ s.tags \cap WorkflowOnly = {}
  BY <1>1 DEF Agree, Ended, Sound, RowSound
<1>3. StagesDesired(f, s.tags) = StageTo(f)
  BY <1>2, StagesAsked
<1>4. /\ FieldsOf(f) = s.fields /\ TagsDesired(f) \subseteq s.tags
      /\ s.tags \ ghl[txn[d].id].tags \subseteq TagsDesired(f)
      /\ \A p \in Pipeline : StageTo(f)[p] # "none" => s.stage[p] = StageTo(f)[p]
  BY <1>2 DEF Recorded
<1>5. Moves(f, s) = {}
  BY <1>3, <1>4 DEF Moves
<1>6. TagsToAdd(f, s) = {} /\ TagsToRemove(f, s) \subseteq ghl[txn[d].id].tags
  BY <1>4 DEF TagsToAdd, TagsToRemove
<1>7. QED
  BY <1>4, <1>5, <1>6 DEF NothingLeft

\* A push that ended has nothing left to do: run again on the same facts,
\* compute_delta finds only removals that the 60 s guard has put off, and those
\* tags are still in GHL.
THEOREM Settles == Spec => [](\A d \in push.ended : NothingLeft(d))
<1>1. IInv /\ Agree => \A d \in push.ended : NothingLeft(d)
  BY EndedLeavesNothing
<1>2. QED
  BY <1>1, Invariance, Agreement, PTL

=============================================================================
