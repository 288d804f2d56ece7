----------------------------- MODULE ContactSync ------------------------------
(***************************************************************************)
(* The GHL push of a sync run (app/ghl/sync.py): for every contact of the  *)
(* location, compare the row with the snapshot of what was pushed before,  *)
(* make the calls that differ, and record a new snapshot.                  *)
(*                                                                         *)
(* GHL changes with every call, the rows only when the run commits, so a   *)
(* push that fails leaves the two apart.  Pushes of one location do not    *)
(* overlap (SyncRun, PushesSerialised): there is one at a time here.       *)
(***************************************************************************)
EXTENDS Naturals, ContactFlags

CONSTANTS Contact,     \* rows of the location
          Email,       \* the contacts that have an email address
          Facts,       \* what an ingest may find about a contact
          Missing,     \* the pipelines and custom fields the sub-account lacks at first
          MaxId,       \* bound: contacts ever created in GHL
          Faults       \* which failures may happen

ASSUME ContactSyncAssumption ==
    /\ Contact # {} /\ Email \subseteq Contact
    /\ Facts # {} /\ Facts \subseteq Fact
    /\ Missing \subseteq Pipeline \cup Field
    /\ MaxId \in Nat
    /\ Faults \subseteq {"refused", "timeout", "auth", "database", "crash"}

VARIABLES row,     \* the committed contacts: GHL id, snapshot, tag timestamps
          txn,     \* the rows as the open transaction sees them
          push,    \* the push under way
          ghl,     \* the contacts in the GHL sub-account
          known,   \* the pipelines and custom fields configured there
          unsure   \* for each contact, the facts of pushes that did not end well

vars == <<row, txn, push, ghl, known, unsure>>

Id == 1..MaxId
NoId == 0

TagName == (UNION {TagsDesired(f) : f \in Facts}) \cup {"trial-not-converted"}
WorkflowOnly == {"trial-not-converted"}
Values == [Field -> {"none", "trial", "card", "membership", "other", "some", "zero"}]
Stages == [Pipeline -> Stage]

NoFields == [k \in Field |-> "none"]
NoStages == [p \in Pipeline |-> "none"]
NoSnapshot == [fields |-> NoFields, tags |-> {}, stage |-> NoStages]

\* ghl_prev_state
Snapshot == [fields : Values, tags : SUBSET TagName, stage : Stages]

\* fresh: tags whose timestamp is less than 60 seconds old; skipped (history):
\* pipelines and fields whose stage or value in the snapshot was never set in GHL.
Row == [id : Id \cup {NoId}, snap : Snapshot, fresh : SUBSET TagName,
        skipped : SUBSET (Pipeline \cup Field)]

\* fresh: tags an add call asked for less than 60 seconds ago.
GhlContact == [owner : Contact, fields : Values, tags : SUBSET TagName, stage : Stages,
               fresh : SUBSET TagName]

\* at: the contact being pushed; remove: the removals the guard lets pass; moves:
\* those still to make; todo, touched, ended: contacts not yet visited, visited
\* with something to push, and pushed without an error.
Pc == {"idle", "visiting", "upserting", "updating", "adding", "removing", "moving", "recording",
       "closing"}
Push == [pc : Pc, seen : [Contact -> Facts], at : Contact, remove : SUBSET TagName,
         moves : SUBSET Pipeline, todo : SUBSET Contact, touched : SUBSET Contact,
         ended : SUBSET Contact]

TypeOK ==
    /\ row \in [Contact -> Row]
    /\ txn \in [Contact -> Row]
    /\ push \in Push
    /\ DOMAIN ghl \subseteq Id /\ \A i \in DOMAIN ghl : ghl[i] \in GhlContact
    /\ known \subseteq Pipeline \cup Field
    /\ unsure \in [Contact -> SUBSET Facts]

NoPush == [pc |-> "idle", seen |-> [c \in Contact |-> CHOOSE f \in Facts : TRUE],
           at |-> CHOOSE c \in Contact : TRUE, remove |-> {}, moves |-> {}, todo |-> {},
           touched |-> {}, ended |-> {}]

Init ==
    /\ row = [c \in Contact |-> [id |-> NoId, snap |-> NoSnapshot, fresh |-> {}, skipped |-> {}]]
    /\ txn = row
    /\ push = NoPush
    /\ ghl = << >>
    /\ known = (Pipeline \cup Field) \ Missing
    /\ unsure = [c \in Contact |-> {}]

-----------------------------------------------------------------------------
(* The push.                                                               *)

\* The contact at hand, what the run found about it, what was pushed before.
contact == push.at
current == push.seen[contact]
prev == txn[contact].snap

\* The ingest of the run has written the rows; the batch loads them all.
Start ==
    /\ push.pc = "idle"
    /\ \E seen \in [Contact -> Facts] :
          push' = [NoPush EXCEPT !.pc = "visiting", !.seen = seen, !.todo = Contact]
    /\ UNCHANGED <<row, txn, ghl, known, unsure>>

Changed(d) ==
    LET g == push.seen[d]
        s == txn[d].snap
    IN  \/ txn[d].id = NoId
        \/ FieldsOf(g) # s.fields
        \/ TagsToAdd(g, s) # {} \/ TagsToRemove(g, s) # {} \/ Moves(g, s) # {}

\* compute_delta.  An empty delta ends the contact with nothing written.
Visit(d) ==
    /\ push.pc = "visiting"
    /\ d \in push.todo
    /\ push' = IF Changed(d)
               THEN [push EXCEPT !.pc = IF txn[d].id = NoId THEN "upserting" ELSE "updating",
                                 !.at = d, !.todo = @ \ {d}, !.touched = @ \cup {d},
                                 !.moves = Moves(push.seen[d], txn[d].snap)]
               ELSE [push EXCEPT !.todo = @ \ {d}]
    /\ UNCHANGED <<row, txn, ghl, known, unsure>>

\* A field is pushed when it differs from the old value (a new contact gets those
\* that are not null) and its key is registered; _build_custom_fields_payload
\* leaves the others out.
Pushed(old, new, there) ==
    [k \in Field |-> IF k \in known /\ new[k] # old[k] THEN new[k] ELSE there[k]]

\* Mutant: nobody searches.
FoundNone == {}

\* search_contact_by_email; contacts without email are never found.
Found == {i \in DOMAIN ghl : contact \in Email /\ ghl[i].owner = contact}

NewId == Cardinality(DOMAIN ghl) + 1

\* upsert_contact in GHL: the contact it finds is updated, or one is created.
Upsert(i) ==
    IF Found # {}
    THEN /\ i \in Found
         /\ ghl' = [ghl EXCEPT ![i].fields = Pushed(NoFields, FieldsOf(current), @)]
    ELSE /\ i = NewId /\ i \in Id
         /\ ghl' = [j \in DOMAIN ghl \cup {i} |->
                       IF j = i THEN [owner |-> contact, tags |-> {}, stage |-> NoStages,
                                      fields |-> Pushed(NoFields, FieldsOf(current), NoFields),
                                      fresh |-> {}]
                       ELSE ghl[j]]

UpsertContact ==
    /\ push.pc = "upserting"
    /\ \E i \in Id : /\ Upsert(i)
                     /\ txn' = [txn EXCEPT ![contact].id = i]
    /\ push' = [push EXCEPT !.pc = "adding"]
    /\ UNCHANGED <<row, known, unsure>>

\* update_contact
UpdateFields(i) == ghl' = [ghl EXCEPT ![i].fields = Pushed(prev.fields, FieldsOf(current), @)]

UpdateContact ==
    /\ push.pc = "updating"
    /\ UpdateFields(txn[contact].id)
    /\ push' = [push EXCEPT !.pc = "adding"]
    /\ UNCHANGED <<row, txn, known, unsure>>

\* Mutant: no guard.
SafeUnguarded == TagsToRemove(current, prev)

\* The removals the 60 second guard lets pass.
SafeToRemove == TagsToRemove(current, prev) \ txn[contact].fresh

AddTo(i) == ghl' = [ghl EXCEPT ![i].tags = @ \cup TagsToAdd(current, prev),
                               ![i].fresh = @ \cup TagsToAdd(current, prev)]

\* apply_tag_changes takes the time once, before its first call.
AddTags ==
    /\ push.pc = "adding"
    /\ AddTo(txn[contact].id)
    /\ push' = [push EXCEPT !.pc = "removing", !.remove = SafeToRemove]
    /\ UNCHANGED <<row, txn, known, unsure>>

RemoveFrom(i) == ghl' = [ghl EXCEPT ![i].tags = @ \ push.remove, ![i].fresh = @ \ push.remove]

JustAdded == TagsToAdd(current, prev) \cap ghl[txn[contact].id].fresh

\* The timestamps reach the row when both calls have returned.
RemoveTags ==
    /\ push.pc = "removing"
    /\ RemoveFrom(txn[contact].id)
    /\ txn' = [txn EXCEPT ![contact].fresh = (@ \cup JustAdded) \ push.remove]
    /\ push' = [push EXCEPT !.pc = IF push.moves = {} THEN "recording" ELSE "moving"]
    /\ UNCHANGED <<row, known, unsure>>

\* execute_pipeline_moves finds the contact's opportunity in the pipeline and
\* moves it, or creates one.  A pipeline GHL does not have is skipped.
SetStage(i, p) == ghl' = IF p \in known
                         THEN [ghl EXCEPT ![i].stage[p] = StagesDesired(current, prev.tags)[p]]
                         ELSE ghl

Skipped(p) == IF p \in known THEN txn[contact].skipped \ {p} ELSE txn[contact].skipped \cup {p}

\* The first of lead, card and membership that is still to be moved.
IsNext(p) ==
    /\ p \in push.moves
    /\ \/ p = "lead"
       \/ p = "card" /\ "lead" \notin push.moves
       \/ push.moves = {p}

MovePipeline(p) ==
    /\ push.pc = "moving"
    /\ IsNext(p)
    /\ SetStage(txn[contact].id, p)
    /\ txn' = [txn EXCEPT ![contact].skipped = Skipped(p)]
    /\ push' = [push EXCEPT !.moves = @ \ {p},
                            !.pc = IF push.moves = {p} THEN "recording" ELSE "moving"]
    /\ UNCHANGED <<row, known, unsure>>

\* Mutant: deferred removals are recorded as done.
NewTagsForgetDeferred == (prev.tags \cup TagsToAdd(current, prev)) \ TagsToRemove(current, prev)

NewTags == (prev.tags \cup TagsToAdd(current, prev)) \ push.remove

\* The snapshot takes every field for pushed, also those that were left out.
NewSkipped ==
    LET changed == {k \in Field : FieldsOf(current)[k] # prev.fields[k]}
    IN  (txn[contact].skipped \ changed) \cup (changed \ known)

\* The new snapshot: a stage nobody asks for keeps its old value.
Record ==
    /\ push.pc = "recording"
    /\ txn' = [txn EXCEPT ![contact].snap =
          [fields |-> FieldsOf(current), tags |-> NewTags,
           stage |-> [p \in Pipeline |-> LET to == StagesDesired(current, prev.tags)[p]
                                         IN  IF to = "none" THEN prev.stage[p] ELSE to]],
                            ![contact].skipped = NewSkipped]
    /\ push' = [push EXCEPT !.pc = "visiting", !.ended = @ \cup {contact}, !.remove = {}]
    /\ UNCHANGED <<row, ghl, known, unsure>>

-----------------------------------------------------------------------------
(* Failures.  A call can be refused, or reach GHL and its answer be lost.  *)

\* Nothing to push, add or remove, nothing is called; which fields are registered
\* is read by a call that may fail as well, although it asks for nothing.
InCall ==
    \/ push.pc \in {"upserting", "moving"}
    \/ push.pc = "updating" /\ FieldsOf(current) # prev.fields
    \/ push.pc = "adding" /\ TagsToAdd(current, prev) # {}
    \/ push.pc = "removing" /\ push.remove # {}

\* GhlAuthError stops the batch; anything else is noted and the batch goes on.
\* run_sync swallows both.
GiveUp(pc) == push' = [push EXCEPT !.pc = pc, !.remove = {}, !.moves = {}]

CallRefused ==
    /\ InCall
    /\ \/ "refused" \in Faults /\ GiveUp("visiting")
       \/ "auth" \in Faults /\ GiveUp("closing")
    /\ UNCHANGED <<row, txn, ghl, known, unsure>>

AnswerLost ==
    /\ "timeout" \in Faults
    /\ InCall
    /\ \/ push.pc = "upserting" /\ \E i \in Id : Upsert(i)
       \/ push.pc = "updating" /\ UpdateFields(txn[contact].id)
       \/ push.pc = "adding" /\ AddTo(txn[contact].id)
       \/ push.pc = "removing" /\ RemoveFrom(txn[contact].id)
       \/ push.pc = "moving" /\ \E p \in push.moves : IsNext(p) /\ SetStage(txn[contact].id, p)
    /\ GiveUp("visiting")
    /\ UNCHANGED <<row, txn, known, unsure>>

BatchEnds ==
    /\ push.pc = "visiting"
    /\ push.todo = {}
    /\ push' = [push EXCEPT !.pc = "closing"]
    /\ UNCHANGED <<row, txn, ghl, known, unsure>>

\* Whose facts a push that did not end well may have left in GHL.  A push that
\* repeats them to the end settles the matter.
Doubt(failed, well) ==
    [d \in Contact |->
        IF d \in failed THEN unsure[d] \cup {push.seen[d]}
        ELSE IF d \in well /\ unsure[d] \subseteq {push.seen[d]} THEN {}
        ELSE unsure[d]]

\* The caller of run_sync commits, also after errors.
Commit ==
    /\ push.pc = "closing"
    /\ row' = txn
    /\ unsure' = Doubt(push.touched \ push.ended, push.ended)
    /\ push' = NoPush
    /\ UNCHANGED <<txn, ghl, known>>

\* A failing statement or commit, or the death of the process: rolled back.
Abort ==
    /\ push.pc # "idle"
    /\ \/ "crash" \in Faults
       \/ "database" \in Faults /\ push.pc = "closing"
    /\ txn' = row
    /\ unsure' = Doubt(push.touched, {})
    /\ push' = NoPush
    /\ UNCHANGED <<row, ghl, known>>

-----------------------------------------------------------------------------
(* The others.                                                             *)

\* 60 seconds pass without a call that adds a tag to the contact.
GuardExpires(d) ==
    /\ \/ row[d].fresh # {} \/ txn[d].fresh # {}
       \/ \E i \in DOMAIN ghl : ghl[i].owner = d /\ ghl[i].fresh # {}
    /\ row' = [row EXCEPT ![d].fresh = {}]
    /\ txn' = [txn EXCEPT ![d].fresh = {}]
    /\ ghl' = [i \in DOMAIN ghl |-> IF ghl[i].owner = d THEN [ghl[i] EXCEPT !.fresh = {}]
                                    ELSE ghl[i]]
    /\ UNCHANGED <<push, known, unsure>>

\* A GHL workflow (external) sets a tag that only it sets.
WorkflowTags(i, t) ==
    /\ t \notin ghl[i].tags
    /\ ghl' = [ghl EXCEPT ![i].tags = @ \cup {t}]
    /\ UNCHANGED <<row, txn, push, known, unsure>>

\* The studio (external) sets up a pipeline or a custom field; a batch reads
\* either list only once.
Appears(x) ==
    /\ x \notin known
    /\ push.pc = "idle"
    /\ known' = known \cup {x}
    /\ UNCHANGED <<row, txn, push, ghl, unsure>>

Next ==
    \/ Start \/ BatchEnds \/ UpsertContact \/ UpdateContact \/ AddTags \/ RemoveTags \/ Record
    \/ CallRefused \/ AnswerLost \/ Commit \/ Abort
    \/ \E d \in Contact : GuardExpires(d)
    \/ \E d \in push.todo : Visit(d)
    \/ \E p \in Pipeline : MovePipeline(p)
    \/ \E x \in Pipeline \cup Field : Appears(x)
    \/ \E i \in DOMAIN ghl, t \in WorkflowOnly : WorkflowTags(i, t)

Spec == Init /\ [][Next]_vars

-----------------------------------------------------------------------------
(* Properties.                                                             *)

\* Between runs GHL shows what the snapshot says, tags, fields and stages, unless
\* a push failed half way and has not been repeated to the end with the same
\* facts: repeating it, by whatever path it failed, sets everything right.  What
\* no push could set, for want of the pipeline or of the field's key, the snapshot
\* records as set, and nothing here vouches for it (pipelines.py, client.py).
RepeatHeals ==
    push.pc = "idle" =>
        \A d \in Contact : row[d].id # NoId /\ unsure[d] = {} =>
            LET g == ghl[row[d].id]
                s == row[d].snap
            IN  /\ g.tags \ WorkflowOnly = s.tags
                /\ \A k \in Field \ row[d].skipped : g.fields[k] = s.fields[k]
                /\ \A p \in Pipeline \ row[d].skipped : g.stage[p] = s.stage[p]

\* A tag stays in GHL for 60 seconds after a push asked for it, also when that
\* push failed and its timestamps were lost.
GuardHolds ==
    [][\A i \in DOMAIN ghl : \A t \in ghl[i].tags \ ghl'[i].tags : t \notin ghl[i].fresh]_vars

\* No push takes away a tag that only a workflow, the operator or nobody may
\* remove, whichever facts come and go and whoever set it.
MarkersStay ==
    [][\A i \in DOMAIN ghl : ghl[i].tags \cap NeverRemoved \subseteq ghl'[i].tags]_vars

\* An email address has one contact in GHL, although the row that remembers its
\* id may be rolled back after the contact was created.
OneContactPerEmail ==
    \A d \in Email : Cardinality({i \in DOMAIN ghl : ghl[i].owner = d}) <= 1

=============================================================================
