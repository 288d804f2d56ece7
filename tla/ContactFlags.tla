----------------------------- MODULE ContactFlags -----------------------------
(***************************************************************************)
(* What a contact should look like in GHL: compute_flags                   *)
(* (app/delta/flags.py) as an operator on the facts it reads, and the      *)
(* difference to a snapshot that compute_delta (app/delta/engine.py) takes *)
(* from it.  Dates are abstracted to the side of each threshold they are   *)
(* on, products to the classes compute_flags asks for.                     *)
(***************************************************************************)
EXTENDS FiniteSets

Pipeline == {"lead", "card", "membership"}

\* active: active_package_type, or what the products classify as; trial, other:
\* a trial, another product was ever bought; named: active_package_name is a
\* membership; idle: days since the last booking; quiet: more than 14 days since
\* the last session; dropped: fewer than half of last month's sessions; frequent:
\* above the card upsell threshold.
Fact ==
    [active : {"none", "trial", "card", "membership", "other"},
     trial : BOOLEAN, other : BOOLEAN, named : BOOLEAN, attended : BOOLEAN,
     idle : {"never", "to14", "to30", "over30"}, quiet : BOOLEAN, dropped : BOOLEAN,
     remaining : {"null", "zero", "left"}, frequent : BOOLEAN,
     expiry : {"null", "past", "in14", "later"}]

NoProducts(f) == ~f.trial /\ ~f.other

\* The tags only workflows, the operator or nobody at all may remove.
NeverRemoved ==
    {"trial-not-converted", "trial-converted", "trial-follow-up-active", "chatbot-active",
     "chatbot-sale-initiated", "chatbot-converted", "chatbot-handoff", "opted-out",
     "reschedule-in-flight", "cancel-in-flight", "writeback-failed"}

Converted(f) == f.active # "trial" /\ f.trial /\ f.other
Churned(f) == f.expiry = "past" /\ f.active \in {"card", "membership"}
LowAttendance(f) == f.active = "card" /\ f.remaining = "left" /\ f.idle \in {"to30", "over30"}
MembershipReady(f) == f.active = "card" /\ f.frequent
AtRisk(f) == f.active = "membership" /\ (f.quiet \/ f.dropped)
RenewalDue(f) == f.active = "membership" /\ f.expiry \in {"past", "in14"}

\* The tag and the condition it is desired under.
TagsDesired(f) ==
    UNION {IF f.active = "trial" THEN {"trial-active"} ELSE {},
           IF f.active = "trial" /\ f.remaining = "zero" THEN {"trial-last-session"} ELSE {},
           IF Converted(f) THEN {"trial-converted", "trial-purchase-detected"} ELSE {},
           IF f.active = "card" /\ ~Churned(f) THEN {"card-active"} ELSE {},
           IF f.active = "membership" /\ ~Churned(f) THEN {"membership-active"} ELSE {},
           IF LowAttendance(f) THEN {"low-attendance"} ELSE {},
           IF MembershipReady(f) THEN {"membership-ready"} ELSE {},
           IF AtRisk(f) THEN {"at-risk"} ELSE {},
           IF RenewalDue(f) THEN {"renewal-due"} ELSE {},
           IF Churned(f) THEN {"churned"} ELSE {},
           IF f.idle = "over30" THEN {"lapsed"} ELSE {}}

LeadStage(f, tags) ==
    CASE "trial-not-converted" \in tags -> "Lost"
      [] "trial-not-converted" \notin tags /\ Converted(f) ->
            IF f.active = "membership" \/ f.named THEN "Converted (membership)"
            ELSE "Converted (card)"
      [] "trial-not-converted" \notin tags /\ f.active = "trial" ->
            IF f.attended THEN "Trial booked" ELSE "Trial sold"
      [] "trial-not-converted" \notin tags /\ f.active # "trial" /\ NoProducts(f) -> "New lead"
      [] OTHER -> "none"

\* Mutant: a stage GHL does not have.
CardStageMisspelt(f) == IF f.active = "card" THEN "Standard Card" ELSE "none"

CardStage(f) ==
    CASE f.active = "card" -> IF Churned(f) THEN "Churned"
                              ELSE IF MembershipReady(f) THEN "Membership ready"
                              ELSE IF LowAttendance(f) THEN "Low attendance warning"
                              ELSE "Standard card"
      [] f.active = "membership" /\ f.other -> "Converted"
      [] OTHER -> "none"

MembershipStage(f) ==
    IF f.active # "membership" THEN "none"
    ELSE IF Churned(f) THEN "Churned"
    ELSE IF RenewalDue(f) THEN "Renewal due"
    ELSE IF AtRisk(f) THEN "At risk"
    ELSE "Active"

Stage ==
    {"none", "New lead", "Trial sold", "Trial booked", "Converted (card)",
     "Converted (membership)", "Lost", "Standard card", "Low attendance warning",
     "Membership ready", "Converted", "Churned", "Active", "At risk", "Renewal due"}

\* "none" leaves a pipeline alone.  tags: what the caller believes GHL has.
StagesDesired(f, tags) ==
    [p \in Pipeline |-> CASE p = "lead" -> LeadStage(f, tags)
                          [] p = "card" -> CardStage(f)
                          [] OTHER -> MembershipStage(f)]

\* The custom fields, by what tells facts apart: the package, absent when there
\* is none, and the attendance counters.
Field == {"package", "attendance"}
FieldsOf(f) ==
    [k \in Field |-> CASE k = "package" -> f.active
                       [] f.attended -> "some"
                       [] OTHER -> "zero"]

\* compute_delta: what differs from the snapshot.
TagsToAdd(f, snap) == TagsDesired(f) \ snap.tags
\* Mutant: the markers are removed like any other tag.
TagsToRemoveAny(f, snap) == snap.tags \ TagsDesired(f)
TagsToRemove(f, snap) == (snap.tags \ TagsDesired(f)) \ NeverRemoved
Moves(f, snap) ==
    LET to == StagesDesired(f, snap.tags)
    IN  {p \in Pipeline : to[p] # "none" /\ to[p] # snap.stage[p]}

=============================================================================
