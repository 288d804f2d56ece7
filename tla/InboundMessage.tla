---------------------------- MODULE InboundMessage ----------------------------
(***************************************************************************)
(* Messages of one customer that GHL posts to the inbound webhook, and the *)
(* consent of that customer: STOP detection, the gatekeeper's routing, the *)
(* revocation, the consent gate that outbound workflows ask, and the rows  *)
(* all of them append (webhooks/ghl_inbound.py, app/gatekeeper/,           *)
(* app/consent/, admin/consent.py).                                        *)
(*                                                                         *)
(* Consent itself is kept in GHL, as fields and a tag of the contact.  The *)
(* program only answers what GHL should do; a GHL workflow does it later.  *)
(***************************************************************************)
EXTENDS Naturals, Sequences

CONSTANTS Message,        \* messages the customer sends
          Send,           \* marketing or transactional sends of GHL workflows
          RawChannel,     \* what GHL may name as the channel
          Answer,         \* categories the language model may answer with
          Consented,      \* channels that consent is given and asked for
          Settings,       \* what the location row may say
          MaxDeliveries,  \* bound: deliveries of all messages
          Faults          \* which failures may happen

\* record.VALID_CHANNELS and the constraint of consent_audit; the constraint of
\* gatekeeper_log; _CONSENT_FIELD.
AuditChannel == {"email", "whatsapp", "voice"}
Social == {"instagram_dm", "instagram_comment", "facebook_dm", "facebook_comment"}
LoggedChannel == {"email", "whatsapp"} \cup Social
Channel == AuditChannel \cup Social

Inquiry == {"inquiry_pricing", "inquiry_class_info", "inquiry_membership", "trial_reply"}
Sensitive == {"complaint", "injury_medical", "billing_dispute"}
Noise == {"acknowledgment", "emoji_reaction", "social_compliment", "off_topic", "spam"}
Category == Inquiry \cup Sensitive \cup Noise \cup {"booking", "opt_out", "low_confidence"}

\* alerts: gatekeeper_owner_alert_categories; policy: gatekeeper_noise_action,
\* which need not name every category.
Policy == {"silent_ignore", "react_emoji", "auto_reply_template"}
Location == [enabled : BOOLEAN, alerts : SUBSET Category,
             policy : UNION {[named -> Policy] : named \in SUBSET Noise}]

ASSUME InboundAssumption ==
    /\ Answer \subseteq Category
    /\ Consented \subseteq AuditChannel
    /\ Settings \subseteq Location
    /\ RawChannel \subseteq Channel \cup {"sms", "other"}
    /\ MaxDeliveries \in Nat
    /\ Faults \subseteq {"database", "crash", "answer"}

VARIABLES location,    \* its row; nothing changes it
          deliveries,  \* how many requests there were
          handler,     \* for each message, the request that handles it
          log,         \* gatekeeper_log
          audit,       \* consent_audit: revocations by message, and the last row else
          ghl,         \* the contact in GHL
          send         \* for each send, the workflow that would make it

vars == <<location, deliveries, handler, log, audit, ghl, send>>

Route == {"uc04", "uc05", "owner", "noise", "consent_gate", "legacy"}
Action == {"update_contact_field", "apply_tag", "remove_from_all_sequences", "confirm",
           "react_emoji", "send_message"}

\* reply: the ghl_actions of the answer that GHL has yet to carry out; is_stop:
\* the answer says so.
Handler == [pc : {"none", "stopping", "routing", "logging", "answering", "answered",
                   "failed"},
            channel : Channel, stop : BOOLEAN,
            category : Category, sure : BOOLEAN, route : Route, is_stop : BOOLEAN,
            reply : Seq(Action)]
LogRow == [message : Message, category : Category, sure : BOOLEAN, route : Route,
           overridden : BOOLEAN]
Event == {"none", "granted", "revoked", "blocked-send", "preference-centre-update"}
\* told: the customer has been told that he is unsubscribed.
Ghl == [consent : [Channel -> BOOLEAN], tags : SUBSET {"opted-out"}, told : BOOLEAN]

\* consent, tags, told: as the workflow read them.
Workflow == [pc : {"none", "asking", "allowed", "denied", "sent"}, channel : AuditChannel,
             transactional : BOOLEAN, consent : BOOLEAN, tags : SUBSET {"opted-out"},
             told : BOOLEAN]

TypeOK ==
    /\ location \in Settings
    /\ deliveries \in 0..MaxDeliveries
    /\ handler \in [Message -> Handler]
    /\ log \subseteq LogRow
    /\ audit \in [stops : SUBSET (Message \X Channel), last : [AuditChannel -> Event]]
    /\ ghl \in Ghl
    /\ send \in [Send -> Workflow]

NoHandler == [pc |-> "none", channel |-> "whatsapp", stop |-> FALSE,
              category |-> "low_confidence", sure |-> FALSE, route |-> "legacy",
              is_stop |-> FALSE, reply |-> << >>]
NoWorkflow == [pc |-> "none", channel |-> "email", transactional |-> FALSE, consent |-> FALSE,
               tags |-> {}, told |-> FALSE]

Init ==
    /\ location \in Settings
    /\ deliveries = 0
    /\ handler = [m \in Message |-> NoHandler]
    /\ log = {}
    /\ audit = [stops |-> {}, last |-> [c \in AuditChannel |-> "none"]]
    /\ ghl = [consent |-> [c \in Channel |-> FALSE], tags |-> {}, told |-> FALSE]
    /\ send = [s \in Send |-> NoWorkflow]

-----------------------------------------------------------------------------
(* The webhook.                                                            *)

\* Mutant: a channel that is not known keeps its name.
NormalisedNot(raw) == raw

\* _normalise_channel
Normalised(raw) == IF raw \in Channel THEN raw ELSE "whatsapp"

\* handle_inbound_message up to its first write.  A message whose request failed,
\* or whose answer was lost, may be delivered again; nothing remembers its id.
Receive(m, raw, stop) ==
    /\ handler[m].pc \in {"none", "failed"}
    /\ handler[m].pc = "failed" => Normalised(raw) = handler[m].channel /\ stop = handler[m].stop
    /\ deliveries < MaxDeliveries
    /\ deliveries' = deliveries + 1
    /\ handler' = [handler EXCEPT ![m] =
          [NoHandler EXCEPT !.pc = IF stop THEN "stopping" ELSE "routing",
                            !.channel = Normalised(raw), !.stop = stop]]
    /\ UNCHANGED <<location, log, audit, ghl, send>>

Effective(category, sure) == IF sure THEN category ELSE "low_confidence"

\* Mutant: what nobody else handles is noise.
RouteOfRestIsNoise(category, sure) ==
    CASE Effective(category, sure) = "opt_out" -> "consent_gate"
      [] Effective(category, sure) \in Inquiry -> "uc04"
      [] Effective(category, sure) = "booking" -> "uc05"
      [] Effective(category, sure) \in location.alerts \ (Inquiry \cup {"opt_out", "booking"}) ->
            "owner"
      [] OTHER -> "noise"

\* route_classification: below the threshold everything is low_confidence.
RouteOf(category, sure) ==
    CASE Effective(category, sure) = "opt_out" -> "consent_gate"
      [] Effective(category, sure) \in Inquiry -> "uc04"
      [] Effective(category, sure) = "booking" -> "uc05"
      [] Effective(category, sure) \in Noise \ location.alerts -> "noise"
      [] OTHER -> "owner"

\* execute_noise_policy: the answers it may give.  Whether there is a template is
\* a matter of locales.
NoiseReplies(category, channel) ==
    LET policy == IF category \in DOMAIN location.policy THEN location.policy[category]
                  ELSE "silent_ignore"
    IN  CASE policy = "silent_ignore" -> {<< >>}
          [] policy = "react_emoji" ->
                {IF channel \in Social THEN <<"react_emoji">> ELSE <<"send_message">>}
          [] OTHER -> {<< >>, <<"send_message">>}

\* process_inbound.  A disabled gatekeeper answers "legacy" and logs nothing;
\* the model's answer falls back to an unsure low_confidence.
Classify(m, category, sure) ==
    /\ handler[m].pc = "routing"
    /\ \E reply \in IF RouteOf(category, sure) = "noise"
                    THEN NoiseReplies(category, handler[m].channel) ELSE {<< >>} :
          handler' = [handler EXCEPT ![m] =
             IF location.enabled
             THEN [@ EXCEPT !.pc = "logging", !.category = category, !.sure = sure,
                            !.route = RouteOf(category, sure), !.reply = reply]
             ELSE [@ EXCEPT !.pc = "answering"]]
    /\ UNCHANGED <<location, deliveries, log, audit, ghl, send>>

\* Mutant: the escalation is only logged.
AfterLogNoEscalation(h) == "answering"

AfterLog(h) == IF h.route = "consent_gate" THEN "stopping" ELSE "answering"

\* The commit of gatekeeper_log and ai_usage.
CommitDecision(m) ==
    LET h == handler[m]
    IN  /\ h.pc = "logging"
        /\ IF h.channel \in LoggedChannel
           THEN /\ log' = log \cup {[message |-> m, category |-> h.category, sure |-> h.sure,
                                     route |-> h.route, overridden |-> FALSE]}
                /\ handler' = [handler EXCEPT ![m].pc = AfterLog(h)]
           ELSE /\ handler' = [handler EXCEPT ![m].pc = "failed", ![m].reply = << >>]
                /\ UNCHANGED log
        /\ UNCHANGED <<location, deliveries, audit, ghl, send>>

\* The actions of an opt-out.  The field and the time stamp are one here.
StopActions ==
    <<"update_contact_field", "apply_tag", "remove_from_all_sequences", "confirm">>

\* record_revocation, with the check of the channel.
RecordRevocation(m) ==
    /\ handler[m].channel \in AuditChannel
    /\ audit' = [audit EXCEPT !.stops = @ \cup {<<m, handler[m].channel>>}]

\* _handle_stop: the row is committed, then the answer is made.
HandleStop(m) ==
    /\ handler[m].pc = "stopping"
    /\ RecordRevocation(m)
    /\ handler' = [handler EXCEPT ![m].pc = "answering", ![m].is_stop = TRUE,
                                  ![m].reply = StopActions]
    /\ UNCHANGED <<location, deliveries, log, ghl, send>>

\* The ValueError for a channel that consent_audit does not know.
StopRaises(m) ==
    /\ handler[m].pc = "stopping"
    /\ handler[m].channel \notin AuditChannel
    /\ handler' = [handler EXCEPT ![m].pc = "failed"]
    /\ UNCHANGED <<location, deliveries, log, audit, ghl, send>>

-----------------------------------------------------------------------------
(* GHL (external) carries an answer out, action by action.                 *)

Answer200(m) ==
    /\ handler[m].pc = "answering"
    /\ handler' = [handler EXCEPT ![m].pc = "answered"]
    /\ UNCHANGED <<location, deliveries, log, audit, ghl, send>>

CarryOut(m) ==
    LET h == handler[m]
    IN  /\ h.pc = "answered" /\ h.reply # << >>
        /\ handler' = [handler EXCEPT ![m].reply = Tail(@)]
        /\ ghl' = CASE Head(h.reply) = "update_contact_field" ->
                         [ghl EXCEPT !.consent[h.channel] = FALSE]
                    [] Head(h.reply) = "apply_tag" -> [ghl EXCEPT !.tags = {"opted-out"}]
                    [] Head(h.reply) = "confirm" -> [ghl EXCEPT !.told = TRUE]
                    [] OTHER -> ghl
        /\ UNCHANGED <<location, deliveries, log, audit, send>>

\* The customer opts in by a form or double opt-in: GHL sets the field itself.
OptsIn(c) ==
    /\ ~ghl.consent[c]
    /\ ghl' = [ghl EXCEPT !.consent[c] = TRUE]
    /\ UNCHANGED <<location, deliveries, handler, log, audit, send>>

\* He withdraws it by a link or a form.
Withdraws(c) ==
    /\ ghl.consent[c]
    /\ ghl' = [ghl EXCEPT !.consent[c] = FALSE]
    /\ UNCHANGED <<location, deliveries, handler, log, audit, send>>

-----------------------------------------------------------------------------
(* The consent endpoints.                                                  *)

LastRow(c, event) == audit' = [audit EXCEPT !.last[c] = event]

\* POST /grant and /revoke, called by the workflows behind OptsIn and Withdraws.
GrantConsent(c) ==
    /\ LastRow(c, "granted")
    /\ UNCHANGED <<location, deliveries, handler, log, ghl, send>>

RevokeConsent(c) ==
    /\ LastRow(c, "revoked")
    /\ UNCHANGED <<location, deliveries, handler, log, ghl, send>>

\* PATCH /preference-centre/{token}: rows for the channels named, in one
\* transaction.  GHL is not told.
UpdatePreferenceCentre(channels) ==
    /\ audit' = [audit EXCEPT !.last = [c \in AuditChannel |->
          IF c \in channels THEN "preference-centre-update" ELSE audit.last[c]]]
    /\ UNCHANGED <<location, deliveries, handler, log, ghl, send>>

\* PATCH /log/{id}/override
OverrideClassification(row) ==
    /\ row \in log
    /\ log' = (log \ {row}) \cup {[row EXCEPT !.overridden = TRUE]}
    /\ UNCHANGED <<location, deliveries, handler, audit, ghl, send>>

\* A workflow wants to send: it reads the contact, and asks.
AskGate(s, c, transactional) ==
    /\ send[s].pc = "none"
    /\ send' = [send EXCEPT ![s] =
          [pc |-> "asking", channel |-> c, transactional |-> transactional,
           consent |-> ghl.consent[c], tags |-> ghl.tags, told |-> ghl.told]]
    /\ UNCHANGED <<location, deliveries, handler, log, audit, ghl>>

\* Mutant: only the field of the channel counts.
GateAllowsByField(w) == w.transactional \/ w.consent

GateAllows(w) == w.transactional \/ ("opted-out" \notin w.tags /\ w.consent)

\* consent_gate decides by what the request says; a denial leaves a row.
ConsentGate(s) ==
    /\ send[s].pc = "asking"
    /\ IF GateAllows(send[s])
       THEN send' = [send EXCEPT ![s].pc = "allowed"] /\ UNCHANGED audit
       ELSE send' = [send EXCEPT ![s].pc = "denied"] /\ LastRow(send[s].channel, "blocked-send")
    /\ UNCHANGED <<location, deliveries, handler, log, ghl>>

Sends(s) ==
    /\ send[s].pc = "allowed"
    /\ send' = [send EXCEPT ![s].pc = "sent"]
    /\ UNCHANGED <<location, deliveries, handler, log, audit, ghl>>

-----------------------------------------------------------------------------
(* Failures.                                                               *)

Fail(ms) == handler' = [m \in Message |->
    IF m \in ms THEN [handler[m] EXCEPT !.pc = "failed", !.is_stop = FALSE, !.reply = << >>]
    ELSE handler[m]]

\* A commit fails: the request answers 500.  What it committed before stays.
CommitFails(m) ==
    /\ "database" \in Faults
    /\ handler[m].pc \in {"stopping", "logging"}
    /\ Fail({m})
    /\ UNCHANGED <<location, deliveries, log, audit, ghl, send>>

\* The same in consent_gate: the workflow has no leave to send.
GateFails(s) ==
    /\ "database" \in Faults
    /\ send[s].pc = "asking"
    /\ send' = [send EXCEPT ![s].pc = "denied"]
    /\ UNCHANGED <<location, deliveries, handler, log, audit, ghl>>

\* The answer is lost on its way, after everything was committed.
AnswerLost(m) ==
    /\ "answer" \in Faults
    /\ handler[m].pc = "answering"
    /\ Fail({m})
    /\ UNCHANGED <<location, deliveries, log, audit, ghl, send>>

Busy == {m \in Message : handler[m].pc \in {"stopping", "routing", "logging", "answering"}}

\* The process dies with every request in it.
Die ==
    /\ "crash" \in Faults
    /\ Busy # {}
    /\ Fail(Busy)
    /\ UNCHANGED <<location, deliveries, log, audit, ghl, send>>

Next ==
    \/ \E m \in Message :
          \/ \E raw \in RawChannel, stop \in BOOLEAN : Receive(m, raw, stop)
          \/ \E category \in Answer, sure \in BOOLEAN : Classify(m, category, sure)
          \/ Classify(m, "low_confidence", FALSE)
          \/ CommitDecision(m) \/ HandleStop(m) \/ StopRaises(m) \/ Answer200(m) \/ CarryOut(m)
          \/ CommitFails(m) \/ AnswerLost(m)
    \/ \E c \in Consented : OptsIn(c) \/ Withdraws(c) \/ GrantConsent(c) \/ RevokeConsent(c)
    \/ \E channels \in SUBSET Consented : UpdatePreferenceCentre(channels)
    \/ \E row \in log : OverrideClassification(row)
    \/ \E s \in Send :
          \/ \E c \in Consented, transactional \in BOOLEAN : AskGate(s, c, transactional)
          \/ ConsentGate(s) \/ Sends(s) \/ GateFails(s)
    \/ Die

Spec == Init /\ [][Next]_vars

-----------------------------------------------------------------------------
(* Properties.                                                             *)

\* Once the customer has been told that he is unsubscribed, no workflow that looks
\* at the contact from then on gets leave for marketing on any channel, whatever
\* he opts into by form, preference centre or otherwise, and however messages and
\* answers interleave.  08_consent_model.md:145 has him reverse an opt-out in the
\* preference centre; the code gives no way to it, for no endpoint removes the tag.
ToldIsFinal ==
    \A s \in Send : send[s].pc \in {"allowed", "sent"} /\ send[s].told => send[s].transactional

\* An opt-out that is answered, whether the keyword or the model recognised it, is
\* answered as one, and its revocation is on record for regulators by then.
OptOutOnRecord ==
    \A m \in Message :
        LET h == handler[m]
        IN  /\ h.pc \in {"answering", "answered"}
            /\ h.stop \/ h.route = "consent_gate"
            => h.is_stop /\ <<m, h.channel>> \in audit.stops

\* Complaints, injuries, billing disputes and whatever the model is unsure of are
\* left to the owner, also when the settings of the location do not list them.
OwnerDecides ==
    \A row \in log :
        row.category \in Sensitive \cup {"low_confidence"} \/ ~row.sure => row.route = "owner"

-----------------------------------------------------------------------------
(* What a comment says and the code does not do.                           *)

\* "If STOP: Records revocation in consent_audit for the channel" (ghl_inbound.py):
\* without faults, a STOP that is over has its row.
EveryStopRecorded ==
    \A m \in Message : handler[m].stop /\ handler[m].pc = "failed"
        => <<m, handler[m].channel>> \in audit.stops

=============================================================================
