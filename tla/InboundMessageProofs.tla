------------------------ MODULE InboundMessageProofs ------------------------
(***************************************************************************)
(* Safety of inbound messages and consent for any number of messages,      *)
(* deliveries and sends, any settings of the location, any answers of the  *)
(* language model, and under every failure the model knows.                *)
(***************************************************************************)
EXTENDS InboundMessage, TLAPS

\* What may be left of an answer to carry out.
Untagged == {StopActions, <<"apply_tag", "remove_from_all_sequences", "confirm">>}
Tagged == {<<"remove_from_all_sequences", "confirm">>, <<"confirm">>}
Acknowledgment == {<< >>, <<"react_emoji">>, <<"send_message">>}
Reply == Untagged \cup Tagged \cup Acknowledgment

LeftToOwner(category, sure) == category \in Sensitive \cup {"low_confidence"} \/ ~sure

\* A request h for message m, given the revocations on record and the tags.
HandlerOK(m, h, stops, tags) ==
    /\ h.reply \in Reply
    /\ h.pc # "answered" => h.reply \in Acknowledgment \cup {StopActions}
    /\ h.reply \in Tagged => "opted-out" \in tags
    /\ h.pc = "routing" => ~h.stop /\ h.route = "legacy"
    /\ h.pc = "logging" => ~h.stop /\ (LeftToOwner(h.category, h.sure) => h.route = "owner")
    /\ h.pc \in {"answering", "answered"} /\ (h.stop \/ h.route = "consent_gate")
         => h.is_stop /\ <<m, h.channel>> \in stops

SendOK(w) ==
    /\ w.told => "opted-out" \in w.tags
    /\ w.pc \in {"allowed", "sent"} => GateAllows(w)

RowOK(row) == LeftToOwner(row.category, row.sure) => row.route = "owner"

HandlersOK == \A m \in Message : HandlerOK(m, handler[m], audit.stops, ghl.tags)
SendsOK == \A s \in Send : SendOK(send[s])
RowsOK == \A row \in log : RowOK(row)
ToldTagged == ghl.told => "opted-out" \in ghl.tags

IInv == TypeOK /\ HandlersOK /\ SendsOK /\ RowsOK /\ ToldTagged

-----------------------------------------------------------------------------
(* Answers, and what GHL still has to do of them.                          *)

LEMMA ReplyTyped == Reply \subseteq Seq(Action)
BY DEF Reply, Untagged, Tagged, Acknowledgment, StopActions, Action

LEMMA TailOfOne == ASSUME NEW x PROVE Tail(<<x>>) = << >>
BY SMT

\* An opt-out is carried out in its order: the tag comes before what follows it.
LEMMA ReplyShrinks ==
    ASSUME NEW r \in Reply, r # << >>
    PROVE  /\ Tail(r) \in Reply
           /\ Tail(r) \in Tagged => Head(r) = "apply_tag" \/ r \in Tagged
           /\ Head(r) = "confirm" => r \in Tagged
<1>1. CASE r = StopActions
  BY <1>1 DEF Reply, Untagged, Tagged, StopActions
<1>2. CASE r = <<"apply_tag", "remove_from_all_sequences", "confirm">>
  BY <1>2 DEF Reply, Untagged, Tagged
<1>3. CASE r = <<"remove_from_all_sequences", "confirm">>
  BY <1>3 DEF Reply, Untagged, Tagged
<1>4. CASE r = <<"confirm">>
  BY <1>4, TailOfOne DEF Reply, Tagged, Acknowledgment
<1>5. CASE r = <<"react_emoji">>
  BY <1>5, TailOfOne DEF Reply, Tagged, Acknowledgment
<1>6. CASE r = <<"send_message">>
  BY <1>6, TailOfOne DEF Reply, Tagged, Acknowledgment
<1>7. QED
  BY <1>1, <1>2, <1>3, <1>4, <1>5, <1>6 DEF Reply, Untagged, Tagged, Acknowledgment

LEMMA NoiseRepliesAcknowledge ==
    \A category, channel : NoiseReplies(category, channel) \subseteq Acknowledgment
BY DEF NoiseReplies, Acknowledgment

LEMMA RouteFacts ==
    ASSUME NEW category \in Category, NEW sure \in BOOLEAN
    PROVE  /\ RouteOf(category, sure) \in Route
           /\ LeftToOwner(category, sure) => RouteOf(category, sure) = "owner"
<1>1. CASE sure
  BY <1>1 DEF RouteOf, Effective, Route, LeftToOwner, Category, Inquiry, Sensitive, Noise
<1>2. CASE ~sure
  BY <1>2 DEF RouteOf, Effective, Route, LeftToOwner, Category, Inquiry, Sensitive, Noise
<1>3. QED
  BY <1>1, <1>2

-----------------------------------------------------------------------------
(* Rows and tags only accumulate, so a request that stands still stays OK. *)

Accumulates == audit.stops \subseteq audit'.stops /\ ghl.tags \subseteq ghl'.tags

LEMMA HandlerStands ==
    ASSUME NEW m, NEW h, HandlerOK(m, h, audit.stops, ghl.tags), Accumulates
    PROVE  HandlerOK(m, h, audit'.stops, ghl'.tags)
BY DEF HandlerOK, Accumulates

LEMMA HandlersStand ==
    ASSUME HandlersOK, Accumulates, UNCHANGED handler
    PROVE  HandlersOK'
BY HandlerStands DEF HandlersOK

\* One request moves on.
LEMMA HandlerMoves ==
    ASSUME handler \in [Message -> Handler], HandlersOK, Accumulates,
           NEW m \in Message, NEW h \in Handler, handler' = [handler EXCEPT ![m] = h],
           HandlerOK(m, h, audit'.stops, ghl'.tags)
    PROVE  handler' \in [Message -> Handler] /\ HandlersOK'
<1>1. handler' \in [Message -> Handler] /\ handler'[m] = h
  OBVIOUS
<1>2. \A n \in Message : n # m => handler'[n] = handler[n]
  OBVIOUS
<1>3. \A n \in Message : HandlerOK(n, handler'[n], audit'.stops, ghl'.tags)
  BY <1>1, <1>2, HandlerStands DEF HandlersOK
<1>4. QED
  BY <1>1, <1>3 DEF HandlersOK

\* Some requests fail.
LEMMA HandlersFail ==
    ASSUME handler \in [Message -> Handler], HandlersOK, UNCHANGED <<audit, ghl>>,
           NEW ms \in SUBSET Message, Fail(ms)
    PROVE  handler' \in [Message -> Handler] /\ HandlersOK'
<1> DEFINE Failed(m) == [handler[m] EXCEPT !.pc = "failed", !.is_stop = FALSE, !.reply = << >>]
<1>1. \A m \in Message : handler'[m] = IF m \in ms THEN Failed(m) ELSE handler[m]
  BY DEF Fail
<1>2. \A m \in Message : Failed(m) \in Handler
  <2>1. << >> \in Seq(Action)
    OBVIOUS
  <2>2. TAKE m \in Message
  <2>3. handler[m] \in Handler
    OBVIOUS
  <2>4. QED
    BY <2>1, <2>3 DEF Handler
<1>3. \A m \in Message : Failed(m).pc = "failed" /\ Failed(m).reply = << >>
  BY DEF Handler
<1>4. << >> \notin Tagged
  BY DEF Tagged
<1>5. \A m \in Message : HandlerOK(m, Failed(m), audit.stops, ghl.tags)
  BY <1>3, <1>4 DEF HandlerOK, Reply, Acknowledgment
<1>6. handler' \in [Message -> Handler]
  BY <1>2 DEF Fail
<1>7. \A m \in Message : HandlerOK(m, handler'[m], audit.stops, ghl.tags)
  BY <1>1, <1>5 DEF HandlersOK
<1>8. QED
  BY <1>6, <1>7 DEF HandlersOK

-----------------------------------------------------------------------------
(* The webhook.                                                            *)

LEMMA InitIInv == Init => IInv
<1> SUFFICES ASSUME Init PROVE IInv
  OBVIOUS
<1>1. << >> \in Seq(Action) /\ << >> \notin Tagged
  BY DEF Tagged
<1>2. NoHandler \in Handler
  BY <1>1 DEF NoHandler, Handler, Channel, AuditChannel, Category, Route
<1>3. NoWorkflow \in Workflow
  BY DEF NoWorkflow, Workflow, AuditChannel
<1>4. audit \in [stops : SUBSET (Message \X Channel), last : [AuditChannel -> Event]]
  BY DEF Init, Event
<1>5. TypeOK
  BY <1>2, <1>3, <1>4, InboundAssumption DEF Init, TypeOK, Ghl
<1>6. HandlersOK
  BY <1>1 DEF Init, HandlersOK, HandlerOK, NoHandler, Reply, Acknowledgment
<1>7. SendsOK /\ RowsOK /\ ToldTagged
  BY DEF Init, SendsOK, SendOK, NoWorkflow, RowsOK, ToldTagged
<1>8. QED
  BY <1>5, <1>6, <1>7 DEF IInv

\* A step of one request that writes no row and leaves GHL alone.
LEMMA RequestKeepsIInv ==
    ASSUME IInv, UNCHANGED <<location, log, audit, ghl, send>>, deliveries' \in 0..MaxDeliveries,
           NEW m \in Message, NEW h \in Handler, handler' = [handler EXCEPT ![m] = h],
           HandlerOK(m, h, audit.stops, ghl.tags)
    PROVE  IInv'
<1>1. Accumulates
  BY DEF Accumulates
<1>2. handler' \in [Message -> Handler] /\ HandlersOK'
  BY <1>1, HandlerMoves DEF IInv, TypeOK
<1>3. TypeOK'
  BY <1>2 DEF IInv, TypeOK
<1>4. QED
  BY <1>2, <1>3 DEF IInv, SendsOK, RowsOK, ToldTagged

LEMMA ReceiveKeepsIInv ==
    ASSUME IInv, NEW m \in Message, NEW raw \in RawChannel, NEW stop \in BOOLEAN,
           Receive(m, raw, stop)
    PROVE  IInv'
<1> DEFINE h == [NoHandler EXCEPT !.pc = IF stop THEN "stopping" ELSE "routing",
                                  !.channel = Normalised(raw), !.stop = stop]
<1>1. Normalised(raw) \in Channel
  BY DEF Normalised, Channel, AuditChannel
<1>2. << >> \in Seq(Action) /\ << >> \notin Tagged
  BY DEF Tagged
<1>3. h \in Handler
  BY <1>1, <1>2 DEF NoHandler, Handler, Category, Route
<1>4. HandlerOK(m, h, audit.stops, ghl.tags)
  BY <1>2 DEF HandlerOK, NoHandler, Reply, Acknowledgment
<1>5. deliveries' \in 0..MaxDeliveries
  BY InboundAssumption DEF Receive, IInv, TypeOK
<1>6. handler' = [handler EXCEPT ![m] = h]
  BY DEF Receive
<1>7. UNCHANGED <<location, log, audit, ghl, send>>
  BY DEF Receive
<1>8. QED
  BY <1>3, <1>4, <1>5, <1>6, <1>7, RequestKeepsIInv

LEMMA ClassifyKeepsIInv ==
    ASSUME IInv, NEW m \in Message, NEW category \in Category, NEW sure \in BOOLEAN,
           Classify(m, category, sure)
    PROVE  IInv'
<1>1. PICK reply \in Acknowledgment :
        handler' = [handler EXCEPT ![m] =
           IF location.enabled
           THEN [handler[m] EXCEPT !.pc = "logging", !.category = category, !.sure = sure,
                                   !.route = RouteOf(category, sure), !.reply = reply]
           ELSE [handler[m] EXCEPT !.pc = "answering"]]
  BY NoiseRepliesAcknowledge DEF Classify, Acknowledgment, IInv, TypeOK
<1> DEFINE logged == [handler[m] EXCEPT !.pc = "logging", !.category = category, !.sure = sure,
                                        !.route = RouteOf(category, sure), !.reply = reply]
           legacy == [handler[m] EXCEPT !.pc = "answering"]
<1>2. handler[m] \in Handler /\ handler[m].pc = "routing"
      /\ HandlerOK(m, handler[m], audit.stops, ghl.tags)
  BY DEF IInv, TypeOK, HandlersOK, Classify
<1>3. reply \in Seq(Action) /\ reply \in Reply /\ reply \notin Tagged
  <2>1. reply \in Reply
    BY DEF Reply
  <2>2. reply \notin Tagged
    BY DEF Acknowledgment, Tagged
  <2>3. QED
    BY <2>1, <2>2, ReplyTyped
<1>4. logged \in Handler /\ HandlerOK(m, logged, audit.stops, ghl.tags)
  <2>1. logged \in Handler
    BY <1>2, <1>3, RouteFacts DEF Handler
  <2>2. logged.pc = "logging" /\ logged.reply = reply /\ logged.stop = handler[m].stop
        /\ logged.category = category /\ logged.sure = sure
        /\ logged.route = RouteOf(category, sure)
    BY <1>2 DEF Handler
  <2>3. QED
    BY <1>2, <1>3, <2>1, <2>2, RouteFacts DEF HandlerOK
<1>5. legacy \in Handler /\ HandlerOK(m, legacy, audit.stops, ghl.tags)
  BY <1>2 DEF Handler, HandlerOK
<1>6. UNCHANGED <<location, deliveries, log, audit, ghl, send>>
  BY DEF Classify
<1>7. deliveries' \in 0..MaxDeliveries
  BY <1>6 DEF IInv, TypeOK
<1>8. CASE location.enabled
  BY <1>1, <1>4, <1>6, <1>7, <1>8, RequestKeepsIInv
<1>9. CASE ~location.enabled
  BY <1>1, <1>5, <1>6, <1>7, <1>9, RequestKeepsIInv
<1>10. QED
  BY <1>8, <1>9

LEMMA CommitDecisionKeepsIInv ==
    ASSUME IInv, NEW m \in Message, CommitDecision(m)
    PROVE  IInv'
<1> DEFINE h == handler[m]
           new == [message |-> m, category |-> h.category, sure |-> h.sure, route |-> h.route,
                   overridden |-> FALSE]
<1>1. h \in Handler /\ h.pc = "logging" /\ HandlerOK(m, h, audit.stops, ghl.tags)
  BY DEF IInv, TypeOK, HandlersOK, CommitDecision
<1>2. UNCHANGED <<location, deliveries, audit, ghl, send>> /\ Accumulates
  BY DEF CommitDecision, Accumulates
<1>3. CASE h.channel \in LoggedChannel
  <2> DEFINE g == [h EXCEPT !.pc = AfterLog(h)]
  <2>1. log' = log \cup {new} /\ handler' = [handler EXCEPT ![m] = g]
    BY <1>3 DEF CommitDecision
  <2>2. g \in Handler
    BY <1>1 DEF Handler, AfterLog
  <2>3. HandlerOK(m, g, audit.stops, ghl.tags)
    BY <1>1 DEF HandlerOK, Handler, AfterLog
  <2>4. handler' \in [Message -> Handler] /\ HandlersOK'
    BY <1>2, <2>1, <2>2, <2>3, HandlerMoves DEF IInv, TypeOK
  <2>5. new \in LogRow /\ RowOK(new)
    BY <1>1 DEF LogRow, Handler, RowOK, HandlerOK
  <2>6. log' \subseteq LogRow /\ RowsOK'
    BY <2>1, <2>5 DEF RowsOK, IInv, TypeOK
  <2>7. QED
    BY <1>2, <2>4, <2>6 DEF IInv, TypeOK, SendsOK, ToldTagged
<1>4. CASE h.channel \notin LoggedChannel
  <2> DEFINE g == [h EXCEPT !.pc = "failed", !.reply = << >>]
  <2>1. UNCHANGED log /\ handler' = [handler EXCEPT ![m] = g]
    BY <1>4 DEF CommitDecision, IInv, TypeOK
  <2>2. << >> \in Seq(Action) /\ << >> \notin Tagged
    BY DEF Tagged
  <2>3. g \in Handler /\ g.pc = "failed" /\ g.reply = << >>
    BY <1>1, <2>2 DEF Handler
  <2>4. HandlerOK(m, g, audit.stops, ghl.tags)
    BY <2>2, <2>3 DEF HandlerOK, Reply, Acknowledgment
  <2>5. deliveries' \in 0..MaxDeliveries
    BY <1>2 DEF IInv, TypeOK
  <2>6. QED
    BY <1>2, <2>1, <2>3, <2>4, <2>5, RequestKeepsIInv
<1>5. QED
  BY <1>3, <1>4

LEMMA HandleStopKeepsIInv ==
    ASSUME IInv, NEW m \in Message, HandleStop(m)
    PROVE  IInv'
<1> DEFINE h == handler[m]
           g == [h EXCEPT !.pc = "answering", !.is_stop = TRUE, !.reply = StopActions]
<1>1. h \in Handler /\ handler' = [handler EXCEPT ![m] = g]
  BY DEF HandleStop, IInv, TypeOK
<1>2. UNCHANGED <<location, deliveries, log, ghl, send>>
  BY DEF HandleStop
<1>3. audit \in [stops : SUBSET (Message \X Channel), last : [AuditChannel -> Event]]
  BY DEF IInv, TypeOK
<1>4. audit' = [audit EXCEPT !.stops = audit.stops \cup {<<m, h.channel>>}]
  BY DEF HandleStop, RecordRevocation
<1>5. h.channel \in Channel
  BY <1>1 DEF Handler
<1>6. /\ audit' \in [stops : SUBSET (Message \X Channel), last : [AuditChannel -> Event]]
      /\ audit'.stops = audit.stops \cup {<<m, h.channel>>}
  BY <1>3, <1>4, <1>5
<1>7. StopActions \in Reply /\ StopActions \notin Tagged /\ StopActions \in Seq(Action)
  <2>1. StopActions \in Reply
    BY DEF Reply, Untagged
  <2>2. StopActions \notin Tagged
    BY DEF StopActions, Tagged
  <2>3. QED
    BY <2>1, <2>2, ReplyTyped
<1>8. g \in Handler /\ g.pc = "answering" /\ g.is_stop /\ g.reply = StopActions
      /\ g.channel = h.channel
  BY <1>1, <1>7 DEF Handler
<1>9. HandlerOK(m, g, audit'.stops, ghl'.tags)
  BY <1>6, <1>7, <1>8 DEF HandlerOK
<1>10. Accumulates
  BY <1>2, <1>6 DEF Accumulates
<1>11. handler' \in [Message -> Handler] /\ HandlersOK'
  BY <1>1, <1>8, <1>9, <1>10, HandlerMoves DEF IInv, TypeOK
<1>12. QED
  BY <1>2, <1>6, <1>11 DEF IInv, TypeOK, SendsOK, RowsOK, ToldTagged

\* StopRaises, Answer200: only the place in the handler changes.
LEMMA RequestEndsKeepsIInv ==
    ASSUME IInv, NEW m \in Message, StopRaises(m) \/ Answer200(m)
    PROVE  IInv'
<1>1. handler[m] \in Handler /\ HandlerOK(m, handler[m], audit.stops, ghl.tags)
  BY DEF IInv, TypeOK, HandlersOK
<1>2. UNCHANGED <<location, deliveries, log, audit, ghl, send>>
      /\ deliveries' \in 0..MaxDeliveries
  BY DEF StopRaises, Answer200, IInv, TypeOK
<1>3. CASE StopRaises(m)
  <2> DEFINE g == [handler[m] EXCEPT !.pc = "failed"]
  <2>1. handler' = [handler EXCEPT ![m] = g] /\ handler[m].pc = "stopping"
    BY <1>3 DEF StopRaises
  <2>2. g \in Handler /\ HandlerOK(m, g, audit.stops, ghl.tags)
    BY <1>1, <2>1 DEF Handler, HandlerOK
  <2>3. QED
    BY <1>2, <2>1, <2>2, RequestKeepsIInv
<1>4. CASE Answer200(m)
  <2> DEFINE g == [handler[m] EXCEPT !.pc = "answered"]
  <2>1. handler' = [handler EXCEPT ![m] = g] /\ handler[m].pc = "answering"
    BY <1>4 DEF Answer200
  <2>2. g \in Handler /\ HandlerOK(m, g, audit.stops, ghl.tags)
    BY <1>1, <2>1 DEF Handler, HandlerOK
  <2>3. QED
    BY <1>2, <2>1, <2>2, RequestKeepsIInv
<1>5. QED
  BY <1>3, <1>4

LEMMA FailKeepsIInv ==
    ASSUME IInv, NEW ms \in SUBSET Message, Fail(ms),
           UNCHANGED <<location, deliveries, log, audit, ghl, send>>
    PROVE  IInv'
<1>1. handler' \in [Message -> Handler] /\ HandlersOK'
  BY HandlersFail DEF IInv, TypeOK
<1>2. QED
  BY <1>1 DEF IInv, TypeOK, SendsOK, RowsOK, ToldTagged

-----------------------------------------------------------------------------
(* GHL, the endpoints and the sends.                                       *)

LEMMA CarryOutKeepsIInv ==
    ASSUME IInv, NEW m \in Message, CarryOut(m)
    PROVE  IInv'
<1> DEFINE h == handler[m]
           g == [h EXCEPT !.reply = Tail(h.reply)]
<1>1. h \in Handler /\ h.pc = "answered" /\ h.reply # << >> /\ ghl \in Ghl
      /\ HandlerOK(m, h, audit.stops, ghl.tags) /\ handler' = [handler EXCEPT ![m] = g]
  BY DEF IInv, TypeOK, HandlersOK, CarryOut
<1>2. UNCHANGED <<location, deliveries, log, audit, send>>
  BY DEF CarryOut
<1>3. /\ h.reply \in Reply /\ Tail(h.reply) \in Reply
      /\ Tail(h.reply) \in Tagged => Head(h.reply) = "apply_tag" \/ h.reply \in Tagged
      /\ Head(h.reply) = "confirm" => h.reply \in Tagged
  BY <1>1, ReplyShrinks DEF HandlerOK
<1>4. Tail(h.reply) \in Seq(Action)
  BY <1>3, ReplyTyped
<1>5. g \in Handler /\ g.pc = h.pc /\ g.stop = h.stop /\ g.route = h.route
      /\ g.is_stop = h.is_stop /\ g.channel = h.channel /\ g.reply = Tail(h.reply)
  BY <1>1, <1>4 DEF Handler
<1>6. /\ ghl' \in Ghl /\ ghl.tags \subseteq ghl'.tags
      /\ ghl'.told => ghl.told \/ Head(h.reply) = "confirm"
      /\ Head(h.reply) = "apply_tag" => ghl'.tags = {"opted-out"}
  <2>1. CASE Head(h.reply) = "update_contact_field"
    <3>1. ghl' = [ghl EXCEPT !.consent = [ghl.consent EXCEPT ![h.channel] = FALSE]]
      BY <1>1, <2>1 DEF CarryOut, Ghl
    <3>2. [ghl.consent EXCEPT ![h.channel] = FALSE] \in [Channel -> BOOLEAN]
      BY <1>1 DEF Ghl
    <3>3. QED
      BY <1>1, <2>1, <3>1, <3>2 DEF Ghl
  <2>2. CASE Head(h.reply) = "apply_tag"
    BY <1>1, <2>2 DEF CarryOut, Ghl
  <2>3. CASE Head(h.reply) = "confirm"
    BY <1>1, <2>3 DEF CarryOut, Ghl
  <2>4. CASE Head(h.reply) \notin {"update_contact_field", "apply_tag", "confirm"}
    BY <1>1, <2>4 DEF CarryOut, Ghl
  <2>5. QED
    BY <2>1, <2>2, <2>3, <2>4
<1>7. HandlerOK(m, g, audit'.stops, ghl'.tags)
  <2>1. Tail(h.reply) \in Tagged => "opted-out" \in ghl'.tags
    BY <1>1, <1>3, <1>6 DEF HandlerOK
  <2>2. QED
    BY <1>1, <1>2, <1>3, <1>5, <2>1 DEF HandlerOK
<1>8. Accumulates
  BY <1>2, <1>6 DEF Accumulates
<1>9. handler' \in [Message -> Handler] /\ HandlersOK'
  BY <1>1, <1>5, <1>7, <1>8, HandlerMoves DEF IInv, TypeOK
<1>10. ToldTagged'
  BY <1>1, <1>3, <1>6 DEF IInv, ToldTagged, HandlerOK
<1>11. QED
  BY <1>2, <1>6, <1>9, <1>10 DEF IInv, TypeOK, SendsOK, RowsOK

\* OptsIn, Withdraws: the tag is out of their reach.
LEMMA ConsentChangesKeepIInv ==
    ASSUME IInv, NEW c \in Consented, OptsIn(c) \/ Withdraws(c)
    PROVE  IInv'
<1>1. PICK b \in BOOLEAN : ghl' = [ghl EXCEPT !.consent[c] = b]
  BY DEF OptsIn, Withdraws
<1>2. UNCHANGED <<location, deliveries, handler, log, audit, send>>
  BY DEF OptsIn, Withdraws
<1>3. ghl \in Ghl
  BY DEF IInv, TypeOK
<1>4. ghl' = [ghl EXCEPT !.consent = [ghl.consent EXCEPT ![c] = b]]
  BY <1>1, <1>3 DEF Ghl
<1>5. [ghl.consent EXCEPT ![c] = b] \in [Channel -> BOOLEAN]
  BY <1>3 DEF Ghl
<1>6. ghl' \in Ghl /\ ghl'.tags = ghl.tags /\ ghl'.told = ghl.told
  BY <1>3, <1>4, <1>5 DEF Ghl
<1>7. HandlersOK'
  BY <1>2, <1>6, HandlersStand DEF Accumulates, IInv
<1>8. QED
  BY <1>2, <1>6, <1>7 DEF IInv, TypeOK, SendsOK, RowsOK, ToldTagged

\* A row of another kind touches no revocation.
LEMMA OtherRows ==
    ASSUME TypeOK, NEW last \in [AuditChannel -> Event], audit' = [audit EXCEPT !.last = last]
    PROVE  /\ audit' \in [stops : SUBSET (Message \X Channel), last : [AuditChannel -> Event]]
           /\ audit'.stops = audit.stops
BY DEF TypeOK

LEMMA LastRowTyped ==
    ASSUME TypeOK, NEW c \in AuditChannel, NEW event \in Event, LastRow(c, event)
    PROVE  /\ audit' \in [stops : SUBSET (Message \X Channel), last : [AuditChannel -> Event]]
           /\ audit'.stops = audit.stops
<1>1. audit' = [audit EXCEPT !.last = [audit.last EXCEPT ![c] = event]]
  BY DEF LastRow, TypeOK
<1>2. [audit.last EXCEPT ![c] = event] \in [AuditChannel -> Event]
  BY DEF TypeOK
<1>3. QED
  BY <1>1, <1>2, OtherRows

LEMMA EndpointsKeepIInv ==
    ASSUME IInv, UNCHANGED <<location, deliveries, handler, log, ghl, send>>,
           audit' \in [stops : SUBSET (Message \X Channel), last : [AuditChannel -> Event]],
           audit'.stops = audit.stops
    PROVE  IInv'
<1>1. HandlersOK'
  BY HandlersStand DEF Accumulates, IInv
<1>2. QED
  BY <1>1 DEF IInv, TypeOK, SendsOK, RowsOK, ToldTagged

\* An override marks the row and leaves its route alone.
LEMMA OverrideKeepsIInv ==
    ASSUME IInv, NEW row \in log, OverrideClassification(row)
    PROVE  IInv'
<1> DEFINE new == [row EXCEPT !.overridden = TRUE]
<1>1. row \in LogRow /\ RowOK(row)
  BY DEF IInv, TypeOK, RowsOK
<1>2. new \in LogRow /\ RowOK(new)
  BY <1>1 DEF LogRow, RowOK
<1>3. log' = (log \ {row}) \cup {new}
  BY DEF OverrideClassification
<1>4. UNCHANGED <<location, deliveries, handler, audit, ghl, send>>
  BY DEF OverrideClassification
<1>5. log' \subseteq LogRow /\ RowsOK'
  BY <1>2, <1>3 DEF IInv, TypeOK, RowsOK
<1>6. HandlersOK'
  BY <1>4, HandlersStand DEF Accumulates, IInv
<1>7. QED
  BY <1>4, <1>5, <1>6 DEF IInv, TypeOK, SendsOK, ToldTagged

\* One workflow moves on.
LEMMA SendKeepsIInv ==
    ASSUME IInv, UNCHANGED <<location, deliveries, handler, log, ghl>>,
           audit' \in [stops : SUBSET (Message \X Channel), last : [AuditChannel -> Event]],
           audit'.stops = audit.stops,
           NEW s \in Send, NEW w \in Workflow, send' = [send EXCEPT ![s] = w], SendOK(w)
    PROVE  IInv'
<1>1. HandlersOK'
  BY HandlersStand DEF Accumulates, IInv
<1>2. send' \in [Send -> Workflow] /\ SendsOK'
  BY DEF IInv, TypeOK, SendsOK, SendOK, GateAllows
<1>3. QED
  BY <1>1, <1>2 DEF IInv, TypeOK, RowsOK, ToldTagged

LEMMA AskGateKeepsIInv ==
    ASSUME IInv, NEW s \in Send, NEW c \in Consented, NEW transactional \in BOOLEAN,
           AskGate(s, c, transactional)
    PROVE  IInv'
<1> DEFINE w == [pc |-> "asking", channel |-> c, transactional |-> transactional,
                 consent |-> ghl.consent[c], tags |-> ghl.tags, told |-> ghl.told]
<1>1. c \in AuditChannel /\ c \in Channel
  BY InboundAssumption DEF Channel
<1>2. w \in Workflow
  BY <1>1 DEF IInv, TypeOK, Ghl, Workflow
<1>3. SendOK(w)
  BY DEF SendOK, IInv, ToldTagged
<1>4. send' = [send EXCEPT ![s] = w]
      /\ UNCHANGED <<location, deliveries, handler, log, audit, ghl>>
  BY DEF AskGate
<1>5. audit \in [stops : SUBSET (Message \X Channel), last : [AuditChannel -> Event]]
  BY DEF IInv, TypeOK
<1>6. QED
  BY <1>2, <1>3, <1>4, <1>5, SendKeepsIInv

LEMMA WorkflowKeepsIInv ==
    ASSUME IInv, NEW s \in Send, ConsentGate(s) \/ Sends(s) \/ GateFails(s)
    PROVE  IInv'
<1> DEFINE w(pc) == [send[s] EXCEPT !.pc = pc]
<1>1. send[s] \in Workflow /\ SendOK(send[s])
  BY DEF IInv, TypeOK, SendsOK
<1>2. audit \in [stops : SUBSET (Message \X Channel), last : [AuditChannel -> Event]]
  BY DEF IInv, TypeOK
<1>3. UNCHANGED <<location, deliveries, handler, log, ghl>>
  BY DEF ConsentGate, Sends, GateFails
<1>4. w("denied") \in Workflow /\ SendOK(w("denied"))
  BY <1>1 DEF Workflow, SendOK
<1>5. CASE ConsentGate(s) /\ GateAllows(send[s])
  <2>1. w("allowed") \in Workflow /\ SendOK(w("allowed"))
    BY <1>1, <1>5 DEF Workflow, SendOK, GateAllows
  <2>2. send' = [send EXCEPT ![s] = w("allowed")] /\ UNCHANGED audit
    BY <1>5 DEF ConsentGate
  <2>3. QED
    BY <1>2, <1>3, <2>1, <2>2, SendKeepsIInv
<1>6. CASE ConsentGate(s) /\ ~GateAllows(send[s])
  <2>1. send' = [send EXCEPT ![s] = w("denied")] /\ LastRow(send[s].channel, "blocked-send")
    BY <1>6 DEF ConsentGate
  <2>2. send[s].channel \in AuditChannel /\ "blocked-send" \in Event
    BY <1>1 DEF Workflow, Event
  <2>3. /\ audit' \in [stops : SUBSET (Message \X Channel), last : [AuditChannel -> Event]]
        /\ audit'.stops = audit.stops
    BY <2>1, <2>2, LastRowTyped DEF IInv
  <2>4. QED
    BY <1>3, <1>4, <2>1, <2>3, SendKeepsIInv
<1>7. CASE Sends(s)
  <2>1. w("sent") \in Workflow /\ SendOK(w("sent"))
    BY <1>1, <1>7 DEF Workflow, SendOK, GateAllows, Sends
  <2>2. send' = [send EXCEPT ![s] = w("sent")] /\ UNCHANGED audit
    BY <1>7 DEF Sends
  <2>3. QED
    BY <1>2, <1>3, <2>1, <2>2, SendKeepsIInv
<1>8. CASE GateFails(s)
  <2>1. send' = [send EXCEPT ![s] = w("denied")] /\ UNCHANGED audit
    BY <1>8 DEF GateFails
  <2>2. QED
    BY <1>2, <1>3, <1>4, <2>1, SendKeepsIInv
<1>9. QED
  BY <1>5, <1>6, <1>7, <1>8

-----------------------------------------------------------------------------
(* All steps.                                                              *)

LEMMA NextIInv == IInv /\ [Next]_vars => IInv'
<1> SUFFICES ASSUME IInv, [Next]_vars PROVE IInv'
  OBVIOUS
<1>1. ASSUME NEW m \in Message, NEW raw \in RawChannel, NEW stop \in BOOLEAN,
             Receive(m, raw, stop)
      PROVE  IInv'
  BY <1>1, ReceiveKeepsIInv
<1>2. ASSUME NEW m \in Message, NEW category \in Answer, NEW sure \in BOOLEAN,
             Classify(m, category, sure)
      PROVE  IInv'
  BY <1>2, ClassifyKeepsIInv, InboundAssumption
<1>3. ASSUME NEW m \in Message, Classify(m, "low_confidence", FALSE) PROVE IInv'
  BY <1>3, ClassifyKeepsIInv DEF Category
<1>4. ASSUME NEW m \in Message, CommitDecision(m) PROVE IInv'
  BY <1>4, CommitDecisionKeepsIInv
<1>5. ASSUME NEW m \in Message, HandleStop(m) PROVE IInv'
  BY <1>5, HandleStopKeepsIInv
<1>6. ASSUME NEW m \in Message, StopRaises(m) \/ Answer200(m) PROVE IInv'
  BY <1>6, RequestEndsKeepsIInv
<1>7. ASSUME NEW m \in Message, CarryOut(m) PROVE IInv'
  BY <1>7, CarryOutKeepsIInv
<1>8. ASSUME NEW m \in Message, CommitFails(m) \/ AnswerLost(m) PROVE IInv'
  BY <1>8, FailKeepsIInv DEF CommitFails, AnswerLost
<1>9. ASSUME NEW c \in Consented, OptsIn(c) \/ Withdraws(c) PROVE IInv'
  BY <1>9, ConsentChangesKeepIInv
<1>10. ASSUME NEW c \in Consented, GrantConsent(c) \/ RevokeConsent(c) PROVE IInv'
  <2>1. UNCHANGED <<location, deliveries, handler, log, ghl, send>>
    BY <1>10 DEF GrantConsent, RevokeConsent
  <2>2. /\ audit' \in [stops : SUBSET (Message \X Channel), last : [AuditChannel -> Event]]
        /\ audit'.stops = audit.stops
    BY <1>10, LastRowTyped, InboundAssumption DEF GrantConsent, RevokeConsent, Event, IInv
  <2>3. QED
    BY <2>1, <2>2, EndpointsKeepIInv
<1>11. ASSUME NEW channels \in SUBSET Consented, UpdatePreferenceCentre(channels) PROVE IInv'
  <2> DEFINE last == [c \in AuditChannel |->
                 IF c \in channels THEN "preference-centre-update" ELSE audit.last[c]]
  <2>1. UNCHANGED <<location, deliveries, handler, log, ghl, send>>
        /\ audit' = [audit EXCEPT !.last = last]
    BY <1>11 DEF UpdatePreferenceCentre
  <2>2. last \in [AuditChannel -> Event]
    BY DEF IInv, TypeOK, Event
  <2>3. /\ audit' \in [stops : SUBSET (Message \X Channel), last : [AuditChannel -> Event]]
        /\ audit'.stops = audit.stops
    BY <2>1, <2>2, OtherRows DEF IInv
  <2>4. QED
    BY <2>1, <2>3, EndpointsKeepIInv
<1>12. ASSUME NEW row \in log, OverrideClassification(row) PROVE IInv'
  BY <1>12, OverrideKeepsIInv
<1>13. ASSUME NEW s \in Send, NEW c \in Consented, NEW transactional \in BOOLEAN,
              AskGate(s, c, transactional)
       PROVE  IInv'
  BY <1>13, AskGateKeepsIInv
<1>14. ASSUME NEW s \in Send, ConsentGate(s) \/ Sends(s) \/ GateFails(s) PROVE IInv'
  BY <1>14, WorkflowKeepsIInv
<1>15. ASSUME Die PROVE IInv'
  BY <1>15, FailKeepsIInv DEF Die, Busy
<1>16. CASE UNCHANGED vars
  BY <1>16 DEF vars, IInv, TypeOK, HandlersOK, SendsOK, RowsOK, ToldTagged
<1>17. QED
  BY <1>1, <1>2, <1>3, <1>4, <1>5, <1>6, <1>7, <1>8, <1>9, <1>10, <1>11, <1>12, <1>13, <1>14,
     <1>15, <1>16 DEF Next

\* The inductive invariant: what is left of an answer, a request's place in the
\* handler and what is on record fit together in every reachable state.
THEOREM Invariance == Spec => []IInv
BY InitIInv, NextIInv, PTL DEF Spec

\* Every variable keeps its type.
THEOREM TypeCorrect == Spec => []TypeOK
<1>1. IInv => TypeOK
  BY DEF IInv
<1>2. QED
  BY <1>1, Invariance, PTL

\* No marketing gets leave from the gate once the customer has been told.
THEOREM Final == Spec => []ToldIsFinal
<1>1. IInv => ToldIsFinal
  BY DEF IInv, SendsOK, SendOK, GateAllows, ToldIsFinal
<1>2. QED
  BY <1>1, Invariance, PTL

\* An answered opt-out is answered as one and on record.
THEOREM OnRecord == Spec => []OptOutOnRecord
<1>1. IInv => OptOutOnRecord
  BY DEF IInv, HandlersOK, HandlerOK, OptOutOnRecord
<1>2. QED
  BY <1>1, Invariance, PTL

\* Sensitive and doubtful messages are the owner's, whatever the settings.
THEOREM OwnersChoice == Spec => []OwnerDecides
<1>1. IInv => OwnerDecides
  BY DEF IInv, RowsOK, RowOK, LeftToOwner, OwnerDecides
<1>2. QED
  BY <1>1, Invariance, PTL

=============================================================================
