---------------------------- MODULE AiBudgetProofs ----------------------------
(***************************************************************************)
(* The budget for any number of concurrent calls and warnings, any budget  *)
(* and any prices.                                                         *)
(***************************************************************************)
EXTENDS AiBudget, FiniteSetTheorems, TLAPS

Plain(c) == call[c].pc # "idle" /\ ~is_essential_call(call[c].use)

\* Non-essential calls under way whose cost will land in a month.
Lands(m) ==
    {c \in Caller : Plain(c) /\ IF call[c].pc = "written" THEN call[c].ts = m ELSE month = m}

\* Every call under way has its part of the overshoot.
Within(m) ==
    usage[m].other + Cardinality(Lands(m)) * MaxCost + 1 <= Budget + Cardinality(Caller) * MaxCost

SpendOK ==
    /\ \A m \in Month : m > month => usage[m].other = 0
    /\ \A c \in Caller : call[c].pc = "written" => call[c].ts \in Month /\ call[c].ts <= month
    /\ Budget > 0 => \A m \in Month : Within(m)

\* Warnings under way with a month_key, and senders that are not held by an older
\* one.
Sending(m) == {w \in Monitor : monitor[w].pc = "sending" /\ monitor[w].key = m}
Old == {w \in Monitor : monitor[w].pc = "sending" /\ monitor[w].key # month}
Current == Monitor \ Old

Twice(n) == 2 * n
Pairs(n) == n * (n + 1)

\* While the month is not noted, the free senders may all send once; each older
\* warning that ends frees one more, and has them send again.
MailsOK ==
    /\ warned <= month
    /\ \A w \in Monitor : monitor[w].pc = "sending" => monitor[w].key \in Month /\ monitor[w].key <= month
    /\ \A m \in Month : m > month => mails[m] = 0
    /\ \A m \in Month : m < month =>
          Twice(mails[m]) + Twice(Cardinality(Sending(m))) <= Pairs(Concurrency)
    /\ warned = month =>
          Twice(mails[month]) + Twice(Cardinality(Sending(month))) <= Pairs(Cardinality(Current))
    /\ warned # month =>
          Twice(mails[month]) + Twice(Cardinality(Current)) <= Pairs(Cardinality(Current))

IInv == TypeOK /\ SpendOK /\ MailsOK

-----------------------------------------------------------------------------
(* Arithmetic.                                                             *)

LEMMA Grows == \A m, n \in Nat : m <= n => Pairs(m) <= Pairs(n)
<1>1. SUFFICES ASSUME NEW m \in Nat, NEW n \in Nat, m <= n PROVE m * (m + 1) <= n * (n + 1)
  BY DEF Pairs
<1>2. m * (m + 1) <= n * (m + 1)
  BY <1>1
<1>3. n * (m + 1) <= n * (n + 1)
  BY <1>1
<1>4. m * (m + 1) \in Nat /\ n * (m + 1) \in Nat /\ n * (n + 1) \in Nat
  OBVIOUS
<1>5. QED
  BY <1>2, <1>3, <1>4

LEMMA OneMore == \A n \in Nat : Pairs(n) \in Nat /\ Pairs(n + 1) = Pairs(n) + Twice(n + 1)
BY DEF Pairs, Twice

LEMMA AtLeastTwice == \A n \in Nat : Twice(n) <= Pairs(n)
<1>1. SUFFICES ASSUME NEW n \in Nat PROVE Twice(n) <= Pairs(n)
  OBVIOUS
<1>2. CASE n = 0
  BY <1>2 DEF Twice, Pairs
<1>3. CASE n > 0
  <2>1. 2 <= n + 1 /\ n * 2 <= n * (n + 1)
    BY <1>3
  <2>2. QED
    BY <2>1 DEF Twice, Pairs
<1>4. QED
  BY <1>2, <1>3

LEMMA Halves == \A x, y \in Nat : Twice(x) <= y => x <= y \div 2
BY DEF Twice

LEMMA Products ==
    \A n, m \in Nat : /\ n * MaxCost \in Nat
                      /\ n <= m => n * MaxCost <= m * MaxCost
                      /\ (n + 1) * MaxCost = n * MaxCost + MaxCost
<1>1. MaxCost \in Nat
  BY CostAssumption
<1>2. QED
  BY <1>1

-----------------------------------------------------------------------------
(* Types and cardinalities.                                                *)

LEMMA Assumed ==
    /\ Budget \in Nat /\ MaxCost \in Nat /\ Cost \subseteq 0..MaxCost
    /\ Months \in Nat /\ 1 \in Month /\ Month \subseteq Nat
    /\ IsFiniteSet(Caller) /\ IsFiniteSet(Monitor)
    /\ Cardinality(Caller) \in Nat /\ Concurrency \in Nat
BY CostAssumption, MonthsAssumption, ConcurrencyAssumption, FS_CardinalityType DEF Month, Concurrency

LEMMA Types ==
    ASSUME TypeOK
    PROVE  /\ month \in Month /\ month \in Nat
           /\ \A m \in Month : /\ usage[m].other \in Nat /\ usage[m].essential \in Nat
                               /\ mails[m] \in Nat /\ m \in Nat
           /\ \A c \in Caller : /\ call[c].use \in Use /\ call[c].cost \in 0..MaxCost
                                /\ call[c].cost \in Nat
                                /\ call[c].ts \in {0} \cup Month
           /\ \A w \in Monitor : monitor[w].key \in {0} \cup Month
           /\ warned \in {0} \cup Month /\ warned \in Nat
<1>1. \A m \in Month : /\ usage[m].other \in Nat /\ usage[m].essential \in Nat
                       /\ mails[m] \in Nat /\ m \in Nat
  BY Assumed DEF TypeOK
<1>2. \A c \in Caller : /\ call[c].use \in Use /\ call[c].cost \in 0..MaxCost
                        /\ call[c].cost \in Nat
                        /\ call[c].ts \in {0} \cup Month
  BY Assumed DEF TypeOK
<1>3. \A w \in Monitor : monitor[w].key \in {0} \cup Month
  BY DEF TypeOK
<1>4. QED
  BY <1>1, <1>2, <1>3, Assumed DEF TypeOK

LEMMA LandsFinite ==
    \A m \in Month : /\ Lands(m) \subseteq Caller /\ IsFiniteSet(Lands(m))
                     /\ Cardinality(Lands(m)) \in Nat
                     /\ Cardinality(Lands(m)) <= Cardinality(Caller)
BY Assumed, FS_Subset, FS_CardinalityType DEF Lands

LEMMA SendersFinite ==
    /\ Current \subseteq Monitor /\ IsFiniteSet(Current)
    /\ Cardinality(Current) \in Nat /\ Cardinality(Current) <= Concurrency
    /\ \A m \in Month : /\ IsFiniteSet(Sending(m)) /\ Cardinality(Sending(m)) \in Nat
                        /\ Sending(m) \subseteq Monitor
                        /\ Cardinality(Sending(m)) <= Concurrency
    /\ Sending(month) \subseteq Current
    /\ Cardinality(Sending(month)) <= Cardinality(Current)
<1>1. Current \subseteq Monitor /\ Sending(month) \subseteq Current
      /\ \A m \in Month : Sending(m) \subseteq Monitor
  BY DEF Current, Old, Sending
<1>2. IsFiniteSet(Current) /\ Cardinality(Current) \in Nat /\ Cardinality(Current) <= Concurrency
  BY <1>1, Assumed, FS_Subset, FS_CardinalityType DEF Concurrency
<1>3. ASSUME NEW m \in Month
      PROVE  /\ IsFiniteSet(Sending(m)) /\ Cardinality(Sending(m)) \in Nat
             /\ Cardinality(Sending(m)) <= Concurrency
  BY <1>1, Assumed, FS_Subset, FS_CardinalityType DEF Concurrency
<1>4. Cardinality(Sending(month)) <= Cardinality(Current)
  BY <1>1, <1>2, FS_Subset
<1>5. QED
  BY <1>1, <1>2, <1>3, <1>4

-----------------------------------------------------------------------------
(* Calls.                                                                  *)

LEMMA SpendStands ==
    ASSUME SpendOK, UNCHANGED <<month, usage, call>>
    PROVE  SpendOK'
BY DEF SpendOK, Within, Lands, Plain

LEMMA MailsStand ==
    ASSUME MailsOK, UNCHANGED <<month, monitor, warned, mails>>
    PROVE  MailsOK'
BY DEF MailsOK, Sending, Current, Old

\* One call moves on; what lands grows only by a call that was let through.
LEMMA CallMoves ==
    ASSUME TypeOK, SpendOK, UNCHANGED <<month, usage>>, NEW c \in Caller,
           \A d \in Caller : d # c => call'[d] = call[d],
           (call'[c].pc = "written" => call'[c].ts \in Month /\ call'[c].ts <= month),
           \A m \in Month : c \in Lands(m)' =>
              \/ c \in Lands(m)
              \/ m = month /\ (Budget > 0 => usage[month].other < Budget)
    PROVE  SpendOK'
<1>1. \A d \in Caller : call'[d].pc = "written" => call'[d].ts \in Month /\ call'[d].ts <= month'
  BY DEF SpendOK
<1>2. ASSUME Budget > 0, NEW m \in Month PROVE Within(m)'
  <2>1. \A d \in Caller : d # c => (d \in Lands(m)' <=> d \in Lands(m))
    BY DEF Lands, Plain
  <2>2. /\ Lands(m)' \subseteq Caller /\ IsFiniteSet(Lands(m)')
        /\ Cardinality(Lands(m)') \in Nat /\ Cardinality(Lands(m)') <= Cardinality(Caller)
    BY Assumed, FS_Subset, FS_CardinalityType DEF Lands
  <2>3. CASE c \in Lands(m)' => c \in Lands(m)
    <3>1. Lands(m)' \subseteq Lands(m)
      BY <2>1, <2>2, <2>3
    <3>2. Cardinality(Lands(m)') <= Cardinality(Lands(m))
      BY <3>1, LandsFinite, FS_Subset
    <3>3. Cardinality(Lands(m)') * MaxCost <= Cardinality(Lands(m)) * MaxCost
      BY <2>2, <3>2, LandsFinite, Products
    <3>4. /\ Cardinality(Lands(m)') * MaxCost \in Nat /\ Cardinality(Lands(m)) * MaxCost \in Nat
          /\ Cardinality(Caller) * MaxCost \in Nat /\ usage[m].other \in Nat /\ Budget \in Nat
      BY <2>2, LandsFinite, Products, Assumed, Types
    <3>5. Within(m)
      BY <1>2 DEF SpendOK
    <3>6. QED
      BY <3>3, <3>4, <3>5 DEF Within
  <2>4. CASE m = month /\ usage[month].other < Budget
    <3>1. Cardinality(Lands(m)') * MaxCost <= Cardinality(Caller) * MaxCost
      BY <2>2, Products, Assumed
    <3>2. /\ Cardinality(Lands(m)') * MaxCost \in Nat
          /\ Cardinality(Caller) * MaxCost \in Nat /\ usage[m].other \in Nat /\ Budget \in Nat
      BY <2>2, Products, Assumed, Types
    <3>3. QED
      BY <2>4, <3>1, <3>2 DEF Within
  <2>5. QED
    BY <1>2, <2>3, <2>4
<1>3. QED
  BY <1>1, <1>2 DEF SpendOK

CallRecord == [pc : {"idle", "primary", "fallback", "written"}, use : Use,
               cost : 0..MaxCost, ts : {0} \cup Month]

LEMMA IdleCall == /\ Idle \in CallRecord /\ Idle.pc = "idle"
                  /\ \A use \in Use : LET begun == [Idle EXCEPT !.pc = "primary", !.use = use] IN
                        begun \in CallRecord /\ begun.pc = "primary" /\ begun.use = use
<1>1. Idle \in CallRecord /\ Idle.pc = "idle"
  BY Assumed DEF Idle, CallRecord, Use
<1>2. ASSUME NEW use \in Use
      PROVE  LET begun == [Idle EXCEPT !.pc = "primary", !.use = use] IN
                begun \in CallRecord /\ begun.pc = "primary" /\ begun.use = use
  BY <1>1 DEF CallRecord
<1>3. QED
  BY <1>1, <1>2

LEMMA CallTyped ==
    ASSUME TypeOK, NEW c \in Caller, NEW rec \in CallRecord, call' = [call EXCEPT ![c] = rec]
    PROVE  /\ call' \in [Caller -> CallRecord] /\ call'[c] = rec
           /\ \A d \in Caller : d # c => call'[d] = call[d]
BY DEF TypeOK, CallRecord

LEMMA BeginKeepsIInv ==
    ASSUME IInv, NEW c \in Caller, NEW use \in Use, Begin(c, use)
    PROVE  IInv'
<1> DEFINE rec == [Idle EXCEPT !.pc = "primary", !.use = use]
<1>1. rec \in CallRecord /\ rec.pc = "primary" /\ rec.use = use
  BY IdleCall
<1>2. TypeOK /\ SpendOK /\ MailsOK /\ UNCHANGED <<month, usage, monitor, warned, mails>>
      /\ call' = [call EXCEPT ![c] = rec]
  BY DEF IInv, Begin
<1>3. /\ call' \in [Caller -> CallRecord] /\ call'[c] = rec
      /\ \A d \in Caller : d # c => call'[d] = call[d]
  <2> HIDE DEF rec
  <2>1. QED
    BY <1>1, <1>2, CallTyped
<1>4. TypeOK'
  BY <1>2, <1>3 DEF TypeOK, CallRecord
<1>5. ASSUME ~is_essential_call(use), Budget > 0 PROVE usage[month].other < Budget
  <2>1. Checked(use)
    BY <1>5 DEF Checked, Classification, is_essential_call
  <2>2. ~is_hard_cap_exceeded(get_monthly_spend)
    BY <1>5, <2>1 DEF Begin, Refused
  <2>3. usage[month].essential + usage[month].other < Budget
    BY <1>2, <1>5, <2>2, Assumed, Types DEF is_hard_cap_exceeded, get_monthly_spend
  <2>4. QED
    BY <1>2, <2>3, Assumed, Types
<1>6. \A m \in Month : c \in Lands(m)' =>
         m = month /\ (Budget > 0 => usage[month].other < Budget)
  BY <1>1, <1>2, <1>3, <1>5 DEF Lands, Plain
<1>7. call'[c].pc # "written"
  BY <1>1, <1>3
<1>8. SpendOK'
  BY <1>2, <1>3, <1>6, <1>7, CallMoves
<1>9. MailsOK'
  BY <1>2, MailsStand
<1>10. QED
  BY <1>4, <1>8, <1>9 DEF IInv

LEMMA FallBackKeepsIInv ==
    ASSUME IInv, NEW c \in Caller, FallBack(c)
    PROVE  IInv'
<1> DEFINE rec == [call[c] EXCEPT !.pc = "fallback"]
<1>1. TypeOK /\ SpendOK /\ MailsOK /\ UNCHANGED <<month, usage, monitor, warned, mails>>
      /\ call[c] \in CallRecord /\ call[c].pc = "primary"
  BY DEF IInv, FallBack, TypeOK, CallRecord
<1>2. rec \in CallRecord /\ rec.pc = "fallback" /\ rec.use = call[c].use
  BY <1>1 DEF CallRecord
<1>3. call' = [call EXCEPT ![c] = rec]
  BY <1>1 DEF FallBack, TypeOK
<1>4. /\ call' \in [Caller -> CallRecord] /\ call'[c] = rec
      /\ \A d \in Caller : d # c => call'[d] = call[d]
  <2> HIDE DEF rec
  <2>1. QED
    BY <1>1, <1>2, <1>3, CallTyped
<1>5. TypeOK'
  BY <1>1, <1>4 DEF TypeOK, CallRecord
<1>6. \A m \in Month : c \in Lands(m)' => c \in Lands(m)
  BY <1>1, <1>2, <1>4 DEF Lands, Plain
<1>7. SpendOK'
  BY <1>1, <1>2, <1>4, <1>6, CallMoves
<1>8. MailsOK'
  BY <1>1, MailsStand
<1>9. QED
  BY <1>5, <1>7, <1>8 DEF IInv

LEMMA AnswerKeepsIInv ==
    ASSUME IInv, NEW c \in Caller, Answer(c)
    PROVE  IInv'
<1>1. PICK cost \in Cost :
         call' = [call EXCEPT ![c].pc = "written", ![c].cost = cost, ![c].ts = month]
  BY DEF Answer
<1> DEFINE rec == [call[c] EXCEPT !.pc = "written", !.cost = cost, !.ts = month]
<1>2. TypeOK /\ SpendOK /\ MailsOK /\ UNCHANGED <<month, usage, monitor, warned, mails>>
      /\ call[c] \in CallRecord /\ call[c].pc \in {"primary", "fallback"}
  BY DEF IInv, Answer, TypeOK, CallRecord
<1>3. rec \in CallRecord /\ rec.pc = "written" /\ rec.use = call[c].use /\ rec.ts = month
  BY <1>2, Assumed, Types DEF CallRecord
<1>4. call' = [call EXCEPT ![c] = rec]
  BY <1>1, <1>2 DEF TypeOK
<1>5. /\ call' \in [Caller -> CallRecord] /\ call'[c] = rec
      /\ \A d \in Caller : d # c => call'[d] = call[d]
  <2> HIDE DEF rec
  <2>1. QED
    BY <1>2, <1>3, <1>4, CallTyped
<1>6. TypeOK'
  BY <1>2, <1>5 DEF TypeOK, CallRecord
<1>7. \A m \in Month : c \in Lands(m)' => c \in Lands(m)
  BY <1>2, <1>3, <1>5 DEF Lands, Plain
<1>8. call'[c].ts \in Month /\ call'[c].ts <= month
  BY <1>2, <1>3, <1>5, Types
<1>9. SpendOK'
  BY <1>2, <1>5, <1>7, <1>8, CallMoves
<1>10. MailsOK'
  BY <1>2, MailsStand
<1>11. QED
  BY <1>6, <1>9, <1>10 DEF IInv

LEMMA LoseKeepsIInv ==
    ASSUME IInv, NEW c \in Caller, Lose(c)
    PROVE  IInv'
<1>1. TypeOK /\ SpendOK /\ MailsOK /\ UNCHANGED <<month, usage, monitor, warned, mails>>
      /\ call' = [call EXCEPT ![c] = Idle]
  BY DEF IInv, Lose
<1>2. /\ call' \in [Caller -> CallRecord] /\ call'[c] = Idle
      /\ \A d \in Caller : d # c => call'[d] = call[d]
  BY <1>1, IdleCall, CallTyped
<1>3. TypeOK'
  BY <1>1, <1>2 DEF TypeOK, CallRecord
<1>4. \A m \in Month : c \notin Lands(m)'
  BY <1>2, IdleCall DEF Lands, Plain
<1>5. SpendOK'
  BY <1>1, <1>2, <1>4, IdleCall, CallMoves
<1>6. MailsOK'
  BY <1>1, MailsStand
<1>7. QED
  BY <1>3, <1>5, <1>6 DEF IInv

LEMMA RecordKeepsIInv ==
    ASSUME IInv, NEW c \in Caller, Record(c)
    PROVE  IInv'
<1> DEFINE k == call[c].ts
           cost == call[c].cost
<1>1. /\ TypeOK /\ SpendOK /\ MailsOK /\ UNCHANGED <<month, monitor, warned, mails>>
      /\ call[c].pc = "written" /\ call' = [call EXCEPT ![c] = Idle]
      /\ usage' = IF is_essential_call(call[c].use)
                  THEN [usage EXCEPT ![k].essential = @ + cost]
                  ELSE [usage EXCEPT ![k].other = @ + cost]
  BY DEF IInv, Record
<1>2. k \in Month /\ k <= month /\ cost \in Nat /\ cost <= MaxCost
  BY <1>1, Types, Assumed DEF SpendOK
<1> HIDE DEF k, cost
<1>3. /\ usage' \in [Month -> [essential : Nat, other : Nat]]
      /\ \A m \in Month : m # k => usage'[m].other = usage[m].other
      /\ is_essential_call(call[c].use) => usage'[k].other = usage[k].other
      /\ ~is_essential_call(call[c].use) => usage'[k].other = usage[k].other + cost
  BY <1>1, <1>2 DEF TypeOK
<1>4. /\ call' \in [Caller -> CallRecord] /\ call'[c] = Idle
      /\ \A d \in Caller : d # c => call'[d] = call[d]
  BY <1>1, IdleCall, CallTyped
<1>5. TypeOK'
  BY <1>1, <1>3, <1>4 DEF TypeOK, CallRecord
<1>6. \A m \in Month : Lands(m)' = Lands(m) \ {c}
  BY <1>1, <1>4, IdleCall DEF Lands, Plain
<1>7. ASSUME NEW m \in Month, Within(m) PROVE Within(m)'
  <2>1. /\ Cardinality(Lands(m)) * MaxCost \in Nat /\ Cardinality(Caller) * MaxCost \in Nat
        /\ usage[m].other \in Nat /\ Budget \in Nat /\ MaxCost \in Nat
    BY <1>1, LandsFinite, Products, Assumed, Types
  <2>2. CASE c \in Lands(m)
    <3>1. m = k /\ ~is_essential_call(call[c].use)
      BY <1>1, <2>2 DEF Lands, Plain, k
    <3>2. /\ Cardinality(Lands(m)') \in Nat
          /\ Cardinality(Lands(m)) = Cardinality(Lands(m)') + 1
      <4>1. Cardinality(Lands(m) \ {c}) = Cardinality(Lands(m)) - 1 /\ IsFiniteSet(Lands(m) \ {c})
        BY <2>2, LandsFinite, FS_RemoveElement
      <4>2. Cardinality(Lands(m)') = Cardinality(Lands(m) \ {c})
        BY <1>6
      <4>3. Cardinality(Lands(m) \ {c}) \in Nat /\ Cardinality(Lands(m)) \in Nat
        BY <4>1, FS_CardinalityType, LandsFinite
      <4>4. Cardinality(Lands(m)) = Cardinality(Lands(m) \ {c}) + 1
        BY <4>1, <4>3
      <4>5. QED
        BY <4>2, <4>3, <4>4
    <3>3. /\ Cardinality(Lands(m)') * MaxCost \in Nat
          /\ Cardinality(Lands(m)) * MaxCost = Cardinality(Lands(m)') * MaxCost + MaxCost
      BY <3>2, Products
    <3>4. usage'[m].other = usage[m].other + cost
      BY <1>3, <3>1
    <3>5. QED
      BY <1>2, <1>7, <2>1, <3>3, <3>4 DEF Within
  <2>3. CASE c \notin Lands(m)
    <3>1. Lands(m)' = Lands(m)
      BY <1>6, <2>3
    <3>2. m # k \/ is_essential_call(call[c].use)
      BY <1>1, <2>3 DEF Lands, Plain, k
    <3>3. usage'[m].other = usage[m].other
      BY <1>3, <3>2
    <3>4. QED
      BY <1>7, <3>1, <3>3 DEF Within
  <2>4. QED
    BY <2>2, <2>3
<1>8. SpendOK'
  <2>1. \A m \in Month : m > month => usage'[m].other = 0
    <3>1. \A m \in Month : m > month => m # k
      BY <1>1, <1>2, Assumed, Types
    <3>2. QED
      BY <1>1, <1>3, <3>1 DEF SpendOK
  <2>2. \A d \in Caller : call'[d].pc = "written" => call'[d].ts \in Month /\ call'[d].ts <= month
    BY <1>1, <1>4, IdleCall DEF SpendOK
  <2>3. QED
    BY <1>1, <1>7, <2>1, <2>2 DEF SpendOK
<1>9. MailsOK'
  BY <1>1, MailsStand
<1>10. QED
  BY <1>5, <1>8, <1>9 DEF IInv

-----------------------------------------------------------------------------
(* Warnings.                                                               *)

MonitorRecord == [pc : {"idle", "checked", "sending"}, soft : BOOLEAN, key : {0} \cup Month]

LEMMA NoWarningRecord == NoWarning \in MonitorRecord /\ NoWarning.pc = "idle"
BY DEF NoWarning, MonitorRecord

LEMMA MonitorTyped ==
    ASSUME TypeOK, NEW w \in Monitor, NEW rec \in MonitorRecord,
           monitor' = [monitor EXCEPT ![w] = rec]
    PROVE  /\ monitor' \in [Monitor -> MonitorRecord] /\ monitor'[w] = rec
           /\ \A v \in Monitor : v # w => monitor'[v] = monitor[v]
BY DEF TypeOK, MonitorRecord

\* The senders stay as they are.
LEMMA SendersStand ==
    ASSUME MailsOK, UNCHANGED <<month, warned, mails>>,
           \A v \in Monitor : monitor'[v].pc = "sending" <=> monitor[v].pc = "sending",
           \A v \in Monitor : monitor[v].pc = "sending" => monitor'[v].key = monitor[v].key
    PROVE  MailsOK'
<1>1. Old' = Old /\ \A m \in Month : Sending(m)' = Sending(m)
  BY DEF Old, Sending
<1>2. Current' = Current /\ Sending(month)' = Sending(month)
  BY <1>1 DEF Current, Sending
<1>3. \A v \in Monitor : monitor'[v].pc = "sending" => monitor'[v].key \in Month /\ monitor'[v].key <= month
  BY DEF MailsOK
<1>4. QED
  BY <1>1, <1>2, <1>3 DEF MailsOK

LEMMA CheckForWarningKeepsIInv ==
    ASSUME IInv, NEW w \in Monitor, CheckForWarning(w)
    PROVE  IInv'
<1> DEFINE soft == is_soft_cap_exceeded(get_monthly_spend)
           rec == [monitor[w] EXCEPT !.pc = "checked", !.soft = soft]
<1>1. /\ TypeOK /\ SpendOK /\ MailsOK /\ UNCHANGED <<month, usage, call, warned, mails>>
      /\ monitor[w] \in MonitorRecord /\ monitor[w].pc = "idle" /\ soft \in BOOLEAN
  BY DEF IInv, CheckForWarning, TypeOK, MonitorRecord, is_soft_cap_exceeded
<1>2. monitor' = [monitor EXCEPT ![w] = rec]
  BY <1>1 DEF CheckForWarning, TypeOK
<1> HIDE DEF soft
<1>3. rec \in MonitorRecord /\ rec.pc = "checked"
  BY <1>1 DEF MonitorRecord
<1> HIDE DEF rec
<1>4. /\ monitor' \in [Monitor -> MonitorRecord] /\ monitor'[w] = rec
      /\ \A v \in Monitor : v # w => monitor'[v] = monitor[v]
  BY <1>1, <1>2, <1>3, MonitorTyped
<1>5. TypeOK'
  BY <1>1, <1>4 DEF TypeOK, MonitorRecord
<1>6. SpendOK'
  BY <1>1, SpendStands
<1>7. MailsOK'
  <2>1. \A v \in Monitor : monitor'[v].pc = "sending" <=> monitor[v].pc = "sending"
    BY <1>1, <1>3, <1>4
  <2>2. \A v \in Monitor : monitor[v].pc = "sending" => monitor'[v].key = monitor[v].key
    BY <1>1, <1>4
  <2>3. QED
    BY <1>1, <2>1, <2>2, SendersStand
<1>8. QED
  BY <1>5, <1>6, <1>7 DEF IInv

LEMMA WarnKeepsIInv ==
    ASSUME IInv, NEW w \in Monitor, Warn(w)
    PROVE  IInv'
<1>1. /\ TypeOK /\ SpendOK /\ MailsOK /\ UNCHANGED <<month, usage, call, warned, mails>>
      /\ monitor[w] \in MonitorRecord /\ monitor[w].pc = "checked"
  BY DEF IInv, Warn, TypeOK, MonitorRecord
<1>2. SpendOK'
  BY <1>1, SpendStands
<1>3. CASE Done(w)
  <2>1. /\ monitor' \in [Monitor -> MonitorRecord] /\ monitor'[w] = NoWarning
        /\ \A v \in Monitor : v # w => monitor'[v] = monitor[v]
    BY <1>1, <1>3, NoWarningRecord, MonitorTyped DEF Done
  <2>2. TypeOK'
    BY <1>1, <2>1 DEF TypeOK, MonitorRecord
  <2>3. \A v \in Monitor : monitor'[v].pc = "sending" <=> monitor[v].pc = "sending"
    BY <1>1, <2>1, NoWarningRecord
  <2>4. \A v \in Monitor : monitor[v].pc = "sending" => monitor'[v].key = monitor[v].key
    BY <1>1, <2>1
  <2>5. MailsOK'
    BY <1>1, <2>3, <2>4, SendersStand
  <2>6. QED
    BY <1>2, <2>2, <2>5 DEF IInv
<1>4. CASE /\ warned # month
           /\ monitor' = [monitor EXCEPT ![w].pc = "sending", ![w].key = month]
  <2> DEFINE rec == [monitor[w] EXCEPT !.pc = "sending", !.key = month]
  <2>1. rec \in MonitorRecord /\ rec.pc = "sending" /\ rec.key = month
    BY <1>1, Types DEF MonitorRecord
  <2>2. monitor' = [monitor EXCEPT ![w] = rec]
    BY <1>1, <1>4 DEF TypeOK
  <2> HIDE DEF rec
  <2>3. /\ monitor' \in [Monitor -> MonitorRecord] /\ monitor'[w] = rec
        /\ \A v \in Monitor : v # w => monitor'[v] = monitor[v]
    BY <1>1, <2>1, <2>2, MonitorTyped
  <2>4. TypeOK'
    BY <1>1, <2>3 DEF TypeOK, MonitorRecord
  <2>5. /\ Old' = Old
        /\ \A m \in Month : m # month => Sending(m)' = Sending(m)
    BY <1>1, <2>1, <2>3 DEF Old, Sending
  <2>6. Current' = Current
    BY <2>5 DEF Current
  <2>7. \A v \in Monitor : monitor'[v].pc = "sending" =>
           monitor'[v].key \in Month /\ monitor'[v].key <= month
    BY <1>1, <2>1, <2>3, Types DEF MailsOK
  <2>8. \A m \in Month : m < month => m # month
    BY Assumed, <1>1, Types
  <2>9. MailsOK'
    BY <1>1, <1>4, <2>5, <2>6, <2>7, <2>8 DEF MailsOK
  <2>10. QED
    BY <1>2, <2>4, <2>9 DEF IInv
<1>5. QED
  BY <1>1, <1>3, <1>4 DEF Warn, month_key

\* A warning ends, by its mail or without one.
LEMMA SenderEnds ==
    ASSUME TypeOK, MailsOK, NEW w \in Monitor, monitor[w].pc = "sending",
           monitor' = [monitor EXCEPT ![w] = NoWarning], month' = month
    PROVE  /\ monitor' \in [Monitor -> MonitorRecord]
           /\ \A v \in Monitor : monitor'[v].pc = "sending" =>
                 monitor'[v].key \in Month /\ monitor'[v].key <= month
           /\ monitor[w].key \in Month /\ monitor[w].key <= month
           /\ \A m \in Month :
                 /\ m # monitor[w].key => Sending(m)' = Sending(m)
                 /\ Cardinality(Sending(m)') \in Nat
                 /\ m = monitor[w].key => Cardinality(Sending(m)) = Cardinality(Sending(m)') + 1
           /\ monitor[w].key = month => Current' = Current
           /\ monitor[w].key # month => Cardinality(Current') = Cardinality(Current) + 1
<1>1. /\ monitor' \in [Monitor -> MonitorRecord] /\ monitor'[w] = NoWarning
      /\ \A v \in Monitor : v # w => monitor'[v] = monitor[v]
  BY NoWarningRecord, MonitorTyped
<1>2. \A v \in Monitor : monitor'[v].pc = "sending" =>
         monitor'[v].key \in Month /\ monitor'[v].key <= month
  BY <1>1, NoWarningRecord DEF MailsOK
<1>3. monitor[w].key \in Month /\ monitor[w].key <= month
  BY DEF MailsOK
<1>4. ASSUME NEW m \in Month
      PROVE  /\ m # monitor[w].key => Sending(m)' = Sending(m)
             /\ Cardinality(Sending(m)') \in Nat
             /\ m = monitor[w].key => Cardinality(Sending(m)) = Cardinality(Sending(m)') + 1
  <2>1. Sending(m)' = Sending(m) \ {w}
    BY <1>1, NoWarningRecord DEF Sending
  <2>2. w \in Sending(m) <=> m = monitor[w].key
    BY DEF Sending
  <2>3. Cardinality(Sending(m)') = Cardinality(Sending(m) \ {w})
    BY <2>1
  <2>4. IsFiniteSet(Sending(m)) /\ Cardinality(Sending(m)) \in Nat
    BY SendersFinite
  <2>5. IsFiniteSet(Sending(m) \ {w}) /\ Cardinality(Sending(m) \ {w}) \in Nat
    BY <2>4, FS_RemoveElement, FS_CardinalityType
  <2>6. CASE m = monitor[w].key
    <3>1. Cardinality(Sending(m) \ {w}) = Cardinality(Sending(m)) - 1
      BY <2>2, <2>4, <2>6, FS_RemoveElement
    <3>2. QED
      BY <2>3, <2>4, <2>5, <2>6, <3>1
  <2>7. CASE m # monitor[w].key
    BY <2>1, <2>2, <2>3, <2>5, <2>7
  <2>8. QED
    BY <2>6, <2>7
<1>5. Old' = Old \ {w}
  BY <1>1, NoWarningRecord DEF Old
<1>6. w \in Old <=> monitor[w].key # month
  BY DEF Old
<1>7. monitor[w].key = month => Current' = Current
  BY <1>5, <1>6 DEF Current
<1>8. ASSUME monitor[w].key # month
      PROVE  Cardinality(Current') = Cardinality(Current) + 1
  <2>1. Current' = Current \cup {w} /\ w \notin Current
    BY <1>5, <1>6, <1>8 DEF Current
  <2>2. Cardinality(Current') = Cardinality(Current \cup {w})
    BY <2>1
  <2>3. Cardinality(Current \cup {w}) = Cardinality(Current) + 1
    BY <2>1, SendersFinite, FS_AddElement
  <2>4. QED
    BY <2>2, <2>3
<1>9. QED
  BY <1>1, <1>2, <1>3, <1>4, <1>7, <1>8

\* MailsOK of the next state in a step within a month.
LEMMA MailsHold ==
    ASSUME month' = month, month \in Month, warned' <= month,
           \A v \in Monitor : monitor'[v].pc = "sending" =>
              monitor'[v].key \in Month /\ monitor'[v].key <= month,
           \A m \in Month : m > month => mails'[m] = 0,
           \A m \in Month : m < month =>
              Twice(mails'[m]) + Twice(Cardinality(Sending(m)')) <= Pairs(Concurrency),
           \A m \in Month : m = month /\ warned' = month =>
              Twice(mails'[m]) + Twice(Cardinality(Sending(m)')) <= Pairs(Cardinality(Current')),
           warned' # month =>
              Twice(mails'[month]) + Twice(Cardinality(Current')) <= Pairs(Cardinality(Current'))
    PROVE  MailsOK'
<1>1. ASSUME warned' = month'
      PROVE  Twice(mails'[month']) + Twice(Cardinality(Sending(month)')) <= Pairs(Cardinality(Current'))
  <2>1. \A m \in Month : m = month => Sending(m)' = Sending(month)'
    BY DEF Sending
  <2>2. QED
    BY <1>1, <2>1
<1>2. warned' # month' =>
         Twice(mails'[month']) + Twice(Cardinality(Current')) <= Pairs(Cardinality(Current'))
  OBVIOUS
<1>3. QED
  BY <1>1, <1>2 DEF MailsOK, Concurrency

LEMMA MailFailsKeepsIInv ==
    ASSUME IInv, NEW w \in Monitor, MailFails(w)
    PROVE  IInv'
<1> DEFINE k == monitor[w].key
           s(m) == Cardinality(Sending(m))
           n == Cardinality(Current)
<1>1. /\ TypeOK /\ SpendOK /\ MailsOK /\ UNCHANGED <<month, usage, call, warned, mails>>
      /\ monitor[w].pc = "sending" /\ monitor' = [monitor EXCEPT ![w] = NoWarning]
  BY DEF IInv, MailFails, Done
<1>2. /\ monitor' \in [Monitor -> MonitorRecord]
      /\ \A v \in Monitor : monitor'[v].pc = "sending" =>
            monitor'[v].key \in Month /\ monitor'[v].key <= month
      /\ k \in Month /\ k <= month
      /\ \A m \in Month :
            /\ m # k => Sending(m)' = Sending(m)
            /\ Cardinality(Sending(m)') \in Nat
            /\ m = k => Cardinality(Sending(m)) = Cardinality(Sending(m)') + 1
      /\ k = month => Current' = Current
      /\ k # month => Cardinality(Current') = Cardinality(Current) + 1
  BY <1>1, SenderEnds
<1>3. TypeOK'
  BY <1>1, <1>2 DEF TypeOK, MonitorRecord
<1>4. SpendOK'
  BY <1>1, SpendStands
<1>5. /\ month \in Month /\ month \in Nat /\ warned \in Nat /\ Concurrency \in Nat
      /\ n \in Nat /\ \A m \in Month : mails[m] \in Nat /\ s(m) \in Nat
  BY <1>1, Types, SendersFinite, Assumed
<1>6. \A m \in Month : Cardinality(Sending(m)') <= s(m)
  BY <1>2, <1>5
<1> HIDE DEF k, s, n
<1>7. ASSUME NEW m \in Month, m < month
      PROVE  Twice(mails[m]) + Twice(Cardinality(Sending(m)')) <= Pairs(Concurrency)
  <2>1. Twice(mails[m]) + Twice(s(m)) <= Pairs(Concurrency)
    BY <1>1, <1>7 DEF MailsOK, s
  <2>2. /\ mails[m] \in Nat /\ s(m) \in Nat /\ Cardinality(Sending(m)') \in Nat
        /\ Cardinality(Sending(m)') <= s(m) /\ Pairs(Concurrency) \in Nat
    BY <1>2, <1>5, <1>6, OneMore
  <2>3. QED
    BY <2>1, <2>2 DEF Twice
<1>8. ASSUME warned = month, NEW m \in Month, m = month
      PROVE  Twice(mails[m]) + Twice(Cardinality(Sending(m)')) <= Pairs(Cardinality(Current'))
  <2>1. Twice(mails[m]) + Twice(s(m)) <= Pairs(n)
    BY <1>1, <1>8 DEF MailsOK, s, n
  <2>2. Pairs(n) <= Pairs(Cardinality(Current')) /\ Pairs(Cardinality(Current')) \in Nat
    <3>1. CASE k = month
      BY <1>2, <1>5, <3>1, OneMore DEF n
    <3>2. CASE k # month
      BY <1>2, <1>5, <3>2, OneMore, Grows DEF n
    <3>3. QED
      BY <3>1, <3>2
  <2>3. /\ mails[m] \in Nat /\ s(m) \in Nat /\ Cardinality(Sending(m)') \in Nat
        /\ Cardinality(Sending(m)') <= s(m) /\ Pairs(n) \in Nat
    BY <1>2, <1>5, <1>6, OneMore
  <2>4. QED
    BY <2>1, <2>2, <2>3 DEF Twice
<1>9. ASSUME warned # month
      PROVE  Twice(mails[month]) + Twice(Cardinality(Current')) <= Pairs(Cardinality(Current'))
  <2>1. Twice(mails[month]) + Twice(n) <= Pairs(n)
    BY <1>1, <1>9 DEF MailsOK, n
  <2>2. CASE k = month
    BY <1>2, <2>1, <2>2 DEF n
  <2>3. CASE k # month
    <3>1. Cardinality(Current') = n + 1
      BY <1>2, <2>3 DEF n
    <3>2. Pairs(n + 1) = Pairs(n) + Twice(n + 1) /\ Pairs(n) \in Nat
      BY <1>5, OneMore
    <3>3. Twice(mails[month]) + Twice(n + 1) <= Pairs(n + 1)
      BY <1>5, <2>1, <3>2 DEF Twice
    <3>4. QED
      BY <3>1, <3>3
  <2>4. QED
    BY <2>2, <2>3
<1>10. \A m \in Month : m > month => mails[m] = 0
  BY <1>1 DEF MailsOK
<1>11. MailsOK'
  BY <1>1, <1>2, <1>5, <1>7, <1>8, <1>9, <1>10, MailsHold DEF MailsOK
<1>12. QED
  BY <1>3, <1>4, <1>11 DEF IInv

LEMMA MailSentKeepsIInv ==
    ASSUME IInv, NEW w \in Monitor, MailSent(w)
    PROVE  IInv'
<1> DEFINE k == monitor[w].key
           s(m) == Cardinality(Sending(m))
           n == Cardinality(Current)
<1>1. /\ TypeOK /\ SpendOK /\ MailsOK /\ UNCHANGED <<month, usage, call>>
      /\ monitor[w].pc = "sending" /\ monitor' = [monitor EXCEPT ![w] = NoWarning]
      /\ warned' = k /\ mails' = [mails EXCEPT ![k] = @ + 1]
  BY DEF IInv, MailSent, Done, Note
<1>2. /\ monitor' \in [Monitor -> MonitorRecord]
      /\ \A v \in Monitor : monitor'[v].pc = "sending" =>
            monitor'[v].key \in Month /\ monitor'[v].key <= month
      /\ k \in Month /\ k <= month
      /\ \A m \in Month :
            /\ m # k => Sending(m)' = Sending(m)
            /\ Cardinality(Sending(m)') \in Nat
            /\ m = k => Cardinality(Sending(m)) = Cardinality(Sending(m)') + 1
      /\ k = month => Current' = Current
      /\ k # month => Cardinality(Current') = Cardinality(Current) + 1
  BY <1>1, SenderEnds
<1>3. /\ month \in Month /\ month \in Nat /\ Concurrency \in Nat
      /\ n \in Nat /\ \A m \in Month : mails[m] \in Nat /\ s(m) \in Nat /\ m \in Nat
  BY <1>1, Types, SendersFinite, Assumed
<1> HIDE DEF k
<1>4. /\ mails' \in [Month -> Nat] /\ mails'[k] = mails[k] + 1
      /\ \A m \in Month : m # k => mails'[m] = mails[m]
  BY <1>1, <1>2, <1>3 DEF TypeOK
<1>5. TypeOK'
  BY <1>1, <1>2, <1>4 DEF TypeOK, MonitorRecord
<1>6. SpendOK'
  BY <1>1, SpendStands
<1>7. \A m \in Month : Twice(mails'[m]) + Twice(Cardinality(Sending(m)')) = Twice(mails[m]) + Twice(s(m))
  <2>1. SUFFICES ASSUME NEW m \in Month
                 PROVE  Twice(mails'[m]) + Twice(Cardinality(Sending(m)')) = Twice(mails[m]) + Twice(s(m))
    OBVIOUS
  <2>2. CASE m = k
    <3>1. mails'[m] = mails[m] + 1 /\ s(m) = Cardinality(Sending(m)') + 1
      BY <1>2, <1>4, <2>2
    <3>2. mails[m] \in Nat /\ s(m) \in Nat /\ Cardinality(Sending(m)') \in Nat
      BY <1>2, <1>3
    <3> HIDE DEF s
    <3>3. QED
      BY <3>1, <3>2 DEF Twice
  <2>3. CASE m # k
    BY <1>2, <1>4, <2>3
  <2>4. QED
    BY <2>2, <2>3
<1>8. s(month) <= n
  BY SendersFinite
<1> HIDE DEF s, n
<1>9. /\ \A m \in Month : m < month => Twice(mails[m]) + Twice(s(m)) <= Pairs(Concurrency)
      /\ warned = month => Twice(mails[month]) + Twice(s(month)) <= Pairs(n)
      /\ warned # month => Twice(mails[month]) + Twice(n) <= Pairs(n)
  BY <1>1 DEF MailsOK, s, n
<1>10. Twice(mails[month]) + Twice(s(month)) <= Pairs(n)
  <2>1. CASE warned = month
    BY <1>9, <2>1
  <2>2. CASE warned # month
    <3>1. Twice(mails[month]) + Twice(n) <= Pairs(n)
      BY <1>9, <2>2
    <3>2. mails[month] \in Nat /\ s(month) \in Nat /\ Pairs(n) \in Nat
      BY <1>3, OneMore
    <3>3. QED
      BY <1>3, <1>8, <3>1, <3>2 DEF Twice
  <2>3. QED
    BY <2>1, <2>2
<1>11. \A m \in Month : m < month =>
          Twice(mails'[m]) + Twice(Cardinality(Sending(m)')) <= Pairs(Concurrency)
  BY <1>7, <1>9
<1>12. ASSUME k = month, NEW m \in Month, m = month
       PROVE  Twice(mails'[m]) + Twice(Cardinality(Sending(m)')) <= Pairs(Cardinality(Current'))
  <2>1. Twice(mails'[m]) + Twice(Cardinality(Sending(m)')) <= Pairs(n)
    BY <1>7, <1>10, <1>12
  <2>2. n = Cardinality(Current')
    BY <1>2, <1>12 DEF n
  <2>3. QED
    BY <2>1, <2>2
<1>13. ASSUME k # month
       PROVE  Twice(mails'[month]) + Twice(Cardinality(Current')) <= Pairs(Cardinality(Current'))
  <2>1. Cardinality(Current') = n + 1 /\ mails'[month] = mails[month]
    BY <1>2, <1>3, <1>4, <1>13 DEF n
  <2>2. Pairs(n + 1) = Pairs(n) + Twice(n + 1) /\ Pairs(n) \in Nat
    BY <1>3, OneMore
  <2>3. mails[month] \in Nat /\ s(month) \in Nat
    BY <1>3
  <2>4. Twice(mails[month]) <= Pairs(n)
    BY <1>10, <2>2, <2>3 DEF Twice
  <2>5. Twice(mails[month]) + Twice(n + 1) <= Pairs(n + 1)
    BY <1>3, <2>2, <2>3, <2>4 DEF Twice
  <2>6. QED
    BY <2>1, <2>5
<1>14. \A m \in Month : m > month => mails'[m] = 0
  <2>1. \A m \in Month : m > month => m # k /\ mails[m] = 0
    BY <1>1, <1>2, <1>3 DEF MailsOK
  <2>2. QED
    BY <1>4, <2>1
<1>15. MailsOK'
  BY <1>1, <1>2, <1>3, <1>11, <1>12, <1>13, <1>14, MailsHold
<1>16. QED
  BY <1>5, <1>6, <1>15 DEF IInv

-----------------------------------------------------------------------------
(* The process and the calendar.                                           *)

LEMMA RestartKeepsIInv ==
    ASSUME IInv, Restart
    PROVE  IInv'
<1>1. /\ TypeOK /\ SpendOK /\ UNCHANGED <<month, usage, call>>
      /\ warned' = 0 /\ mails' = [m \in Month |-> 0] /\ monitor' = [w \in Monitor |-> NoWarning]
  BY DEF IInv, Restart
<1>2. TypeOK'
  BY <1>1, NoWarningRecord DEF TypeOK, MonitorRecord
<1>3. SpendOK'
  BY <1>1, SpendStands
<1>4. /\ \A w \in Monitor : monitor'[w].pc # "sending"
      /\ \A m \in Month : Sending(m)' = {}
      /\ Current' = Monitor
  BY <1>1, NoWarningRecord DEF Sending, Current, Old
<1>5. /\ month \in Month /\ month \in Nat /\ 0 <= month /\ month # 0 /\ Concurrency \in Nat
  BY <1>1, Types, Assumed DEF Month
<1>6. \A m \in Month : Twice(mails'[m]) + Twice(Cardinality(Sending(m)')) = 0
  BY <1>1, <1>4, FS_EmptySet DEF Twice
<1>7. Pairs(Concurrency) \in Nat /\ Twice(Concurrency) <= Pairs(Concurrency)
  BY <1>5, OneMore, AtLeastTwice
<1>8. \A m \in Month : m < month =>
         Twice(mails'[m]) + Twice(Cardinality(Sending(m)')) <= Pairs(Concurrency)
  BY <1>6, <1>7
<1>9. Twice(mails'[month]) + Twice(Cardinality(Current')) <= Pairs(Cardinality(Current'))
  <2>1. Twice(mails'[month]) = 0 /\ Cardinality(Current') = Concurrency
    BY <1>1, <1>4, <1>5 DEF Twice, Concurrency
  <2>2. QED
    BY <1>5, <1>7, <2>1 DEF Twice
<1>10. MailsOK'
  BY <1>1, <1>4, <1>5, <1>8, <1>9, MailsHold
<1>11. QED
  BY <1>2, <1>3, <1>10 DEF IInv

LEMMA MonthEndsKeepsIInv ==
    ASSUME IInv, MonthEnds
    PROVE  IInv'
<1>1. /\ TypeOK /\ SpendOK /\ MailsOK /\ UNCHANGED <<usage, call, monitor, warned, mails>>
      /\ month < Months /\ month' = month + 1
  BY DEF IInv, MonthEnds
<1>2. /\ month \in Nat /\ month \in Month /\ month' \in Month
      /\ \A m \in Month : m \in Nat /\ (m < month' <=> m < month \/ m = month)
                          /\ (m > month' => m > month)
  BY <1>1, Assumed, Types DEF Month
<1>3. TypeOK'
  BY <1>1, <1>2 DEF TypeOK
<1>4. ASSUME Budget > 0, NEW m \in Month PROVE Within(m)'
  <2>1. /\ Lands(m)' \subseteq Caller /\ IsFiniteSet(Lands(m)')
        /\ Cardinality(Lands(m)') \in Nat /\ Cardinality(Lands(m)') <= Cardinality(Caller)
    BY Assumed, FS_Subset, FS_CardinalityType DEF Lands
  <2>2. /\ Cardinality(Lands(m)') * MaxCost \in Nat
        /\ Cardinality(Lands(m)') * MaxCost <= Cardinality(Caller) * MaxCost
        /\ Cardinality(Caller) * MaxCost \in Nat /\ usage[m].other \in Nat /\ Budget \in Nat
    BY <1>1, <2>1, Products, Assumed, Types
  <2>3. CASE m = month'
    <3>1. usage'[m].other = 0
      BY <1>1, <1>2, <2>3 DEF SpendOK
    <3>2. QED
      BY <1>4, <2>2, <3>1 DEF Within
  <2>4. CASE m # month'
    <3>1. Lands(m)' \subseteq Lands(m)
      BY <1>1, <2>4 DEF Lands, Plain
    <3>2. Cardinality(Lands(m)') <= Cardinality(Lands(m))
      BY <3>1, LandsFinite, FS_Subset
    <3>3. /\ Cardinality(Lands(m)') * MaxCost <= Cardinality(Lands(m)) * MaxCost
          /\ Cardinality(Lands(m)) * MaxCost \in Nat
      BY <2>1, <3>2, LandsFinite, Products
    <3>4. Within(m)
      BY <1>1, <1>4 DEF SpendOK
    <3>5. QED
      BY <1>1, <2>2, <3>3, <3>4 DEF Within
  <2>5. QED
    BY <2>3, <2>4
<1>5. SpendOK'
  <2>1. \A m \in Month : m > month' => usage'[m].other = 0
    BY <1>1, <1>2 DEF SpendOK
  <2>2. \A c \in Caller : call'[c].pc = "written" => call'[c].ts \in Month /\ call'[c].ts <= month'
    <3>1. SUFFICES ASSUME NEW c \in Caller, call[c].pc = "written"
                   PROVE  call[c].ts \in Month /\ call[c].ts <= month'
      BY <1>1
    <3>2. call[c].ts \in Month /\ call[c].ts <= month
      BY <1>1, <3>1 DEF SpendOK
    <3>3. QED
      BY <1>1, <1>2, <3>2
  <2>3. QED
    BY <1>4, <2>1, <2>2 DEF SpendOK
<1>6. \A m \in Month : Sending(m)' = Sending(m)
  BY <1>1 DEF Sending
<1>7. /\ Cardinality(Current) \in Nat /\ Cardinality(Current) <= Concurrency /\ Concurrency \in Nat
      /\ \A m \in Month : Cardinality(Sending(m)) \in Nat /\ mails[m] \in Nat
      /\ Cardinality(Sending(month)) <= Cardinality(Current)
  BY <1>1, Types, SendersFinite, Assumed
<1>8. Twice(mails[month]) + Twice(Cardinality(Sending(month))) <= Pairs(Concurrency)
  <2>1. Pairs(Cardinality(Current)) <= Pairs(Concurrency) /\ Pairs(Concurrency) \in Nat
        /\ Pairs(Cardinality(Current)) \in Nat
    BY <1>7, Grows, OneMore
  <2>2. Twice(mails[month]) + Twice(Cardinality(Sending(month))) <= Pairs(Cardinality(Current))
    <3>1. CASE warned = month
      BY <1>1, <3>1 DEF MailsOK
    <3>2. CASE warned # month
      <4>1. Twice(mails[month]) + Twice(Cardinality(Current)) <= Pairs(Cardinality(Current))
        BY <1>1, <3>2 DEF MailsOK
      <4>2. Cardinality(Sending(month)) \in Nat /\ mails[month] \in Nat
        BY <1>2, <1>7
      <4>3. QED
        BY <1>7, <2>1, <4>1, <4>2 DEF Twice
    <3>3. QED
      BY <3>1, <3>2
  <2>3. Cardinality(Sending(month)) \in Nat /\ mails[month] \in Nat
    BY <1>2, <1>7
  <2>4. QED
    BY <2>1, <2>2, <2>3 DEF Twice
<1>9. ASSUME NEW m \in Month, m < month'
      PROVE  Twice(mails'[m]) + Twice(Cardinality(Sending(m)')) <= Pairs(Concurrency)
  <2>1. Twice(mails[m]) + Twice(Cardinality(Sending(m))) <= Pairs(Concurrency)
    <3>1. CASE m < month
      BY <1>1, <3>1 DEF MailsOK
    <3>2. CASE m = month
      BY <1>8, <3>2
    <3>3. QED
      BY <1>2, <1>9, <3>1, <3>2
  <2>2. QED
    BY <1>1, <1>6, <2>1
<1>10. /\ warned' <= month' /\ warned' # month'
       /\ \A w \in Monitor : monitor'[w].pc = "sending" =>
             monitor'[w].key \in Month /\ monitor'[w].key <= month'
       /\ \A m \in Month : m > month' => mails'[m] = 0
       /\ mails'[month'] = 0
  <2>1. warned \in Nat /\ warned <= month
    BY <1>1, Types DEF MailsOK
  <2>2. ASSUME NEW w \in Monitor, monitor[w].pc = "sending"
        PROVE  monitor[w].key \in Month /\ monitor[w].key <= month'
    <3>1. monitor[w].key \in Month /\ monitor[w].key <= month
      BY <1>1, <2>2 DEF MailsOK
    <3>2. monitor[w].key \in Nat /\ month \in Nat /\ month' = month + 1
      BY <1>1, <1>2, <3>1
    <3>3. QED
      BY <3>1, <3>2
  <2>3. \A m \in Month : m > month => mails'[m] = 0
    BY <1>1 DEF MailsOK
  <2>4. month' > month
    BY <1>1, <1>2
  <2>5. QED
    BY <1>1, <1>2, <2>1, <2>2, <2>3, <2>4
<1>11. Twice(mails'[month']) + Twice(Cardinality(Current')) <= Pairs(Cardinality(Current'))
  <2>1. Current' \subseteq Monitor
    BY DEF Current
  <2>2. Cardinality(Current') \in Nat
    BY <2>1, Assumed, FS_Subset, FS_CardinalityType
  <2>3. Twice(Cardinality(Current')) <= Pairs(Cardinality(Current')) /\ Pairs(Cardinality(Current')) \in Nat
    BY <2>2, AtLeastTwice, OneMore
  <2>4. QED
    BY <1>10, <2>2, <2>3 DEF Twice
<1>12. MailsOK'
  BY <1>9, <1>10, <1>11 DEF MailsOK, Concurrency
<1>13. QED
  BY <1>3, <1>5, <1>12 DEF IInv

-----------------------------------------------------------------------------
(* The specification.                                                      *)

LEMMA InitIInv == Init => IInv
<1> SUFFICES ASSUME Init PROVE IInv
  OBVIOUS
<1>1. /\ month = 1 /\ warned = 0 /\ usage = [m \in Month |-> [essential |-> 0, other |-> 0]]
      /\ call = [c \in Caller |-> Idle] /\ monitor = [w \in Monitor |-> NoWarning]
      /\ mails = [m \in Month |-> 0]
  BY DEF Init
<1>2. TypeOK
  BY <1>1, IdleCall, NoWarningRecord, Assumed DEF TypeOK, CallRecord, MonitorRecord
<1>3. \A m \in Month : usage[m].other = 0 /\ mails[m] = 0
  BY <1>1
<1>4. ASSUME Budget > 0, NEW m \in Month PROVE Within(m)
  <2>1. /\ Cardinality(Lands(m)) * MaxCost \in Nat /\ Budget \in Nat
        /\ Cardinality(Lands(m)) * MaxCost <= Cardinality(Caller) * MaxCost
        /\ Cardinality(Caller) * MaxCost \in Nat
    BY Assumed, LandsFinite, Products
  <2>2. QED
    BY <1>3, <1>4, <2>1 DEF Within
<1>5. SpendOK
  BY <1>1, <1>3, <1>4, IdleCall DEF SpendOK
<1>6. /\ \A w \in Monitor : monitor[w].pc # "sending"
      /\ \A m \in Month : ~(m < month)
      /\ Current = Monitor
  BY <1>1, NoWarningRecord DEF Current, Old, Month
<1>7. Twice(mails[month]) + Twice(Cardinality(Current)) <= Pairs(Cardinality(Current))
  <2>1. mails[month] = 0 /\ Cardinality(Current) = Concurrency /\ Concurrency \in Nat
    BY <1>1, <1>3, <1>6, Assumed DEF Concurrency
  <2>2. Twice(Concurrency) <= Pairs(Concurrency) /\ Pairs(Concurrency) \in Nat
    BY <2>1, AtLeastTwice, OneMore
  <2>3. QED
    BY <2>1, <2>2 DEF Twice
<1>8. MailsOK
  BY <1>1, <1>3, <1>6, <1>7 DEF MailsOK
<1>9. QED
  BY <1>2, <1>5, <1>8 DEF IInv

LEMMA NextIInv == IInv /\ [Next]_vars => IInv'
<1> SUFFICES ASSUME IInv, [Next]_vars PROVE IInv'
  OBVIOUS
<1>1. CASE UNCHANGED vars
  <2>1. UNCHANGED <<month, usage, call, monitor, warned, mails>>
    BY <1>1 DEF vars
  <2>2. TypeOK' /\ SpendOK' /\ MailsOK'
    BY <2>1, SpendStands, MailsStand DEF IInv, TypeOK
  <2>3. QED
    BY <2>2 DEF IInv
<1>2. ASSUME NEW c \in Caller, CallStep(c) PROVE IInv'
  <2>1. ASSUME NEW use \in Use, Begin(c, use) PROVE IInv'
    BY <2>1, BeginKeepsIInv
  <2>2. ASSUME NEW use \in Use, Refuse(c, use) PROVE UNCHANGED vars
    BY <2>2 DEF Refuse
  <2>3. CASE FallBack(c)
    BY <2>3, FallBackKeepsIInv
  <2>4. CASE Answer(c)
    BY <2>4, AnswerKeepsIInv
  <2>5. CASE Record(c)
    BY <2>5, RecordKeepsIInv
  <2>6. CASE Lose(c)
    BY <2>6, LoseKeepsIInv
  <2>7. QED
    BY <1>1, <1>2, <2>1, <2>2, <2>3, <2>4, <2>5, <2>6 DEF CallStep
<1>3. ASSUME NEW w \in Monitor, MonitorStep(w) PROVE IInv'
  BY <1>3, CheckForWarningKeepsIInv, WarnKeepsIInv, MailSentKeepsIInv, MailFailsKeepsIInv
     DEF MonitorStep
<1>4. QED
  BY <1>1, <1>2, <1>3, RestartKeepsIInv, MonthEndsKeepsIInv DEF Next

\* The invariant behind the three below.
THEOREM Invariance == Spec => []IInv
<1>1. QED
  BY InitIInv, NextIInv, PTL DEF Spec

\* Every variable keeps its type.
THEOREM TypeCorrect == Spec => []TypeOK
<1>1. IInv => TypeOK
  BY DEF IInv
<1>2. QED
  BY <1>1, Invariance, PTL

\* What non-essential calls of assert_budget_available's callers have on record
\* passes the hard cap by less than one call of each of them, whatever the prices.
THEOREM CapHolds == Spec => []Overshoot
<1>1. IInv => Overshoot
  <2>1. SUFFICES ASSUME IInv, Budget > 0, NEW m \in Month
                 PROVE  usage[m].other + 1 <= Budget + Cardinality(Caller) * MaxCost
    BY DEF Overshoot
  <2>2. Within(m)
    BY <2>1 DEF IInv, SpendOK
  <2>3. /\ Cardinality(Lands(m)) * MaxCost \in Nat /\ usage[m].other \in Nat
        /\ Cardinality(Caller) * MaxCost \in Nat /\ Budget \in Nat
    BY <2>1, Assumed, LandsFinite, Products, Types DEF IInv
  <2>4. QED
    BY <2>2, <2>3 DEF Within
<1>2. QED
  BY <1>1, Invariance, PTL

\* maybe_send_soft_cap_warning of n concurrent senders reports at most n(n + 1)/2
\* mails of one month between two restarts.
THEOREM MailsStayBounded == Spec => []MailsBounded
<1>1. ASSUME IInv, NEW m \in Month PROVE mails[m] <= (Concurrency * (Concurrency + 1)) \div 2
  <2>1. TypeOK /\ MailsOK
    BY <1>1 DEF IInv
  <2>2. /\ month \in Nat /\ month \in Month /\ m \in Nat /\ mails[m] \in Nat /\ Concurrency \in Nat
        /\ Cardinality(Current) \in Nat /\ Cardinality(Current) <= Concurrency
        /\ Cardinality(Sending(m)) \in Nat
    BY <2>1, Types, SendersFinite, Assumed
  <2>3. /\ Pairs(Cardinality(Current)) <= Pairs(Concurrency)
        /\ Pairs(Cardinality(Current)) \in Nat /\ Pairs(Concurrency) \in Nat
    BY <2>2, Grows, OneMore
  <2>4. Twice(mails[m]) <= Pairs(Concurrency)
    <3>1. CASE m < month
      <4>1. Twice(mails[m]) + Twice(Cardinality(Sending(m))) <= Pairs(Concurrency)
        BY <2>1, <3>1 DEF MailsOK
      <4>2. QED
        BY <2>2, <2>3, <4>1 DEF Twice
    <3>2. CASE m = month /\ warned = month
      <4>1. Twice(mails[m]) + Twice(Cardinality(Sending(m))) <= Pairs(Cardinality(Current))
        BY <2>1, <3>2 DEF MailsOK
      <4>2. QED
        BY <2>2, <2>3, <4>1 DEF Twice
    <3>3. CASE m = month /\ warned # month
      <4>1. Twice(mails[m]) + Twice(Cardinality(Current)) <= Pairs(Cardinality(Current))
        BY <2>1, <3>3 DEF MailsOK
      <4>2. QED
        BY <2>2, <2>3, <4>1 DEF Twice
    <3>4. CASE m > month
      <4>1. mails[m] = 0
        BY <2>1, <3>4 DEF MailsOK
      <4>2. QED
        BY <2>3, <4>1 DEF Twice
    <3>5. QED
      BY <2>2, <3>1, <3>2, <3>3, <3>4
  <2>5. mails[m] <= Pairs(Concurrency) \div 2
    BY <2>2, <2>3, <2>4, Halves
  <2>6. QED
    BY <2>5 DEF Pairs
<1>2. IInv => MailsBounded
  BY <1>1 DEF MailsBounded
<1>3. QED
  BY <1>2, Invariance, PTL

=============================================================================
