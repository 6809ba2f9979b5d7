---------------------------- MODULE BillingProofs ----------------------------
(***************************************************************************)
(* Billing's safety properties for every set of subscriptions, plans,      *)
(* workers and requests, any clock and any number of faults.               *)
(*                                                                         *)
(* What a save may write is a copy, so a property of the row is inductive  *)
(* once it is demanded of the row, of every copy in flight and of the      *)
(* copies a worker has listed (SubOK).  What holds only while nobody else  *)
(* is at a subscription is stated of the undisturbed ones (Calm): one      *)
(* process at most holds it, its copy is the row as it stands, and every   *)
(* charge is for a period the row, or the copy about to be saved, has left.*)
(***************************************************************************)
EXTENDS Billing, TLAPS

ReqCall == Routes \cup McpTools

WorkCall ==
    {Call(op, s, None, None) : op \in {"HandleBillingCycle", "ExpireTrials"}, s \in Subs}

ProcRecord ==
    [pc: {"idle", "load", "apply", "save", "trialSave", "due", "trials"},
     call: ReqCall \cup WorkCall \cup {None},
     copy: SubscriptionRow \cup Plan \cup {None},
     todo: SUBSET [id: Subs, copy: SubscriptionRow \cup {None}]]

ChargedAt(ch, t) == \E x \in ch : x.at = t

\* A copy c of a subscription; rw are the rows, ch its charges.
SubOK(c, rw, ch) ==
    /\ c \in SubscriptionRow
    /\ rw[c.PlanID] # None
    /\ c.CurrentPeriodStart < c.CurrentPeriodEnd
    /\ c.Status \in {"pending", "trialing"} => c.CurrentPeriodStart = c.CreatedAt
    /\ c.Status = "trialing" => c.TrialEndsAt # None /\ c.CurrentPeriodStart <= c.TrialEndsAt
    /\ c.Status = "past_due" => c.token
    /\ c.token /\ c.CurrentPeriodStart # c.CreatedAt =>
          ChargedAt(ch, c.CurrentPeriodStart)

Busy(q) == q.pc \in {"apply", "trialSave", "save"}

\* The worker is through with what was due and is at the trials.
AtTrials(q) == q.pc = "trials" \/ (Busy(q) /\ q.call.op = "ExpireTrials")

\* Which calls a process may be at.
CallOK(q, p) ==
    /\ q \in ProcRecord
    /\ q.pc = "idle" => q.todo = {}
    /\ p \in Requests =>
          /\ q.pc \in {"idle", "load", "apply", "save"}
          /\ q.todo = {}
          /\ q.pc # "idle" => q.call \in ReqCall
          /\ q.pc = "load" => q.call.op \notin Creates
    /\ p \in Workers =>
          /\ q.pc # "load"
          /\ Busy(q) => q.call \in WorkCall
          /\ q.pc = "apply" => q.call.op = "HandleBillingCycle"
          /\ q.pc = "trialSave" => q.call.op = "ExpireTrials"

\* The copies a process may still save.
CopiesOK(q, rw, ch) ==
    /\ q.pc = "load" => rw[q.call.id] # None
    /\ Busy(q) /\ q.call \in WorkCall => rw[q.call.id] # None
    /\ q.pc = "apply" /\ q.call.op \in Creates => q.copy = None
    /\ Busy(q) /\ ~(q.pc = "apply" /\ q.call.op \in Creates) =>
          /\ q.call.id \in Subs => SubOK(q.copy, rw, ch[q.call.id])
          /\ q.call.id \in Plans => q.copy \in Plan
    /\ q.pc = "trialSave" => q.copy.Status = "active"
    /\ \A t \in q.todo :
          /\ rw[t.id] # None
          /\ AtTrials(q) => SubOK(t.copy, rw, ch[t.id]) /\ t.copy.Status = "trialing"
    /\ \A t, u \in q.todo : t.id = u.id => t = u

RowsOK ==
    /\ row \in [Subs \cup Plans -> SubscriptionRow \cup Plan \cup {None}]
    /\ \A p \in Plans : row[p] \in Plan \cup {None}
    /\ \A s \in Subs : row[s] # None => SubOK(row[s], row, charged[s])

Saves(q, s) == q.pc \in {"save", "trialSave"} /\ q.call.id = s

\* q holds a copy of s, or is about to bill it.
Holding(q, s) == (Busy(q) /\ q.call.id = s) \/ \E t \in q.todo : t.id = s

\* A process q and the row r of an undisturbed subscription s with charges
\* ch, at time t.
CalmProc(q, s, r, ch, t) ==
    /\ Busy(q) /\ q.call.id = s /\ q.call.op \in Creates => r = None
    /\ q.pc = "apply" /\ q.call.id = s /\ q.call.op \notin Creates => q.copy = r
    /\ q.pc = "apply" /\ q.call.id = s /\ q.call.op = "HandleBillingCycle" =>
          r.Status = "active" /\ r.CurrentPeriodEnd < t
    /\ Saves(q, s) => /\ r # None => r.Status \notin Ended
                      /\ \A x \in ch : x.after < q.copy.CurrentPeriodStart
    /\ \A u \in q.todo : u.id = s =>
          /\ ~(Busy(q) /\ q.call.id = s)
          /\ AtTrials(q) => u.copy = r /\ r.TrialEndsAt < t
          /\ ~AtTrials(q) => r.Status = "active" /\ r.CurrentPeriodEnd < t

Calm(s) ==
    /\ \A p, q \in Procs : Holding(proc[p], s) /\ Holding(proc[q], s) => p = q
    /\ \A p \in Procs : CalmProc(proc[p], s, row[s], charged[s], now)
    /\ row[s] = None => charged[s] = {}
    /\ (\A p \in Procs : ~Saves(proc[p], s)) =>
          \A x \in charged[s] : x.after < row[s].CurrentPeriodStart

ProcsOK ==
    /\ proc \in [Procs -> ProcRecord]
    /\ \A p \in Procs : CallOK(proc[p], p) /\ CopiesOK(proc[p], row, charged)

HistoryOK ==
    /\ now \in Nat
    /\ charged \in [Subs -> SUBSET [after: Nat, at: Nat]]
    /\ again \subseteq disturbed
    /\ disturbed \subseteq Subs

IInv ==
    /\ RowsOK
    /\ ProcsOK
    /\ HistoryOK
    /\ \A s \in Subs \ disturbed : Calm(s)

-----------------------------------------------------------------------------
(* The aggregates and the service keep a copy sound *)

\* A copy stays sound when plans and charges are added.
LEMMA SubGrows ==
    ASSUME NEW c, NEW rw, NEW ch, NEW rw2, NEW ch2, SubOK(c, rw, ch),
           \A x \in Plans : rw[x] # None => rw2[x] # None, ch \subseteq ch2
    PROVE  SubOK(c, rw2, ch2)
<1>1. c.PlanID \in Plans
  BY DEF SubOK, SubscriptionRow
<1> QED BY <1>1 DEF SubOK, ChargedAt

\* A method that sets the status and keeps the rest.
LEMMA SubStatus ==
    ASSUME NEW s, NEW rw, NEW ch, SubOK(s, rw, ch), NEW st \in SubscriptionStatus,
           st \in {"pending", "trialing"} => s.Status = st,
           st = "past_due" => s.token
    PROVE  LET t == [s EXCEPT !.Status = st]
           IN  /\ SubOK(t, rw, ch)
               /\ t.CurrentPeriodStart = s.CurrentPeriodStart
               /\ t.Status = st /\ t.PlanID = s.PlanID /\ t.token = s.token
<1> DEFINE t == [s EXCEPT !.Status = st]
<1>1. s \in SubscriptionRow
  BY DEF SubOK
<1>2. /\ t \in SubscriptionRow
      /\ t.Status = st /\ t.PlanID = s.PlanID /\ t.token = s.token
      /\ t.CurrentPeriodStart = s.CurrentPeriodStart
      /\ t.CurrentPeriodEnd = s.CurrentPeriodEnd
      /\ t.CreatedAt = s.CreatedAt /\ t.TrialEndsAt = s.TrialEndsAt
  BY <1>1 DEF SubscriptionRow
<1> HIDE DEF t
<1>3. SubOK(t, rw, ch)
  BY <1>2 DEF SubOK
<1> QED BY <1>2, <1>3 DEF t

\* What the methods of a subscription leave.
LEMMA SubMethods ==
    ASSUME NEW s, NEW rw, NEW ch, SubOK(s, rw, ch), NEW planID \in Plans
    PROVE  /\ \A t \in {Activate(s), Cancel(s), Expire(s), AttachPaymentToken(s),
                         ChangePlan(s, planID, rw[planID])} \ {None} :
                 /\ SubOK(t, rw, ch)
                 /\ t.CurrentPeriodStart = s.CurrentPeriodStart
                 /\ s.Status \notin Ended
           /\ s.Status = "trialing" =>
                 Activate(s).Status = "active" /\ Activate(s).PlanID = s.PlanID
                 /\ Activate(s).token = s.token
           /\ s.token => \A t \in {FailPayment(s)} \ {None} :
                 /\ SubOK(t, rw, ch)
                 /\ t.CurrentPeriodStart = s.CurrentPeriodStart
<1>1. ASSUME NEW st \in {"active", "cancelled", "expired"}
      PROVE  /\ SubOK([s EXCEPT !.Status = st], rw, ch)
             /\ [s EXCEPT !.Status = st].CurrentPeriodStart = s.CurrentPeriodStart
             /\ [s EXCEPT !.Status = st].PlanID = s.PlanID
             /\ [s EXCEPT !.Status = st].Status = st
             /\ [s EXCEPT !.Status = st].token = s.token
  <2>1. /\ st \in SubscriptionStatus
        /\ st \notin {"pending", "trialing"} /\ st # "past_due"
    BY DEF SubscriptionStatus
  <2> QED BY <2>1, SubStatus
<1>2. /\ Activate(s) # None => SubOK(Activate(s), rw, ch) /\ s.Status \notin Ended
               /\ Activate(s).CurrentPeriodStart = s.CurrentPeriodStart
      /\ Cancel(s) # None => SubOK(Cancel(s), rw, ch) /\ s.Status \notin Ended
               /\ Cancel(s).CurrentPeriodStart = s.CurrentPeriodStart
      /\ Expire(s) # None => SubOK(Expire(s), rw, ch) /\ s.Status \notin Ended
               /\ Expire(s).CurrentPeriodStart = s.CurrentPeriodStart
  BY <1>1 DEF Activate, Cancel, Expire, Ended
<1>3. ASSUME AttachPaymentToken(s) # None
      PROVE  /\ SubOK(AttachPaymentToken(s), rw, ch) /\ s.Status \notin Ended
             /\ AttachPaymentToken(s).CurrentPeriodStart = s.CurrentPeriodStart
  <2> DEFINE t == [s EXCEPT !.token = TRUE]
  <2>1. s.Status \in {"pending", "trialing", "past_due"} /\ AttachPaymentToken(s) = t
    BY <1>3 DEF AttachPaymentToken
  <2>2. /\ t \in SubscriptionRow
        /\ t.Status = s.Status /\ t.PlanID = s.PlanID
        /\ t.CurrentPeriodStart = s.CurrentPeriodStart
        /\ t.CurrentPeriodEnd = s.CurrentPeriodEnd
        /\ t.CreatedAt = s.CreatedAt /\ t.TrialEndsAt = s.TrialEndsAt /\ t.token
    BY DEF SubOK, SubscriptionRow
  <2> HIDE DEF t
  <2>3. SubOK(t, rw, ch)
    BY <2>1, <2>2 DEF SubOK
  <2> QED BY <2>1, <2>2, <2>3 DEF Ended
<1>4. ASSUME ChangePlan(s, planID, rw[planID]) # None
      PROVE  /\ SubOK(ChangePlan(s, planID, rw[planID]), rw, ch) /\ s.Status \notin Ended
             /\ ChangePlan(s, planID, rw[planID]).CurrentPeriodStart = s.CurrentPeriodStart
  <2> DEFINE t == [s EXCEPT !.PlanID = planID]
  <2>1. /\ s.Status \in {"active", "past_due"} /\ rw[planID] # None
        /\ ChangePlan(s, planID, rw[planID]) = t
    BY <1>4 DEF ChangePlan
  <2>2. /\ t \in SubscriptionRow
        /\ t.Status = s.Status /\ t.PlanID = planID
        /\ t.CurrentPeriodStart = s.CurrentPeriodStart
        /\ t.CurrentPeriodEnd = s.CurrentPeriodEnd
        /\ t.CreatedAt = s.CreatedAt /\ t.TrialEndsAt = s.TrialEndsAt /\ t.token = s.token
    BY DEF SubOK, SubscriptionRow
  <2> HIDE DEF t
  <2>3. SubOK(t, rw, ch)
    BY <2>1, <2>2 DEF SubOK
  <2> QED BY <2>1, <2>2, <2>3 DEF Ended
<1>5. ASSUME s.token, FailPayment(s) # None
      PROVE  /\ SubOK(FailPayment(s), rw, ch)
             /\ FailPayment(s).CurrentPeriodStart = s.CurrentPeriodStart
  BY <1>5, SubStatus DEF FailPayment, SubscriptionStatus
<1>6. s.Status = "trialing" =>
          /\ Activate(s).Status = "active" /\ Activate(s).PlanID = s.PlanID
          /\ Activate(s).token = s.token
  BY <1>1 DEF Activate
<1> QED BY <1>2, <1>3, <1>4, <1>5, <1>6

\* A renewal is sound once its charge is recorded.
LEMMA RenewOK ==
    ASSUME NEW s, NEW rw, NEW ch, SubOK(s, rw, ch), rw[s.PlanID] \in Plan,
           NEW t \in Nat, NEW ch2, ch \subseteq ch2,
           s.token => ChargedAt(ch2, t),
           s.Status \in {"active", "past_due"}
    PROVE  /\ SubOK(Renew(s, rw[s.PlanID], t), rw, ch2)
           /\ Renew(s, rw[s.PlanID], t).CurrentPeriodStart = t
           /\ Renew(s, rw[s.PlanID], t).Status = s.Status
<1> DEFINE e == t + rw[s.PlanID].Interval
           n == [s EXCEPT !.CurrentPeriodStart = t, !.CurrentPeriodEnd = e]
<1>1. e \in Nat /\ t < e
  BY DEF Plan
<1>2. Renew(s, rw[s.PlanID], t) = n
  BY DEF Renew
<1> HIDE DEF e
<1>3. /\ n \in SubscriptionRow
      /\ n.Status = s.Status /\ n.PlanID = s.PlanID
      /\ n.CurrentPeriodStart = t /\ n.CurrentPeriodEnd = e
      /\ n.token = s.token
  BY <1>1 DEF SubOK, SubscriptionRow
<1> HIDE DEF n
<1>4. SubOK(n, rw, ch2)
  BY <1>1, <1>3 DEF SubOK, ChargedAt
<1> QED BY <1>2, <1>3, <1>4

\* What the interfaces ask for, by operation.
LEMMA CallFields ==
    ASSUME NEW c \in ReqCall
    PROVE  \/ /\ c.op = "CreatePlan" /\ c.id \in Plans
              /\ c.arg.interval \in Nat \ {0} /\ c.arg.trial \in Nat
           \/ /\ c.op = "UpdatePlan" /\ c.id \in Plans
              /\ c.arg.interval \in Nat /\ c.arg.trial \in Nat
           \/ c.op \in {"ActivatePlan", "DeactivatePlan"} /\ c.id \in Plans
           \/ c.op = "Subscribe" /\ c.id \in Subs /\ c.arg \in Subscriptions
           \/ c.op \in {"AttachPaymentToken", "Activate", "Cancel"} /\ c.id \in Subs
           \/ c.op = "ChangePlan" /\ c.id \in Subs /\ c.arg \in Plans
<1>1. CASE c \in RestCreatePlan
  BY <1>1, BillingAssumption DEF RestCreatePlan, Call
<1>2. CASE c \in RestUpdatePlan
  BY <1>2, BillingAssumption DEF RestUpdatePlan, Call
<1>3. CASE c \in RestActivatePlan \cup ServiceDeactivatePlan
  BY <1>3 DEF RestActivatePlan, ServiceDeactivatePlan, Call
<1>4. CASE c \in RestSubscribe \cup McpSubscribe
  BY <1>4 DEF RestSubscribe, McpSubscribe, Unowned, Call
<1>5. CASE c \in RestAttachPaymentToken \cup RestActivateSubscription
              \cup RestCancelSubscription \cup McpAttachPaymentToken
              \cup McpActivateSubscription \cup McpCancelSubscription
  BY <1>5 DEF RestAttachPaymentToken, RestActivateSubscription, RestCancelSubscription,
     McpAttachPaymentToken, McpActivateSubscription, McpCancelSubscription,
     Owned, Unowned, Call
<1>6. CASE c \in RestChangePlan \cup McpChangePlan
  BY <1>6 DEF RestChangePlan, McpChangePlan, Owned, Unowned, Call
<1> QED BY <1>1, <1>2, <1>3, <1>4, <1>5, <1>6 DEF ReqCall, Routes, McpTools

\* The calls of a worker are worker's calls.
LEMMA WorkCalls ==
    ASSUME NEW op \in {"HandleBillingCycle", "ExpireTrials"}, NEW s \in Subs
    PROVE  Call(op, s, None, None) \in WorkCall
BY DEF WorkCall

\* What such a call names.
LEMMA WorkCallFields ==
    ASSUME NEW c \in WorkCall
    PROVE  c.op \in {"HandleBillingCycle", "ExpireTrials"} /\ c.id \in Subs
BY DEF WorkCall, Call

\* No operation of the interfaces is one of the worker's.
LEMMA OpsApart ==
    ASSUME NEW c \in ReqCall
    PROVE  /\ c.op \notin {"HandleBillingCycle", "ExpireTrials"}
           /\ c.id \in Subs \cup Plans
           /\ c.op \in Creates <=> c.op \in {"CreatePlan", "Subscribe"}
BY CallFields DEF Creates

\* The methods of a plan.
LEMMA PlanMethods ==
    ASSUME NEW p \in Plan, NEW i \in Nat, NEW n \in Nat
    PROVE  /\ Update(p, i, n) \in Plan
           /\ ActivatePlan(p) # None => ActivatePlan(p) \in Plan
           /\ Deactivate(p) # None => Deactivate(p) \in Plan
<1> DEFINE i2 == IF i > 0 THEN i ELSE p.Interval
           n2 == IF n >= 0 THEN n ELSE p.TrialDays
<1>1. i2 \in Nat \ {0} /\ n2 \in Nat
  BY DEF Plan
<1>2. Update(p, i, n) = [p EXCEPT !.Interval = i2, !.TrialDays = n2]
  BY DEF Update, Plan
<1> HIDE DEF i2, n2
<1>3. Update(p, i, n) \in Plan
  BY <1>1, <1>2 DEF Plan
<1>4. /\ ActivatePlan(p) # None => ActivatePlan(p) \in Plan
      /\ Deactivate(p) # None => Deactivate(p) \in Plan
  BY DEF ActivatePlan, Deactivate, Plan, PlanStatus
<1> QED BY <1>3, <1>4

\* A new subscription is in its first period.
LEMMA NewSubscriptionOK ==
    ASSUME RowsOK, now \in Nat, NEW arg \in Subscriptions, NEW ch,
           SvcSubscribeWithToken(arg) # None
    PROVE  SubOK(SvcSubscribeWithToken(arg), row, ch)
<1> DEFINE plan == row[arg.plan]
           s == NewSubscription(arg.user, arg.plan, plan, now)
<1>1. arg.plan \in Plans /\ arg.user \in Users /\ arg.token \in BOOLEAN
  BY DEF Subscriptions
<1>2. s # None
  BY DEF SvcSubscribeWithToken
<1>3. plan # None /\ plan \in Plan
  BY <1>1, <1>2 DEF RowsOK, NewSubscription
<1>4. SubOK(s, row, ch)
  <2>1. plan.Interval \in Nat \ {0} /\ plan.TrialDays \in Nat
    BY <1>3 DEF Plan
  <2> DEFINE e == now + plan.Interval
             d == IF plan.TrialDays > 0 THEN now + plan.TrialDays ELSE None
             st == IF plan.TrialDays > 0 THEN "trialing" ELSE "pending"
  <2>2. e \in Nat /\ now < e
    BY <2>1
  <2>3. d \in Nat \cup {None} /\ (st = "trialing" => d \in Nat /\ now <= d)
    BY <2>1
  <2>4. st \in {"trialing", "pending"}
    OBVIOUS
  <2>5. s = [UserID |-> arg.user, PlanID |-> arg.plan, CreatedAt |-> now, Status |-> st,
             CurrentPeriodStart |-> now, CurrentPeriodEnd |-> e, TrialEndsAt |-> d,
             token |-> FALSE]
    BY <1>2 DEF NewSubscription
  <2>6. None \notin Nat
    BY BillingAssumption
  <2> HIDE DEF e, d, st, s, plan
  <2> QED BY <1>1, <1>3, <2>2, <2>3, <2>4, <2>5, <2>6
          DEF SubOK, SubscriptionRow, SubscriptionStatus, plan
<1>5. SvcSubscribeWithToken(arg) = IF arg.token THEN AttachPaymentToken(s) ELSE s
  BY <1>2 DEF SvcSubscribeWithToken
<1> HIDE DEF s
<1> QED BY <1>1, <1>4, <1>5, SubMethods

\* What a request may save: the service's methods keep a copy sound, keep
\* its period, and refuse one that has ended.
LEMMA MethodOK ==
    ASSUME RowsOK, now \in Nat, NEW c \in ReqCall, NEW copy,
           c.op \notin Creates => /\ c.id \in Subs => SubOK(copy, row, charged[c.id])
                                  /\ c.id \in Plans => copy \in Plan,
           Method(c, copy) # None
    PROVE  /\ c.id \in Subs => SubOK(Method(c, copy), row, charged[c.id])
           /\ c.id \in Plans => Method(c, copy) \in Plan
           /\ c.id \in Subs /\ c.op \notin Creates =>
                 /\ Method(c, copy).CurrentPeriodStart = copy.CurrentPeriodStart
                 /\ copy.Status \notin Ended
<1>0. ~(c.id \in Subs /\ c.id \in Plans)
  BY BillingAssumption
<1>1. CASE c.op = "CreatePlan"
  <2>1. Method(c, copy) = NewPlan(c.arg.interval, c.arg.trial)
    BY <1>1 DEF Method, SvcCreatePlan
  <2>2. c.id \in Plans /\ c.arg.interval \in Nat \ {0} /\ c.arg.trial \in Nat
    BY <1>1, CallFields
  <2> QED BY <1>0, <2>1, <2>2 DEF NewPlan, Plan, PlanStatus
<1>2. CASE c.op = "UpdatePlan"
  <2>1. Method(c, copy) = Update(copy, c.arg.interval, c.arg.trial)
    BY <1>2 DEF Method, SvcUpdatePlan
  <2>2. /\ c.id \in Plans /\ c.arg.interval \in Nat /\ c.arg.trial \in Nat
        /\ c.op \notin Creates
    BY <1>2, CallFields DEF Creates
  <2> QED BY <1>0, <2>1, <2>2, PlanMethods
<1>3. CASE c.op \in {"ActivatePlan", "DeactivatePlan"}
  <2>1. Method(c, copy) \in {ActivatePlan(copy), Deactivate(copy)}
    BY <1>3 DEF Method, SvcActivatePlan, SvcDeactivatePlan
  <2>2. c.id \in Plans /\ c.op \notin Creates
    BY <1>3, CallFields DEF Creates
  <2> QED BY <1>0, <2>1, <2>2, PlanMethods
<1>4. CASE c.op = "Subscribe"
  <2>1. Method(c, copy) = SvcSubscribeWithToken(c.arg)
    BY <1>4 DEF Method
  <2>2. c.id \in Subs /\ c.arg \in Subscriptions /\ c.op \in Creates
    BY <1>4, CallFields DEF Creates
  <2> QED BY <1>0, <2>1, <2>2, NewSubscriptionOK
<1>5. CASE c.op \in {"AttachPaymentToken", "Activate", "Cancel", "ChangePlan"}
  <2>1. /\ c.id \in Subs /\ c.op \notin Creates
        /\ c.op = "ChangePlan" => c.arg \in Plans
    BY <1>5, CallFields DEF Creates
  <2>2. \/ Method(c, copy) \in {AttachPaymentToken(copy), Activate(copy), Cancel(copy)}
        \/ c.op = "ChangePlan" /\ Method(c, copy) = ChangePlan(copy, c.arg, row[c.arg])
    BY <1>5 DEF Method, SvcAttachPaymentToken, SvcActivateSubscription,
       SvcCancelSubscription, SvcChangePlan
  <2>3. SubOK(copy, row, charged[c.id])
    BY <2>1
  <2>4. PICK planID \in Plans : c.op = "ChangePlan" => planID = c.arg
    <3>1. copy.PlanID \in Plans
      BY <2>3 DEF SubOK, SubscriptionRow
    <3> QED BY <2>1, <3>1
  <2>5. Method(c, copy) \in {Activate(copy), Cancel(copy), Expire(copy),
            AttachPaymentToken(copy), ChangePlan(copy, planID, row[planID])} \ {None}
    BY <2>2, <2>4
  <2> HIDE DEF Method, Activate, Cancel, Expire, AttachPaymentToken, ChangePlan
  <2> QED BY <1>0, <2>1, <2>3, <2>5, SubMethods
<1> QED BY <1>1, <1>2, <1>3, <1>4, <1>5, CallFields

-----------------------------------------------------------------------------
(* What a step leaves alone *)

\* A process's copies stay sound when rows and charges are added.
LEMMA CopiesGrow ==
    ASSUME NEW p \in Procs, NEW q, CallOK(q, p), NEW rw, NEW ch, NEW rw2, NEW ch2,
           CopiesOK(q, rw, ch),
           \A x \in Subs \cup Plans : rw[x] # None => rw2[x] # None,
           \A s \in Subs : ch[s] \subseteq ch2[s]
    PROVE  CopiesOK(q, rw2, ch2)
<1>1. /\ q.pc = "load" => q.call.id \in Subs \cup Plans
      /\ q.call \in WorkCall => q.call.id \in Subs
      /\ \A t \in q.todo : t.id \in Subs
  BY WorkCallFields, OpsApart DEF CallOK, ProcRecord, Procs
<1>2. ASSUME Busy(q), ~(q.pc = "apply" /\ q.call.op \in Creates), q.call.id \in Subs
      PROVE  SubOK(q.copy, rw2, ch2[q.call.id])
  BY <1>2, SubGrows DEF CopiesOK
<1>3. ASSUME NEW t \in q.todo, AtTrials(q)
      PROVE  SubOK(t.copy, rw2, ch2[t.id]) /\ t.copy.Status = "trialing"
  BY <1>1, <1>3, SubGrows DEF CopiesOK
<1> QED BY <1>1, <1>2, <1>3 DEF CopiesOK

\* One process takes a step.
LEMMA ProcStep ==
    ASSUME ProcsOK, NEW p \in Procs, NEW q, proc' = [proc EXCEPT ![p] = q],
           CallOK(q, p), CopiesOK(q, row', charged'),
           \A x \in Subs \cup Plans : row[x] # None => row'[x] # None,
           \A s \in Subs : charged[s] \subseteq charged'[s]
    PROVE  ProcsOK'
<1>1. q \in ProcRecord
  BY DEF CallOK
<1>2. proc' \in [Procs -> ProcRecord]
  BY <1>1 DEF ProcsOK
<1>3. ASSUME NEW o \in Procs PROVE CallOK(proc'[o], o) /\ CopiesOK(proc'[o], row', charged')
  <2>1. CASE o = p
    BY <2>1 DEF ProcsOK
  <2>2. CASE o # p
    <3>1. proc'[o] = proc[o] /\ CallOK(proc[o], o) /\ CopiesOK(proc[o], row, charged)
      BY <2>2 DEF ProcsOK
    <3> QED BY <3>1, CopiesGrow
  <2> QED BY <2>1, <2>2
<1> QED BY <1>2, <1>3 DEF ProcsOK

\* The rows when none is written.
LEMMA RowsKept ==
    ASSUME RowsOK, row' = row, \A s \in Subs : charged[s] \subseteq charged'[s]
    PROVE  RowsOK'
<1>1. ASSUME NEW s \in Subs, row[s] # None PROVE SubOK(row[s], row, charged'[s])
  BY <1>1, SubGrows DEF RowsOK
<1> QED BY <1>1 DEF RowsOK

\* One process takes a step that writes neither row nor charge of s.
LEMMA CalmStep ==
    ASSUME ProcsOK, NEW s \in Subs, Calm(s), NEW p \in Procs, NEW q,
           proc' = [proc EXCEPT ![p] = q],
           row'[s] = row[s], charged'[s] = charged[s], now' = now,
           CalmProc(q, s, row[s], charged[s], now),
           Holding(q, s) =>
              Holding(proc[p], s) \/ \A o \in Procs \ {p} : ~Holding(proc[o], s),
           Saves(proc[p], s) => Saves(q, s)
    PROVE  Calm(s)'
<1>1. \A o \in Procs : proc'[o] = IF o = p THEN q ELSE proc[o]
  BY DEF ProcsOK
<1>2. ASSUME NEW a \in Procs, NEW b \in Procs, Holding(proc'[a], s), Holding(proc'[b], s)
      PROVE  a = b
  <2>1. CASE a = p /\ b = p
    BY <2>1
  <2>2. CASE a = p /\ b # p
    BY <1>1, <1>2, <2>2 DEF Calm
  <2>3. CASE a # p /\ b = p
    BY <1>1, <1>2, <2>3 DEF Calm
  <2>4. CASE a # p /\ b # p
    BY <1>1, <1>2, <2>4 DEF Calm
  <2> QED BY <2>1, <2>2, <2>3, <2>4
<1>3. \A o \in Procs : CalmProc(proc'[o], s, row'[s], charged'[s], now')
  BY <1>1 DEF Calm
<1>4. (\A o \in Procs : ~Saves(proc'[o], s)) => \A o \in Procs : ~Saves(proc[o], s)
  BY <1>1
<1> QED BY <1>2, <1>3, <1>4 DEF Calm

\* A process that does not hold s says nothing of it.
LEMMA CalmVacuous ==
    ASSUME NEW q, NEW s, NEW r, NEW ch, NEW t, ~Holding(q, s)
    PROVE  CalmProc(q, s, r, ch, t)
BY DEF CalmProc, Holding, Busy, Saves

\* Idle holds nothing.
LEMMA IdleOK ==
    ASSUME NEW p \in Procs, NEW rw, NEW ch
    PROVE  /\ CallOK(Idle, p) /\ CopiesOK(Idle, rw, ch)
           /\ ~Busy(Idle) /\ Idle.todo = {} /\ Idle.copy = None /\ Idle.call = None
           /\ Idle \in ProcRecord
           /\ \A s : ~Holding(Idle, s) /\ ~Saves(Idle, s)
<1>1. /\ Idle \in ProcRecord
      /\ Idle.pc = "idle" /\ Idle.call = None /\ Idle.copy = None /\ Idle.todo = {}
  BY DEF Idle, ProcRecord
<1> HIDE DEF Idle
<1> QED BY <1>1 DEF CallOK, CopiesOK, Busy, Holding, Saves

\* The call is over: what is left is the rest of the worker's list.
LEMMA DoneOK ==
    ASSUME ProcsOK, NEW p \in Procs, Done(p), Busy(proc[p]) \/ p \in Requests,
           NEW rw, NEW ch, CopiesOK(proc[p], rw, ch)
    PROVE  \E q : /\ proc' = [proc EXCEPT ![p] = q]
                  /\ CallOK(q, p) /\ CopiesOK(q, rw, ch)
                  /\ ~Busy(q) /\ q.todo \subseteq proc[p].todo
                  /\ q.todo # {} => (AtTrials(q) <=> AtTrials(proc[p]))
<1> DEFINE op == proc[p].call.op
           td == proc[p].todo
           q == IF p \in Requests THEN Idle
                ELSE IF op = "ExpireTrials" /\ td = {} THEN Idle
                ELSE [Idle EXCEPT !.pc = IF op = "ExpireTrials" THEN "trials" ELSE "due",
                                  !.todo = td]
<1>1. proc' = [proc EXCEPT ![p] = q]
  BY DEF Done
<1>2. CASE q = Idle
  BY <1>1, <1>2, IdleOK
<1>3. CASE q # Idle
  <2>0. /\ p \in Workers /\ p \notin Requests
        /\ CallOK(proc[p], p) /\ proc[p] \in ProcRecord /\ Busy(proc[p])
    BY <1>3 DEF Procs, ProcsOK
  <2>1. /\ q \in ProcRecord /\ q.todo = td /\ q.pc \in {"trials", "due"}
        /\ q.pc = "trials" <=> op = "ExpireTrials"
    BY <1>3, <2>0 DEF Idle, ProcRecord
  <2> HIDE DEF q
  <2>2. CallOK(q, p) /\ ~Busy(q)
    BY <2>0, <2>1 DEF CallOK, Busy
  <2>3. AtTrials(q) <=> AtTrials(proc[p])
    BY <2>0, <2>1, <2>2 DEF AtTrials, Busy
  <2>4. CopiesOK(q, rw, ch)
    BY <2>1, <2>2, <2>3 DEF CopiesOK, Busy
  <2> QED BY <1>1, <2>1, <2>2, <2>3, <2>4
<1> QED BY <1>2, <1>3

\* Holding less keeps calm what was calm.
LEMMA CalmFewer ==
    ASSUME NEW o, NEW q, NEW s, NEW r, NEW ch, NEW t, CalmProc(o, s, r, ch, t),
           ~Busy(q), q.todo \subseteq o.todo,
           q.todo # {} => (AtTrials(q) <=> AtTrials(o))
    PROVE  /\ CalmProc(q, s, r, ch, t)
           /\ Holding(q, s) => Holding(o, s)
           /\ ~Saves(q, s)
<1>1. q.pc \notin {"apply", "save", "trialSave"}
  BY DEF Busy
<1> QED BY <1>1 DEF CalmProc, Holding, Saves

-----------------------------------------------------------------------------
(* Requests *)

\* While one process holds s, nobody else saves it.
LEMMA SoleHolder ==
    ASSUME NEW s, Calm(s), NEW p \in Procs, Holding(proc[p], s)
    PROVE  /\ \A o \in Procs \ {p} : ~Holding(proc[o], s) /\ ~Saves(proc[o], s)
           /\ ~Saves(proc[p], s) =>
                 \A x \in charged[s] : x.after < row[s].CurrentPeriodStart
<1>1. \A o : Saves(proc[o], s) => Holding(proc[o], s)
  BY DEF Saves, Holding, Busy
<1>2. \A o \in Procs \ {p} : ~Holding(proc[o], s)
  BY DEF Calm
<1> QED BY <1>1, <1>2 DEF Calm

\* Time passes: what was charged stays charged for its period.
LEMMA TickOK ==
    ASSUME IInv, Tick PROVE IInv'
<1>1. /\ now \in Nat /\ now' = now + 1
      /\ UNCHANGED <<row, proc, charged, again, disturbed>>
  BY DEF IInv, HistoryOK, Tick
<1>2. ASSUME NEW s \in Subs \ disturbed PROVE Calm(s)'
  <2>0. Calm(s)
    BY DEF IInv
  <2>1. ASSUME NEW p \in Procs PROVE CalmProc(proc[p], s, row[s], charged[s], now + 1)
    <3> DEFINE q == proc[p]
    <3>1. CallOK(q, p) /\ CopiesOK(q, row, charged) /\ CalmProc(q, s, row[s], charged[s], now)
      BY <2>0 DEF IInv, ProcsOK, Calm
    <3>2. row[s] # None => row[s].CurrentPeriodEnd \in Nat
      BY DEF IInv, RowsOK, SubOK, SubscriptionRow
    <3>3. q.pc = "apply" /\ q.call.id = s /\ q.call.op = "HandleBillingCycle" => row[s] # None
      BY <3>1, OpsApart DEF CallOK, CopiesOK, Busy, Procs
    <3>4. ASSUME NEW u \in q.todo, u.id = s
          PROVE  row[s] # None /\ (AtTrials(q) /\ u.copy = row[s] => row[s].TrialEndsAt \in Nat)
      <4>1. row[s] # None
        BY <3>1, <3>4 DEF CopiesOK
      <4>2. AtTrials(q) => u.copy.TrialEndsAt \in Nat
        BY <3>1, <3>4 DEF CopiesOK, SubOK, SubscriptionRow
      <4> QED BY <4>1, <4>2
    <3> HIDE DEF q
    <3>5. \A a \in Nat : a < now => a < now + 1
      BY <1>1
    <3>6. \A u \in q.todo : u.id = s =>
              /\ ~(Busy(q) /\ q.call.id = s)
              /\ AtTrials(q) => u.copy = row[s] /\ row[s].TrialEndsAt < now + 1
              /\ ~AtTrials(q) => row[s].Status = "active" /\ row[s].CurrentPeriodEnd < now + 1
      BY <3>1, <3>2, <3>4, <3>5 DEF CalmProc
    <3>7. CalmProc(q, s, row[s], charged[s], now + 1)
      BY <3>1, <3>2, <3>3, <3>5, <3>6 DEF CalmProc
    <3> QED BY <3>7 DEF q
  <2> QED BY <1>1, <2>0, <2>1 DEF Calm
<1> QED BY <1>1, <1>2 DEF IInv, RowsOK, ProcsOK, HistoryOK

\* A request arrives, with no copy yet.
LEMMA ArriveOK ==
    ASSUME IInv, NEW r \in Requests, Arrive(r) PROVE IInv'
<1>0. /\ r \in Procs /\ r \notin Workers
      /\ UNCHANGED <<now, row, charged, again, disturbed>>
      /\ proc[r].pc = "idle" /\ proc \in [Procs -> ProcRecord]
  BY BillingAssumption DEF Arrive, Procs, IInv, ProcsOK
<1>1. PICK c \in ReqCall :
          /\ c.op \in Creates <=> row[c.id] = None
          /\ c.op \in Creates => c.id \notin InUse
          /\ proc' = [proc EXCEPT ![r] =
                [Idle EXCEPT !.pc = IF c.op \in Creates THEN "apply" ELSE "load",
                             !.call = c]]
  BY DEF Arrive, ReqCall
<1> DEFINE q == [Idle EXCEPT !.pc = IF c.op \in Creates THEN "apply" ELSE "load",
                             !.call = c]
<1>2. /\ q \in ProcRecord
      /\ q.pc = IF c.op \in Creates THEN "apply" ELSE "load"
      /\ q.call = c /\ q.copy = None /\ q.todo = {}
  BY DEF Idle, ProcRecord
<1>3. proc' = [proc EXCEPT ![r] = q]
  BY <1>1
<1> HIDE DEF q
<1>4. CallOK(q, r)
  BY <1>0, <1>2 DEF CallOK
<1>5. c \notin WorkCall
  BY OpsApart, WorkCallFields
<1>6. CopiesOK(q, row, charged)
  BY <1>1, <1>2, <1>5 DEF CopiesOK, Busy
<1>7. ProcsOK' /\ RowsOK'
  BY <1>0, <1>3, <1>4, <1>6, ProcStep, RowsKept DEF IInv
<1>8. ASSUME NEW s \in Subs \ disturbed PROVE Calm(s)'
  <2>1. ~Saves(proc[r], s) /\ Calm(s)
    BY <1>0 DEF Saves, IInv
  <2>2. CASE c.op \in Creates /\ c.id = s
    <3>1. row[s] = None
      BY <1>1, <2>2
    <3>2. CalmProc(q, s, row[s], charged[s], now)
      BY <1>2, <2>2, <3>1 DEF CalmProc, Saves, Creates
    <3>3. ASSUME NEW o \in Procs, Holding(proc[o], s) PROVE FALSE
      <4>1. CallOK(proc[o], o) /\ CopiesOK(proc[o], row, charged)
        BY DEF IInv, ProcsOK
      <4>2. proc[o].todo = {} \/ ~\E t \in proc[o].todo : t.id = s
        BY <3>1, <4>1 DEF CopiesOK
      <4>3. Busy(proc[o]) /\ proc[o].call.id = s
        BY <3>3, <4>2 DEF Holding
      <4>4. CASE o \in Workers
        BY <3>1, <4>1, <4>3, <4>4 DEF CallOK, CopiesOK
      <4>5. CASE o \in Requests
        BY <1>1, <2>2, <4>3, <4>5 DEF InUse, Busy
      <4> QED BY <4>4, <4>5 DEF Procs
    <3> QED BY <1>0, <1>3, <2>1, <3>2, <3>3, CalmStep DEF IInv
  <2>3. CASE ~(c.op \in Creates /\ c.id = s)
    <3>1. ~Holding(q, s)
      BY <1>2, <2>3 DEF Holding, Busy
    <3>2. CalmProc(q, s, row[s], charged[s], now)
      BY <3>1, CalmVacuous
    <3> QED BY <1>0, <1>3, <2>1, <3>1, <3>2, CalmStep DEF IInv
  <2> QED BY <2>2, <2>3
<1> QED BY <1>0, <1>7, <1>8 DEF IInv, HistoryOK

\* The call is over and nothing was written or charged.
LEMMA GivenUp ==
    ASSUME IInv, NEW p \in Procs, Done(p), Busy(proc[p]) \/ p \in Requests,
           row' = row, charged' = charged, now' = now, again' = again,
           disturbed \subseteq disturbed', disturbed' \subseteq Subs,
           \A s \in Subs \ disturbed' : ~Saves(proc[p], s)
    PROVE  IInv'
<1>0. CopiesOK(proc[p], row, charged)
  BY DEF IInv, ProcsOK
<1>1. PICK q : /\ proc' = [proc EXCEPT ![p] = q]
               /\ CallOK(q, p) /\ CopiesOK(q, row, charged)
               /\ ~Busy(q) /\ q.todo \subseteq proc[p].todo
               /\ q.todo # {} => (AtTrials(q) <=> AtTrials(proc[p]))
  BY <1>0, DoneOK DEF IInv
<1>2. ProcsOK' /\ RowsOK'
  BY <1>1, ProcStep, RowsKept DEF IInv
<1>3. ASSUME NEW s \in Subs \ disturbed' PROVE Calm(s)'
  <2>1. Calm(s) /\ CalmProc(proc[p], s, row[s], charged[s], now) /\ ~Saves(proc[p], s)
    BY DEF IInv, Calm
  <2>2. CalmProc(q, s, row[s], charged[s], now) /\ (Holding(q, s) => Holding(proc[p], s))
    BY <1>1, <2>1, CalmFewer
  <2> QED BY <1>1, <2>1, <2>2, CalmStep DEF IInv
<1> QED BY <1>2, <1>3 DEF IInv, HistoryOK

\* The copy of a handler is the row, or the request ends.
LEMMA LoadOK ==
    ASSUME IInv, NEW p \in Requests, Load(p) PROVE IInv'
<1> DEFINE c == proc[p].call
           q == [proc[p] EXCEPT !.pc = "apply", !.copy = row[c.id]]
<1>0. /\ p \in Procs /\ p \notin Workers
      /\ UNCHANGED <<now, row, charged, again>>
      /\ proc[p].pc = "load" /\ proc \in [Procs -> ProcRecord]
      /\ CallOK(proc[p], p) /\ CopiesOK(proc[p], row, charged)
  BY BillingAssumption DEF Load, Procs, IInv, ProcsOK
<1>1. c \in ReqCall /\ c.op \notin Creates /\ row[c.id] # None /\ proc[p].todo = {}
  BY <1>0 DEF CallOK, CopiesOK
<1>2. CASE Done(p) /\ UNCHANGED disturbed
  <2>1. \A s : ~Saves(proc[p], s)
    BY <1>0 DEF Saves
  <2> QED BY <1>0, <1>2, <2>1, GivenUp DEF IInv, HistoryOK
<1>3. CASE /\ proc' = [proc EXCEPT ![p].pc = "apply", ![p].copy = row[c.id]]
           /\ disturbed' = disturbed \cup Crowded(p, {c.id})
  <2>1. proc' = [proc EXCEPT ![p] = q]
    BY <1>0, <1>3
  <2>2. c.id \in Subs \cup Plans /\ c.op \notin {"HandleBillingCycle", "ExpireTrials"}
        /\ c \notin WorkCall
    BY <1>1, OpsApart, WorkCallFields
  <2>3. row[c.id] \in SubscriptionRow \cup Plan \cup {None}
    BY <2>2 DEF IInv, RowsOK
  <2>4. /\ q \in ProcRecord
        /\ q.pc = "apply" /\ q.call = c /\ q.copy = row[c.id] /\ q.todo = {}
    BY <1>0, <1>1, <2>3 DEF ProcRecord
  <2> HIDE DEF q, c
  <2>5. CallOK(q, p)
    BY <1>0, <1>1, <2>4 DEF CallOK
  <2>6. CopiesOK(q, row, charged)
    BY <1>1, <2>2, <2>4 DEF CopiesOK, Busy, IInv, RowsOK
  <2>7. ProcsOK' /\ RowsOK'
    BY <1>0, <2>1, <2>5, <2>6, ProcStep, RowsKept DEF IInv
  <2>8. ASSUME NEW s \in Subs \ disturbed' PROVE Calm(s)'
    <3>1. Calm(s) /\ ~Saves(proc[p], s)
      BY <1>0, <1>3 DEF IInv, Saves
    <3>2. CalmProc(q, s, row[s], charged[s], now)
      BY <1>1, <2>2, <2>4 DEF CalmProc, Saves, Busy
    <3>3. Holding(q, s) => \A o \in Procs \ {p} : ~Holding(proc[o], s)
      <4>1. CASE c.id = s
        BY <1>3, <4>1 DEF Crowded, Holds, Holding, Busy
      <4>2. CASE c.id # s
        BY <2>4, <4>2 DEF Holding
      <4> QED BY <4>1, <4>2
    <3> QED BY <1>0, <2>1, <3>1, <3>2, <3>3, CalmStep DEF IInv
  <2> QED BY <1>0, <1>3, <2>7, <2>8 DEF IInv, HistoryOK, Crowded
<1> QED BY <1>2, <1>3 DEF Load

\* No method of a handler moves the period forward unpaid.
LEMMA ApplyOK ==
    ASSUME IInv, NEW p \in Requests, Apply(p) PROVE IInv'
<1> DEFINE c == proc[p].call
           m == Method(c, proc[p].copy)
           q == [proc[p] EXCEPT !.pc = "save", !.copy = m]
<1>0. /\ p \in Procs /\ p \notin Workers
      /\ UNCHANGED <<now, row, charged, again, disturbed>>
      /\ proc[p].pc = "apply" /\ proc \in [Procs -> ProcRecord]
      /\ CallOK(proc[p], p) /\ CopiesOK(proc[p], row, charged)
      /\ now \in Nat
  BY BillingAssumption DEF Apply, Procs, IInv, ProcsOK, HistoryOK
<1>1. c \in ReqCall /\ proc[p].todo = {} /\ Busy(proc[p])
  BY <1>0 DEF CallOK, Busy
<1>2. CASE m = None
  <2>1. \A s : ~Saves(proc[p], s)
    BY <1>0 DEF Saves
  <2> QED BY <1>0, <1>1, <1>2, <2>1, GivenUp DEF IInv, HistoryOK, Apply
<1>3. CASE m # None
  <2>0. proc' = [proc EXCEPT ![p].pc = "save", ![p].copy = m]
    BY <1>3 DEF Apply
  <2>1. proc' = [proc EXCEPT ![p] = q]
    BY <1>0, <2>0
  <2>2. /\ c.id \in Subs => SubOK(m, row, charged[c.id])
        /\ c.id \in Plans => m \in Plan
        /\ c.id \in Subs /\ c.op \notin Creates =>
              /\ m.CurrentPeriodStart = proc[p].copy.CurrentPeriodStart
              /\ proc[p].copy.Status \notin Ended
    <3>1. c.op \notin Creates => /\ c.id \in Subs => SubOK(proc[p].copy, row, charged[c.id])
                                 /\ c.id \in Plans => proc[p].copy \in Plan
      BY <1>0, <1>1 DEF CopiesOK
    <3> HIDE DEF c
    <3> QED BY <1>0, <1>1, <1>3, <3>1, MethodOK DEF IInv
  <2>3. c.id \in Subs \cup Plans /\ c.op \notin {"HandleBillingCycle", "ExpireTrials"}
        /\ c \notin WorkCall
    BY <1>1, OpsApart, WorkCallFields
  <2>4. /\ q \in ProcRecord
        /\ q.pc = "save" /\ q.call = c /\ q.copy = m /\ q.todo = {}
    <3>1. m \in SubscriptionRow \cup Plan
      BY <2>2, <2>3 DEF SubOK
    <3> HIDE DEF m
    <3> QED BY <1>0, <1>1, <3>1 DEF ProcRecord
  <2> HIDE DEF q, c, m
  <2>5. CallOK(q, p)
    BY <1>0, <1>1, <2>4 DEF CallOK
  <2>6. CopiesOK(q, row, charged)
    BY <2>2, <2>3, <2>4 DEF CopiesOK, Busy
  <2>7. ProcsOK' /\ RowsOK'
    BY <1>0, <2>1, <2>5, <2>6, ProcStep, RowsKept DEF IInv
  <2>8. ASSUME NEW s \in Subs \ disturbed PROVE Calm(s)'
    <3>1. Calm(s) /\ ~Saves(proc[p], s) /\ CalmProc(proc[p], s, row[s], charged[s], now)
      BY <1>0 DEF IInv, Saves, Calm
    <3>2. CASE c.id = s
      <4>1. Holding(proc[p], s)
        BY <1>1, <3>2 DEF Holding, c
      <4>2. \A x \in charged[s] : x.after < row[s].CurrentPeriodStart
        BY <1>0, <3>1, <4>1, SoleHolder
      <4>3. c.op \in Creates => row[s] = None /\ charged[s] = {}
        BY <1>1, <3>1, <3>2 DEF CalmProc, Calm, c
      <4>4. c.op \notin Creates => proc[p].copy = row[s]
        BY <1>0, <3>1, <3>2 DEF CalmProc, c
      <4>5. \A x \in charged[s] : x.after < m.CurrentPeriodStart
        BY <2>2, <3>2, <4>2, <4>3, <4>4
      <4>6. row[s] # None => row[s].Status \notin Ended
        BY <2>2, <3>2, <4>3, <4>4
      <4>7. CalmProc(q, s, row[s], charged[s], now)
        BY <2>4, <4>3, <4>5, <4>6 DEF CalmProc, Saves
      <4> QED BY <1>0, <2>1, <3>1, <4>1, <4>7, CalmStep DEF IInv
    <3>3. CASE c.id # s
      <4>1. ~Holding(q, s)
        BY <2>4, <3>3 DEF Holding
      <4>2. CalmProc(q, s, row[s], charged[s], now)
        BY <4>1, CalmVacuous
      <4> QED BY <1>0, <2>1, <3>1, <4>1, <4>2, CalmStep DEF IInv
    <3> QED BY <3>2, <3>3
  <2> QED BY <1>0, <2>7, <2>8 DEF IInv, HistoryOK
<1> QED BY <1>2, <1>3

\* The row becomes a copy that was good, of a subscription it was good for.
LEMMA SaveOK ==
    ASSUME IInv, NEW p \in Procs, Save(p) PROVE IInv'
<1> DEFINE id == proc[p].call.id
           copy == proc[p].copy
<1>0. /\ UNCHANGED <<now, charged, again, disturbed>>
      /\ proc[p].pc \in {"save", "trialSave"} /\ proc \in [Procs -> ProcRecord]
      /\ CallOK(proc[p], p) /\ CopiesOK(proc[p], row, charged)
      /\ row' = [row EXCEPT ![id] = copy]
      /\ Busy(proc[p])
      /\ Done(p)
  BY DEF Save, IInv, ProcsOK, Busy
<1>1. /\ id \in Subs => SubOK(copy, row, charged[id])
      /\ id \in Plans => copy \in Plan
      /\ id \in Subs \cup Plans
  BY <1>0, OpsApart, WorkCallFields DEF CopiesOK, CallOK, Procs
<1>2. copy \in SubscriptionRow \cup Plan /\ copy # None
  BY <1>1, InitialSubsAssumption DEF SubOK
<1> HIDE DEF id, copy
<1>3. /\ row' \in [Subs \cup Plans -> SubscriptionRow \cup Plan \cup {None}]
      /\ \A x \in Subs \cup Plans : row[x] # None => row'[x] # None
      /\ row'[id] = copy
      /\ \A x \in Subs \cup Plans : x # id => row'[x] = row[x]
  BY <1>0, <1>1, <1>2 DEF IInv, RowsOK
<1>4. RowsOK'
  <2>1. \A x \in Plans : row'[x] \in Plan \cup {None}
    BY <1>1, <1>3 DEF IInv, RowsOK
  <2>2. ASSUME NEW s \in Subs, row'[s] # None PROVE SubOK(row'[s], row', charged'[s])
    <3>1. SubOK(row'[s], row, charged[s])
      BY <1>1, <1>3, <2>2 DEF IInv, RowsOK
    <3>2. charged[s] \subseteq charged'[s] /\ \A x \in Plans : row[x] # None => row'[x] # None
      BY <1>0, <1>3
    <3> QED BY <3>1, <3>2, SubGrows
  <2> QED BY <1>3, <2>1, <2>2 DEF RowsOK
<1>5. PICK q : /\ proc' = [proc EXCEPT ![p] = q]
               /\ CallOK(q, p) /\ CopiesOK(q, row, charged)
               /\ ~Busy(q) /\ q.todo \subseteq proc[p].todo
               /\ q.todo # {} => (AtTrials(q) <=> AtTrials(proc[p]))
  BY <1>0, DoneOK DEF IInv
<1>6. CopiesOK(q, row', charged')
  BY <1>0, <1>3, <1>5, CopiesGrow
<1>7. ProcsOK'
  BY <1>0, <1>3, <1>5, <1>6, ProcStep DEF IInv
<1>8. ASSUME NEW s \in Subs \ disturbed PROVE Calm(s)'
  <2>1. Calm(s) /\ CalmProc(proc[p], s, row[s], charged[s], now)
    BY DEF IInv, Calm
  <2>2. /\ CalmProc(q, s, row[s], charged[s], now)
        /\ Holding(q, s) => Holding(proc[p], s)
        /\ ~Saves(q, s)
    BY <1>5, <2>1, CalmFewer
  <2>3. CASE id = s
    <3>1. Holding(proc[p], s) /\ Saves(proc[p], s)
      BY <1>0, <2>3 DEF Holding, Saves, id
    <3>2. \A o \in Procs \ {p} : ~Holding(proc[o], s) /\ ~Saves(proc[o], s)
      BY <2>1, <3>1, SoleHolder
    <3>3. ~Holding(q, s)
      BY <1>0, <1>5, <2>1, <2>3 DEF Holding, CalmProc, id
    <3>4. \A o \in Procs : ~Holding(proc'[o], s) /\ ~Saves(proc'[o], s)
      BY <1>0, <1>5, <2>2, <3>2, <3>3
    <3>5. \A o \in Procs : CalmProc(proc'[o], s, row'[s], charged'[s], now')
      BY <3>4, CalmVacuous
    <3>6. \A x \in charged[s] : x.after < row'[s].CurrentPeriodStart
      BY <1>3, <2>1, <2>3, <3>1 DEF CalmProc, copy
    <3>7. row'[s] # None
      BY <1>2, <1>3, <2>3
    <3> QED BY <1>0, <3>4, <3>5, <3>6, <3>7 DEF Calm
  <2>4. CASE id # s
    <3>1. ~Saves(proc[p], s) /\ row'[s] = row[s]
      BY <1>3, <2>4 DEF Saves, id
    <3> QED BY <1>0, <1>5, <2>1, <2>2, <3>1, CalmStep DEF IInv
  <2> QED BY <2>3, <2>4
<1> QED BY <1>0, <1>4, <1>7, <1>8 DEF IInv, HistoryOK

\* A save that fails leaves the row and marks the subscription.
LEMMA SaveFailsOK ==
    ASSUME IInv, NEW p \in Procs, SaveFails(p) PROVE IInv'
<1>0. /\ UNCHANGED <<now, row, charged, again>>
      /\ proc[p].pc \in {"save", "trialSave"} /\ proc \in [Procs -> ProcRecord]
      /\ CallOK(proc[p], p) /\ CopiesOK(proc[p], row, charged)
      /\ disturbed' = disturbed \cup ({proc[p].call.id} \cap Subs)
      /\ Busy(proc[p])
      /\ disturbed' \subseteq Subs /\ disturbed \subseteq disturbed'
      /\ HistoryOK'
  BY DEF SaveFails, IInv, ProcsOK, Busy, HistoryOK
<1>1. ASSUME NEW s \in Subs \ disturbed'
      PROVE  /\ Calm(s) /\ CalmProc(proc[p], s, row[s], charged[s], now)
             /\ proc[p].call.id # s /\ ~Saves(proc[p], s)
  BY <1>0 DEF IInv, Calm, Saves
<1>2. CASE Done(p)
  BY <1>0, <1>1, <1>2, GivenUp
<1>3. CASE proc' = [proc EXCEPT ![p] = Idle]
  <2>1. ProcsOK' /\ RowsOK'
    BY <1>0, <1>3, IdleOK, ProcStep, RowsKept DEF IInv
  <2>2. ASSUME NEW s \in Subs \ disturbed' PROVE Calm(s)'
    <3>1. CalmProc(Idle, s, row[s], charged[s], now) /\ ~Holding(Idle, s)
      BY IdleOK, CalmVacuous
    <3> QED BY <1>0, <1>1, <1>3, <3>1, CalmStep DEF IInv
  <2> QED BY <1>0, <2>1, <2>2 DEF IInv
<1>4. CASE /\ proc[p].pc = "trialSave"
           /\ proc' = [proc EXCEPT ![p].pc = "save", ![p].copy = Expire(proc[p].copy)]
  <2> DEFINE e == Expire(proc[p].copy)
             q == [proc[p] EXCEPT !.pc = "save", !.copy = e]
  <2>0. /\ p \in Workers /\ p \notin Requests
        /\ proc[p].call \in WorkCall /\ proc[p].call.op = "ExpireTrials"
        /\ proc[p].call.id \in Subs
    BY <1>0, <1>4, WorkCallFields DEF CallOK, Procs
  <2>1. /\ SubOK(proc[p].copy, row, charged[proc[p].call.id])
        /\ proc[p].copy.Status = "active" /\ row[proc[p].call.id] # None
    BY <1>0, <1>4, <2>0 DEF CopiesOK
  <2>2. SubOK(e, row, charged[proc[p].call.id])
    BY <2>1, SubStatus DEF Expire, SubscriptionStatus
  <2> HIDE DEF e
  <2>3. proc' = [proc EXCEPT ![p] = q]
    BY <1>0, <1>4 DEF e
  <2>4. /\ q \in ProcRecord
        /\ q.pc = "save" /\ q.call = proc[p].call /\ q.copy = e /\ q.todo = proc[p].todo
    BY <1>0, <2>2 DEF ProcRecord, SubOK
  <2> HIDE DEF q
  <2>5. CallOK(q, p)
    BY <1>0, <2>0, <2>4 DEF CallOK, Busy
  <2>6. AtTrials(q) /\ AtTrials(proc[p])
    BY <1>0, <2>0, <2>4 DEF AtTrials, Busy
  <2>7. CopiesOK(q, row, charged)
    <3>1. proc[p].call.id \notin Plans
      BY <2>0, BillingAssumption
    <3>2. \A t \in q.todo : /\ row[t.id] # None
                            /\ SubOK(t.copy, row, charged[t.id])
                            /\ t.copy.Status = "trialing"
      BY <1>0, <2>4, <2>6 DEF CopiesOK
    <3>3. \A t, u \in q.todo : t.id = u.id => t = u
      BY <1>0, <2>4 DEF CopiesOK
    <3> QED BY <2>0, <2>1, <2>2, <2>4, <3>1, <3>2, <3>3 DEF CopiesOK
  <2>8. ProcsOK' /\ RowsOK'
    BY <1>0, <2>3, <2>5, <2>7, ProcStep, RowsKept DEF IInv
  <2>9. ASSUME NEW s \in Subs \ disturbed' PROVE Calm(s)'
    <3>1. CalmProc(q, s, row[s], charged[s], now)
      BY <1>1, <2>4, <2>6 DEF CalmProc, Saves
    <3>2. Holding(q, s) => Holding(proc[p], s)
      BY <1>1, <2>4 DEF Holding
    <3> QED BY <1>0, <1>1, <2>3, <3>1, <3>2, CalmStep DEF IInv
  <2> QED BY <1>0, <2>8, <2>9 DEF IInv
<1> QED BY <1>2, <1>3, <1>4 DEF SaveFails

\* A process that dies takes its copies with it.
LEMMA CrashOK ==
    ASSUME IInv, NEW p \in Procs, Crash(p) PROVE IInv'
<1>0. /\ UNCHANGED <<now, row, charged, again>>
      /\ disturbed' = disturbed \cup {s \in Subs : Holds(p, s)}
      /\ proc' = [proc EXCEPT ![p] = Idle]
      /\ HistoryOK'
  BY DEF Crash, IInv, HistoryOK
<1>1. ProcsOK' /\ RowsOK'
  BY <1>0, IdleOK, ProcStep, RowsKept DEF IInv
<1>2. ASSUME NEW s \in Subs \ disturbed' PROVE Calm(s)'
  <2>1. CalmProc(Idle, s, row[s], charged[s], now) /\ ~Holding(Idle, s)
    BY IdleOK, CalmVacuous
  <2>2. Calm(s) /\ ~Saves(proc[p], s)
    BY <1>0 DEF IInv, Holds, Saves
  <2> QED BY <1>0, <2>1, <2>2, CalmStep DEF IInv
<1> QED BY <1>0, <1>1, <1>2 DEF IInv

-----------------------------------------------------------------------------
(* The worker *)

\* The list of due subscriptions holds copies of rows.
LEMMA StartOK ==
    ASSUME IInv, NEW w \in Workers, Start(w) PROVE IInv'
<1> DEFINE L == FindDueForBilling(w)
           q == [Idle EXCEPT !.pc = "due", !.todo = L]
<1>0. /\ proc[w].pc = "idle" /\ proc[w].todo = {} /\ w \notin Requests /\ w \in Procs
      /\ proc' = [proc EXCEPT ![w] = q]
      /\ disturbed' = disturbed \cup Crowded(w, {t.id : t \in L})
      /\ UNCHANGED <<now, row, charged, again>>
  BY BillingAssumption DEF Start, IInv, ProcsOK, CallOK, Procs
<1>1. \A t \in L : /\ t.id \in Subs /\ t.copy = None
                   /\ t \in [id: Subs, copy: SubscriptionRow \cup {None}]
                   /\ t = [id |-> t.id, copy |-> None]
                   /\ row[t.id] # None /\ row[t.id].Status = "active"
                   /\ row[t.id].CurrentPeriodEnd < now
  BY DEF FindDueForBilling, Due
<1> HIDE DEF L
<1>2. q \in ProcRecord /\ q.pc = "due" /\ q.todo = L
  BY <1>1 DEF Idle, ProcRecord
<1> HIDE DEF q
<1>3. CallOK(q, w) /\ ~Busy(q) /\ ~AtTrials(q)
  BY <1>0, <1>2 DEF CallOK, Busy, AtTrials
<1>4. CopiesOK(q, row, charged)
  BY <1>1, <1>2, <1>3 DEF CopiesOK
<1>5. /\ disturbed \subseteq disturbed' /\ disturbed' \subseteq Subs
      /\ \A t \in q.todo : \/ t.id \in disturbed'
                          \/ \A o \in Procs \ {w} : ~Holding(proc[o], t.id)
  BY <1>0, <1>1, <1>2 DEF IInv, HistoryOK, Crowded, Holds, Holding, Busy
<1>6. \A t \in q.todo : row[t.id].Status = "active" /\ row[t.id].CurrentPeriodEnd < now
  BY <1>1, <1>2
<1>7. ASSUME NEW s \in Subs \ disturbed'
      PROVE  /\ CalmProc(q, s, row[s], charged[s], now)
             /\ Holding(q, s) => \A o \in Procs \ {w} : ~Holding(proc[o], s)
  BY <1>3, <1>5, <1>6 DEF CalmProc, Saves, Busy, Holding
<1>8. ProcsOK' /\ RowsOK'
  BY <1>0, <1>3, <1>4, ProcStep, RowsKept DEF IInv
<1>9. ASSUME NEW s \in Subs \ disturbed' PROVE Calm(s)'
  <2>1. Calm(s) /\ ~Saves(proc[w], s)
    BY <1>0, <1>5 DEF IInv, Saves
  <2> QED BY <1>0, <1>7, <2>1, CalmStep DEF IInv
<1> QED BY <1>0, <1>5, <1>8, <1>9 DEF IInv, HistoryOK

\* So does the list of trials.
LEMMA ListTrialsOK ==
    ASSUME IInv, NEW w \in Workers, ListTrials(w) PROVE IInv'
<1> DEFINE L == FindTrialsEnded(w)
           q == [Idle EXCEPT !.pc = IF L = {} THEN "idle" ELSE "trials", !.todo = L]
<1>0. /\ proc[w].pc \in {"idle", "due"} /\ proc[w].todo = {}
      /\ w \notin Requests /\ w \in Procs
      /\ proc' = [proc EXCEPT ![w] = q]
      /\ disturbed' = disturbed \cup Crowded(w, {t.id : t \in L})
      /\ UNCHANGED <<now, row, charged, again>>
  BY BillingAssumption DEF ListTrials, IInv, ProcsOK, CallOK, Procs
<1>1. ASSUME NEW t \in L
      PROVE  /\ t.id \in Subs /\ t.copy = row[t.id]
             /\ t = [id |-> t.id, copy |-> row[t.id]]
             /\ row[t.id] # None /\ row[t.id].Status = "trialing"
             /\ row[t.id].TrialEndsAt < now
             /\ SubOK(row[t.id], row, charged[t.id])
             /\ t \in [id: Subs, copy: SubscriptionRow \cup {None}]
  <2>1. PICK s \in Subs : TrialEnded(s) /\ t = [id |-> s, copy |-> row[s]]
    BY DEF FindTrialsEnded
  <2>2. SubOK(row[s], row, charged[s]) /\ row[s] \in SubscriptionRow
    BY <2>1 DEF TrialEnded, IInv, RowsOK, SubOK
  <2> QED BY <2>1, <2>2 DEF TrialEnded
<1> HIDE DEF L
<1>2. /\ q \in ProcRecord /\ q.todo = L
      /\ q.pc = IF L = {} THEN "idle" ELSE "trials"
  BY <1>1 DEF Idle, ProcRecord
<1> HIDE DEF q
<1>3. CallOK(q, w) /\ ~Busy(q) /\ (L # {} => AtTrials(q))
  BY <1>0, <1>2 DEF CallOK, Busy, AtTrials
<1>4. CopiesOK(q, row, charged)
  BY <1>1, <1>2, <1>3 DEF CopiesOK, Busy
<1>5. /\ disturbed \subseteq disturbed' /\ disturbed' \subseteq Subs
      /\ \A t \in q.todo : \/ t.id \in disturbed'
                          \/ \A o \in Procs \ {w} : ~Holding(proc[o], t.id)
  BY <1>0, <1>1, <1>2 DEF IInv, HistoryOK, Crowded, Holds, Holding, Busy
<1>6. \A t \in q.todo : AtTrials(q) /\ t.copy = row[t.id] /\ row[t.id].TrialEndsAt < now
  BY <1>1, <1>2, <1>3
<1>7. ASSUME NEW s \in Subs \ disturbed'
      PROVE  /\ CalmProc(q, s, row[s], charged[s], now)
             /\ Holding(q, s) => \A o \in Procs \ {w} : ~Holding(proc[o], s)
  BY <1>3, <1>5, <1>6 DEF CalmProc, Saves, Busy, Holding
<1>8. ProcsOK' /\ RowsOK'
  BY <1>0, <1>3, <1>4, ProcStep, RowsKept DEF IInv
<1>9. ASSUME NEW s \in Subs \ disturbed' PROVE Calm(s)'
  <2>1. Calm(s) /\ ~Saves(proc[w], s)
    BY <1>0, <1>5 DEF IInv, Saves
  <2> QED BY <1>0, <1>7, <2>1, CalmStep DEF IInv
<1> QED BY <1>0, <1>5, <1>8, <1>9 DEF IInv, HistoryOK

\* The worker takes one of its list and loads it again.
LEMMA ProcessDueBillingOK ==
    ASSUME IInv, NEW w \in Workers, ProcessDueBilling(w) PROVE IInv'
<1>0. /\ w \in Procs /\ w \notin Requests
      /\ UNCHANGED <<now, row, charged, again, disturbed>>
      /\ proc[w].pc = "due" /\ proc \in [Procs -> ProcRecord]
      /\ CallOK(proc[w], w) /\ CopiesOK(proc[w], row, charged)
      /\ ~AtTrials(proc[w])
  BY BillingAssumption DEF ProcessDueBilling, Procs, IInv, ProcsOK, AtTrials, Busy
<1>1. PICK t \in proc[w].todo :
          proc' = [proc EXCEPT ![w] =
                [pc |-> "apply", call |-> Call("HandleBillingCycle", t.id, None, None),
                 copy |-> row[t.id], todo |-> proc[w].todo \ {t}]]
  BY DEF ProcessDueBilling
<1> DEFINE c == Call("HandleBillingCycle", t.id, None, None)
           q == [pc |-> "apply", call |-> c, copy |-> row[t.id], todo |-> proc[w].todo \ {t}]
<1>2. t.id \in Subs /\ row[t.id] # None /\ SubOK(row[t.id], row, charged[t.id])
  BY <1>0 DEF ProcRecord, CopiesOK, IInv, RowsOK
<1>3. c \in WorkCall /\ c.op = "HandleBillingCycle" /\ c.id = t.id
  <2>1. c \in WorkCall
    BY <1>2, WorkCalls
  <2> QED BY <2>1 DEF Call
<1>4. proc' = [proc EXCEPT ![w] = q]
  BY <1>1
<1> HIDE DEF c
<1>5. /\ q \in ProcRecord
      /\ q.pc = "apply" /\ q.call = c /\ q.copy = row[t.id] /\ q.todo = proc[w].todo \ {t}
  BY <1>0, <1>2, <1>3 DEF ProcRecord, SubOK
<1> HIDE DEF q
<1>6. CallOK(q, w) /\ ~AtTrials(q) /\ Busy(q) /\ c.op \notin Creates /\ t.id \notin Plans
  BY <1>0, <1>2, <1>3, <1>5, BillingAssumption DEF CallOK, AtTrials, Busy, Creates
<1>7. CopiesOK(q, row, charged)
  BY <1>0, <1>2, <1>3, <1>5, <1>6 DEF CopiesOK
<1>8. ProcsOK' /\ RowsOK'
  BY <1>0, <1>4, <1>6, <1>7, ProcStep, RowsKept DEF IInv
<1>9. ASSUME NEW s \in Subs \ disturbed PROVE Calm(s)'
  <2>1. Calm(s) /\ ~Saves(proc[w], s) /\ CalmProc(proc[w], s, row[s], charged[s], now)
    BY <1>0 DEF IInv, Saves, Calm
  <2>2. Holding(q, s) => Holding(proc[w], s)
    BY <1>3, <1>5 DEF Holding
  <2>3. \A u \in q.todo : u.id # t.id
    BY <1>0, <1>5 DEF CopiesOK
  <2>4. CASE s = t.id
    <3>1. row[s].Status = "active" /\ row[s].CurrentPeriodEnd < now
      BY <1>0, <2>1, <2>4 DEF CalmProc
    <3>2. CalmProc(q, s, row[s], charged[s], now)
      BY <1>3, <1>5, <1>6, <2>3, <2>4, <3>1 DEF CalmProc, Saves
    <3> QED BY <1>0, <1>4, <2>1, <2>2, <3>2, CalmStep DEF IInv
  <2>5. CASE s # t.id
    <3>1. \A u \in q.todo : u.id = s => row[s].Status = "active" /\ row[s].CurrentPeriodEnd < now
      BY <1>0, <1>5, <2>1 DEF CalmProc
    <3>2. CalmProc(q, s, row[s], charged[s], now)
      BY <1>3, <1>5, <1>6, <2>5, <3>1 DEF CalmProc, Saves
    <3> QED BY <1>0, <1>4, <2>1, <2>2, <3>2, CalmStep DEF IInv
  <2> QED BY <2>4, <2>5
<1> QED BY <1>0, <1>8, <1>9 DEF IInv, HistoryOK

\* BillingCharger.Charge: an undisturbed subscription is never charged for a
\* period it was charged for before.
LEMMA ChargeOK ==
    ASSUME IInv, NEW s \in Subs, NEW copy, copy.CurrentPeriodStart \in Nat,
           NEW ok \in BOOLEAN, Charge(s, copy, ok), now' = now, disturbed' = disturbed,
           s \notin disturbed => \A x \in charged[s] : x.after < copy.CurrentPeriodStart
    PROVE  /\ HistoryOK'
           /\ \A o \in Subs : charged[o] \subseteq charged'[o]
           /\ \A o \in Subs \ {s} : charged'[o] = charged[o]
           /\ ok => ChargedAt(charged'[s], now)
           /\ \A x \in charged'[s] :
                 x \in charged[s] \/ (ok /\ x.after = copy.CurrentPeriodStart)
<1> DEFINE new == [after |-> copy.CurrentPeriodStart, at |-> now]
           ofThis == {c \in charged[s] : c.after = copy.CurrentPeriodStart}
<1>0. /\ now \in Nat /\ charged \in [Subs -> SUBSET [after: Nat, at: Nat]]
      /\ again \subseteq disturbed /\ disturbed \subseteq Subs
  BY DEF IInv, HistoryOK
<1>1. CASE ~ok
  BY <1>0, <1>1 DEF Charge, HistoryOK
<1>2. CASE ok
  <2>1. charged' = [charged EXCEPT ![s] = charged[s] \cup {new}]
    BY <1>2 DEF Charge
  <2>2. again' = IF ofThis = {} THEN again ELSE again \cup {s}
    BY <1>2 DEF Charge
  <2>3. new \in [after: Nat, at: Nat] /\ new.after = copy.CurrentPeriodStart /\ new.at = now
    BY <1>0
  <2>4. ofThis # {} => s \in disturbed
    <3>1. ASSUME s \notin disturbed, NEW c \in ofThis PROVE FALSE
      <4>1. c.after < copy.CurrentPeriodStart /\ c.after = copy.CurrentPeriodStart
        BY <3>1
      <4> QED BY <4>1
    <3> QED BY <3>1
  <2> HIDE DEF new, ofThis
  <2>5. /\ charged' \in [Subs -> SUBSET [after: Nat, at: Nat]]
        /\ charged'[s] = charged[s] \cup {new}
        /\ \A o \in Subs \ {s} : charged'[o] = charged[o]
    BY <1>0, <2>1, <2>3
  <2>6. again' \subseteq disturbed
    BY <1>0, <2>2, <2>4
  <2>7. HistoryOK'
    BY <1>0, <2>5, <2>6 DEF HistoryOK
  <2> QED BY <1>2, <2>3, <2>5, <2>7 DEF ChargedAt
<1> QED BY <1>1, <1>2

\* The process that holds s has charged it and is about to save.
LEMMA CalmCharged ==
    ASSUME ProcsOK, NEW s \in Subs, Calm(s), NEW p \in Procs, Holding(proc[p], s), NEW q,
           proc' = [proc EXCEPT ![p] = q], row' = row, now' = now, row[s] # None,
           Saves(q, s), CalmProc(q, s, row[s], charged'[s], now)
    PROVE  Calm(s)'
<1>1. /\ proc'[p] = q
      /\ \A o \in Procs \ {p} : proc'[o] = proc[o] /\ ~Holding(proc'[o], s)
  BY SoleHolder DEF ProcsOK
<1>2. \A o \in Procs : CalmProc(proc'[o], s, row[s], charged'[s], now)
  BY <1>1, CalmVacuous
<1> QED BY <1>1, <1>2 DEF Calm

\* HandleBillingCycle makes of a copy one that may be saved.
LEMMA BilledOK ==
    ASSUME RowsOK, now \in Nat, NEW copy, NEW ch, NEW ch2, SubOK(copy, row, ch),
           ch \subseteq ch2, NEW ok \in BOOLEAN, ~ok => copy.token,
           ok /\ copy.token => ChargedAt(ch2, now)
    PROVE  /\ Billed(copy, ok) # None =>
                 /\ SubOK(Billed(copy, ok), row, ch2)
                 /\ Billed(copy, ok).CurrentPeriodStart =
                       IF ok THEN now ELSE copy.CurrentPeriodStart
           /\ copy.Status = "active" => Billed(copy, ok) # None
<1>0. /\ copy \in SubscriptionRow /\ copy.PlanID \in Plans /\ row[copy.PlanID] \in Plan
      /\ None \notin SubscriptionRow
  BY InitialSubsAssumption DEF SubOK, SubscriptionRow, RowsOK
<1>1. \A x : SubOK(x, row, ch) => SubOK(x, row, ch2) /\ x # None
  BY <1>0, SubGrows DEF SubOK
<1>2. CASE ok
  <2>1. Billed(copy, ok) = Renew(copy, row[copy.PlanID], now)
    BY <1>2 DEF Billed
  <2>2. copy.Status \notin {"active", "past_due"} => Billed(copy, ok) = None
    BY <2>1 DEF Renew
  <2>3. ASSUME copy.Status \in {"active", "past_due"}
        PROVE  SubOK(Billed(copy, ok), row, ch2) /\ Billed(copy, ok).CurrentPeriodStart = now
    <3>1. copy.token => ChargedAt(ch2, now)
      BY <1>2
    <3>2. /\ SubOK(Renew(copy, row[copy.PlanID], now), row, ch2)
          /\ Renew(copy, row[copy.PlanID], now).CurrentPeriodStart = now
      BY <1>0, <2>3, <3>1, RenewOK
    <3> QED BY <2>1, <3>2
  <2> QED BY <1>0, <1>2, <2>2, <2>3 DEF SubOK
<1>3. CASE ~ok
  <2>1. Billed(copy, ok) = IF copy.Status = "past_due" THEN Expire(copy) ELSE FailPayment(copy)
    BY <1>3 DEF Billed
  <2>2. /\ Expire(copy) # None =>
              SubOK(Expire(copy), row, ch) /\ Expire(copy).CurrentPeriodStart = copy.CurrentPeriodStart
        /\ FailPayment(copy) # None =>
              /\ SubOK(FailPayment(copy), row, ch)
              /\ FailPayment(copy).CurrentPeriodStart = copy.CurrentPeriodStart
    BY <1>0, <1>3, SubMethods
  <2>3. ASSUME copy.Status = "active" PROVE FailPayment(copy) # None
    <3>1. FailPayment(copy) = [copy EXCEPT !.Status = "past_due"]
      BY <2>3 DEF FailPayment
    <3>2. [copy EXCEPT !.Status = "past_due"] \in SubscriptionRow
      BY <1>0 DEF SubscriptionRow, SubscriptionStatus
    <3> QED BY <1>0, <3>1, <3>2
  <2> QED BY <1>1, <1>3, <2>1, <2>2, <2>3
<1> QED BY <1>2, <1>3

\* HandleBillingCycle: the copy of an undisturbed subscription is the row,
\* still due, so the charge is the first of its period.
LEMMA HandleBillingCycleOK ==
    ASSUME IInv, NEW w \in Workers, HandleBillingCycle(w) PROVE IInv'
<1>0. /\ w \in Procs /\ w \notin Requests
      /\ UNCHANGED <<now, row, disturbed>>
      /\ proc[w].pc = "apply" /\ proc[w].call.op = "HandleBillingCycle"
      /\ proc \in [Procs -> ProcRecord] /\ now \in Nat
      /\ CallOK(proc[w], w) /\ CopiesOK(proc[w], row, charged)
      /\ Busy(proc[w]) /\ ~AtTrials(proc[w])
  BY BillingAssumption DEF HandleBillingCycle, Procs, IInv, ProcsOK, HistoryOK, AtTrials, Busy
<1>1. PICK c, copy : c = proc[w].call /\ copy = proc[w].copy
  OBVIOUS
<1>2. PICK ok \in BOOLEAN :
          /\ ~ok => copy.token
          /\ Charge(c.id, copy, ok /\ copy.token)
          /\ IF Billed(copy, ok) = None THEN Done(w)
             ELSE proc' = [proc EXCEPT ![w].pc = "save", ![w].copy = Billed(copy, ok)]
  BY <1>1 DEF HandleBillingCycle
<1>3. /\ c \in WorkCall /\ c.id \in Subs /\ c.id \notin Plans /\ c.op \notin Creates
      /\ row[c.id] # None
  BY <1>0, <1>1, WorkCallFields, BillingAssumption DEF CallOK, CopiesOK, Creates
<1>4. /\ SubOK(copy, row, charged[c.id])
      /\ copy.CurrentPeriodStart \in Nat /\ copy.CurrentPeriodEnd \in Nat
      /\ copy.token \in BOOLEAN /\ copy.CurrentPeriodStart < copy.CurrentPeriodEnd
  <2>1. SubOK(copy, row, charged[c.id])
    BY <1>0, <1>1, <1>3 DEF CopiesOK
  <2> QED BY <2>1 DEF SubOK, SubscriptionRow
<1>5. Holding(proc[w], c.id) /\ \A s : ~Saves(proc[w], s)
  BY <1>0, <1>1 DEF Holding, Saves
<1>6. ASSUME c.id \notin disturbed
      PROVE  /\ Calm(c.id) /\ copy = row[c.id] /\ copy.Status = "active"
             /\ copy.CurrentPeriodEnd < now
             /\ \A x \in charged[c.id] : x.after < copy.CurrentPeriodStart
             /\ \A u \in proc[w].todo : u.id # c.id
  <2>1. Calm(c.id) /\ CalmProc(proc[w], c.id, row[c.id], charged[c.id], now)
    BY <1>0, <1>3, <1>6 DEF IInv, Calm
  <2>2. \A x \in charged[c.id] : x.after < row[c.id].CurrentPeriodStart
    BY <1>0, <1>5, <2>1, SoleHolder
  <2> QED BY <1>0, <1>1, <1>3, <2>1, <2>2 DEF CalmProc
<1>7. /\ HistoryOK'
      /\ \A o \in Subs : charged[o] \subseteq charged'[o]
      /\ \A o \in Subs \ {c.id} : charged'[o] = charged[o]
      /\ ok /\ copy.token => ChargedAt(charged'[c.id], now)
      /\ \A x \in charged'[c.id] :
            x \in charged[c.id] \/ (ok /\ x.after = copy.CurrentPeriodStart)
  <2>1. PICK k \in BOOLEAN : k = (ok /\ copy.token)
    BY <1>4
  <2>2. Charge(c.id, copy, k)
    BY <1>2, <2>1
  <2> QED BY <1>0, <1>3, <1>4, <1>6, <2>1, <2>2, ChargeOK
<1>8. PICK b : b = Billed(copy, ok)
  OBVIOUS
<1>9. /\ b # None => /\ SubOK(b, row, charged'[c.id])
                     /\ b.CurrentPeriodStart = IF ok THEN now ELSE copy.CurrentPeriodStart
      /\ copy.Status = "active" => b # None
  BY <1>0, <1>2, <1>3, <1>4, <1>7, <1>8, BilledOK DEF IInv
<1>10. CASE b = None
  <2>1. c.id \in disturbed /\ Done(w)
    BY <1>2, <1>6, <1>8, <1>9, <1>10
  <2>2. PICK q : /\ proc' = [proc EXCEPT ![w] = q]
                 /\ CallOK(q, w) /\ CopiesOK(q, row, charged)
                 /\ ~Busy(q) /\ q.todo \subseteq proc[w].todo
                 /\ q.todo # {} => (AtTrials(q) <=> AtTrials(proc[w]))
    BY <1>0, <2>1, DoneOK DEF IInv
  <2>3. CopiesOK(q, row, charged')
    BY <1>0, <1>7, <2>2, CopiesGrow
  <2>4. ProcsOK' /\ RowsOK'
    BY <1>0, <1>7, <2>2, <2>3, ProcStep, RowsKept DEF IInv
  <2>5. ASSUME NEW s \in Subs \ disturbed PROVE Calm(s)'
    <3>1. /\ Calm(s) /\ CalmProc(proc[w], s, row[s], charged[s], now)
          /\ charged'[s] = charged[s]
      BY <1>0, <1>7, <2>1 DEF IInv, Calm
    <3>2. CalmProc(q, s, row[s], charged[s], now) /\ (Holding(q, s) => Holding(proc[w], s))
      BY <2>2, <3>1, CalmFewer
    <3> QED BY <1>0, <1>5, <2>2, <3>1, <3>2, CalmStep DEF IInv
  <2> QED BY <1>0, <1>7, <2>4, <2>5 DEF IInv
<1>11. CASE b # None
  <2> DEFINE q == [proc[w] EXCEPT !.pc = "save", !.copy = b]
  <2>1. proc' = [proc EXCEPT ![w] = q]
    BY <1>0, <1>2, <1>8, <1>11
  <2>2. /\ q \in ProcRecord
        /\ q.pc = "save" /\ q.call = c /\ q.copy = b /\ q.todo = proc[w].todo
    BY <1>0, <1>1, <1>9, <1>11 DEF ProcRecord, SubOK
  <2> HIDE DEF q
  <2>3. CallOK(q, w) /\ Busy(q) /\ ~AtTrials(q)
    BY <1>0, <1>1, <2>2 DEF CallOK, Busy, AtTrials
  <2>4. CopiesOK(q, row, charged')
    <3>1. \A t \in q.todo : row[t.id] # None
      BY <1>0, <2>2 DEF CopiesOK
    <3>2. \A t, u \in q.todo : t.id = u.id => t = u
      BY <1>0, <2>2 DEF CopiesOK
    <3> QED BY <1>3, <1>9, <1>11, <2>2, <2>3, <3>1, <3>2 DEF CopiesOK
  <2>5. ProcsOK' /\ RowsOK'
    BY <1>0, <1>7, <2>1, <2>3, <2>4, ProcStep, RowsKept DEF IInv
  <2>6. ASSUME NEW s \in Subs \ disturbed PROVE Calm(s)'
    <3>1. Calm(s) /\ CalmProc(proc[w], s, row[s], charged[s], now)
      BY <1>0 DEF IInv, Calm
    <3>2. CASE s = c.id
      <4>1. \A x \in charged'[s] : x.after < b.CurrentPeriodStart
        <5>1. ASSUME NEW x \in charged'[s] PROVE x.after < b.CurrentPeriodStart
          <6>1. copy.CurrentPeriodStart < now
            BY <1>0, <1>4, <1>6, <3>2
          <6>2. CASE x \in charged[s]
            <7>1. x.after \in Nat
              BY <6>2 DEF IInv, HistoryOK
            <7>2. x.after < copy.CurrentPeriodStart
              BY <1>6, <3>2, <6>2
            <7> QED BY <1>0, <1>4, <1>9, <1>11, <6>1, <7>1, <7>2
          <6>3. CASE ok /\ x.after = copy.CurrentPeriodStart
            BY <1>9, <1>11, <6>1, <6>3
          <6> QED BY <1>7, <3>2, <6>2, <6>3
        <5> QED BY <5>1
      <4>2. row[s].Status = "active" /\ "active" \notin Ended
        BY <1>6, <3>2 DEF Ended
      <4>3. CalmProc(q, s, row[s], charged'[s], now)
        BY <1>3, <1>6, <2>2, <3>2, <4>1, <4>2 DEF CalmProc
      <4>4. Saves(q, s)
        BY <2>2, <3>2 DEF Saves
      <4> QED BY <1>0, <1>3, <1>5, <2>1, <3>1, <3>2, <4>3, <4>4, CalmCharged DEF IInv
    <3>3. CASE s # c.id
      <4>1. CalmProc(q, s, row[s], charged[s], now)
        BY <1>0, <2>2, <2>3, <3>1, <3>3 DEF CalmProc, Saves
      <4>2. Holding(q, s) => Holding(proc[w], s)
        BY <2>2, <3>3 DEF Holding
      <4>3. charged'[s] = charged[s]
        BY <1>7, <3>3
      <4> QED BY <1>0, <1>5, <2>1, <3>1, <4>1, <4>2, <4>3, CalmStep DEF IInv
    <3> QED BY <3>2, <3>3
  <2> QED BY <1>0, <1>7, <2>5, <2>6 DEF IInv
<1> QED BY <1>10, <1>11

\* ExpireTrials: the copy listed for an undisturbed trial is still the row,
\* and the trial's period begins before now, so what it is charged is new.
LEMMA ExpireTrialsOK ==
    ASSUME IInv, NEW w \in Workers, ExpireTrials(w) PROVE IInv'
<1>0. /\ w \in Procs /\ w \notin Requests
      /\ UNCHANGED <<now, row, disturbed>>
      /\ proc[w].pc = "trials"
      /\ proc \in [Procs -> ProcRecord] /\ now \in Nat
      /\ CallOK(proc[w], w) /\ CopiesOK(proc[w], row, charged)
      /\ ~Busy(proc[w]) /\ AtTrials(proc[w])
  BY BillingAssumption DEF ExpireTrials, Procs, IInv, ProcsOK, HistoryOK, AtTrials, Busy
<1>1. PICK t \in proc[w].todo, ok \in BOOLEAN :
          /\ ok => t.copy.token
          /\ Charge(t.id, t.copy, ok)
          /\ proc' = [proc EXCEPT ![w] =
                [pc |-> IF ok THEN "trialSave" ELSE "save",
                 call |-> Call("ExpireTrials", t.id, None, None),
                 copy |-> IF ok THEN Renew(Activate(t.copy), row[t.copy.PlanID], now)
                          ELSE Expire(t.copy),
                 todo |-> proc[w].todo \ {t}]]
  BY DEF ExpireTrials
<1>2. /\ t.id \in Subs /\ t.id \notin Plans /\ row[t.id] # None
      /\ SubOK(t.copy, row, charged[t.id]) /\ t.copy.Status = "trialing"
  BY <1>0, BillingAssumption DEF ProcRecord, CopiesOK
<1>3. /\ t.copy.CurrentPeriodStart \in Nat /\ t.copy.PlanID \in Plans
      /\ t.copy.TrialEndsAt \in Nat /\ t.copy.CurrentPeriodStart <= t.copy.TrialEndsAt
      /\ row[t.copy.PlanID] \in Plan
  BY <1>2 DEF SubOK, SubscriptionRow, IInv, RowsOK
<1>4. Holding(proc[w], t.id) /\ \A s : ~Saves(proc[w], s)
  BY <1>0 DEF Holding, Saves
<1>5. ASSUME t.id \notin disturbed
      PROVE  /\ Calm(t.id) /\ row[t.id] = t.copy /\ t.copy.TrialEndsAt < now
             /\ \A x \in charged[t.id] : x.after < t.copy.CurrentPeriodStart
  <2>1. Calm(t.id) /\ CalmProc(proc[w], t.id, row[t.id], charged[t.id], now)
    BY <1>0, <1>2, <1>5 DEF IInv, Calm
  <2>2. \A x \in charged[t.id] : x.after < row[t.id].CurrentPeriodStart
    BY <1>0, <1>4, <2>1, SoleHolder
  <2> QED BY <1>0, <2>1, <2>2 DEF CalmProc
<1>6. /\ HistoryOK'
      /\ \A o \in Subs : charged[o] \subseteq charged'[o]
      /\ \A o \in Subs \ {t.id} : charged'[o] = charged[o]
      /\ ok => ChargedAt(charged'[t.id], now)
      /\ \A x \in charged'[t.id] :
            x \in charged[t.id] \/ (ok /\ x.after = t.copy.CurrentPeriodStart)
  BY <1>0, <1>1, <1>2, <1>3, <1>5, ChargeOK
<1>7. PICK b : b = IF ok THEN Renew(Activate(t.copy), row[t.copy.PlanID], now)
                   ELSE Expire(t.copy)
  OBVIOUS
<1>8. /\ SubOK(b, row, charged'[t.id])
      /\ b.CurrentPeriodStart = IF ok THEN now ELSE t.copy.CurrentPeriodStart
      /\ ok => b.Status = "active"
  <2>1. CASE ok
    <3>1. PICK a : a = Activate(t.copy)
      OBVIOUS
    <3>2. SubOK(a, row, charged[t.id]) /\ a.Status = "active" /\ a.PlanID = t.copy.PlanID
      BY <1>2, <3>1, SubStatus DEF Activate, SubscriptionStatus
    <3>3. a.token => ChargedAt(charged'[t.id], now)
      BY <1>6, <2>1
    <3>4. charged[t.id] \subseteq charged'[t.id] /\ row[a.PlanID] \in Plan
      BY <1>2, <1>3, <1>6, <3>2
    <3>5. /\ SubOK(Renew(a, row[a.PlanID], now), row, charged'[t.id])
          /\ Renew(a, row[a.PlanID], now).CurrentPeriodStart = now
          /\ Renew(a, row[a.PlanID], now).Status = a.Status
      BY <1>0, <3>2, <3>3, <3>4, RenewOK
    <3> QED BY <1>7, <2>1, <3>1, <3>2, <3>5
  <2>2. CASE ~ok
    <3>1. b = [t.copy EXCEPT !.Status = "expired"]
      BY <1>2, <1>7, <2>2 DEF Expire
    <3>2. SubOK(b, row, charged[t.id]) /\ b.CurrentPeriodStart = t.copy.CurrentPeriodStart
      BY <1>2, <3>1, SubStatus DEF SubscriptionStatus
    <3>3. SubOK(b, row, charged'[t.id])
      BY <1>2, <1>6, <3>2, SubGrows
    <3> QED BY <2>2, <3>2, <3>3
  <2> QED BY <2>1, <2>2
<1>9. PICK c : c = Call("ExpireTrials", t.id, None, None)
  OBVIOUS
<1>10. c \in WorkCall /\ c.op = "ExpireTrials" /\ c.id = t.id /\ c.op \notin Creates
  <2>1. c \in WorkCall
    BY <1>2, <1>9, WorkCalls
  <2> QED BY <1>9, <2>1 DEF Call, Creates
<1>11. PICK q : q = [pc |-> IF ok THEN "trialSave" ELSE "save", call |-> c, copy |-> b,
                     todo |-> proc[w].todo \ {t}]
  OBVIOUS
<1>12. proc' = [proc EXCEPT ![w] = q]
  BY <1>1, <1>7, <1>9, <1>11
<1>13. /\ q \in ProcRecord
       /\ q.pc = IF ok THEN "trialSave" ELSE "save"
       /\ q.call = c /\ q.copy = b /\ q.todo = proc[w].todo \ {t}
  BY <1>0, <1>8, <1>10, <1>11 DEF ProcRecord, SubOK
<1>14. CallOK(q, w) /\ Busy(q) /\ AtTrials(q)
  BY <1>0, <1>10, <1>13 DEF CallOK, Busy, AtTrials
<1>15. \A u \in q.todo : u \in proc[w].todo /\ u.id # t.id
  BY <1>0, <1>13 DEF CopiesOK
<1>16. CopiesOK(q, row, charged')
  <2>1. ASSUME NEW u \in q.todo
        PROVE  /\ row[u.id] # None
               /\ SubOK(u.copy, row, charged'[u.id]) /\ u.copy.Status = "trialing"
    <3>1. /\ row[u.id] # None /\ u.id \in Subs
          /\ SubOK(u.copy, row, charged[u.id]) /\ u.copy.Status = "trialing"
      BY <1>0, <1>15 DEF CopiesOK, ProcRecord
    <3> QED BY <1>6, <3>1, SubGrows
  <2>2. \A u, v \in q.todo : u.id = v.id => u = v
    BY <1>0, <1>15 DEF CopiesOK
  <2> QED BY <1>2, <1>8, <1>10, <1>13, <2>1, <2>2 DEF CopiesOK
<1>17. ProcsOK' /\ RowsOK'
  BY <1>0, <1>6, <1>12, <1>14, <1>16, ProcStep, RowsKept DEF IInv
<1>18. ASSUME NEW s \in Subs \ disturbed PROVE Calm(s)'
  <2>1. Calm(s) /\ CalmProc(proc[w], s, row[s], charged[s], now)
    BY <1>0 DEF IInv, Calm
  <2>2. CASE s = t.id
    <3>1. \A x \in charged'[s] : x.after < b.CurrentPeriodStart
      <4>1. ASSUME NEW x \in charged'[s] PROVE x.after < b.CurrentPeriodStart
        <5>1. t.copy.CurrentPeriodStart < now
          BY <1>0, <1>3, <1>5, <2>2
        <5>2. CASE x \in charged[s]
          <6>1. x.after \in Nat
            BY <5>2 DEF IInv, HistoryOK
          <6>2. x.after < t.copy.CurrentPeriodStart
            BY <1>5, <2>2, <5>2
          <6> QED BY <1>0, <1>3, <1>8, <5>1, <6>1, <6>2
        <5>3. CASE ok /\ x.after = t.copy.CurrentPeriodStart
          BY <1>8, <5>1, <5>3
        <5> QED BY <1>6, <2>2, <5>2, <5>3
      <4> QED BY <4>1
    <3>2. row[s].Status = "trialing" /\ "trialing" \notin Ended
      BY <1>2, <1>5, <2>2 DEF Ended
    <3>3. CalmProc(q, s, row[s], charged'[s], now)
      BY <1>10, <1>13, <1>15, <2>2, <3>1, <3>2 DEF CalmProc
    <3>4. Saves(q, s)
      BY <1>10, <1>13, <2>2 DEF Saves
    <3> QED BY <1>0, <1>2, <1>4, <1>12, <2>1, <2>2, <3>3, <3>4, CalmCharged DEF IInv
  <2>3. CASE s # t.id
    <3>1. CalmProc(q, s, row[s], charged[s], now)
      BY <1>0, <1>10, <1>13, <1>14, <1>15, <2>1, <2>3 DEF CalmProc, Saves
    <3>2. Holding(q, s) => Holding(proc[w], s)
      BY <1>10, <1>13, <1>15, <2>3 DEF Holding
    <3>3. charged'[s] = charged[s]
      BY <1>6, <2>3
    <3> QED BY <1>0, <1>4, <1>12, <2>1, <3>1, <3>2, <3>3, CalmStep DEF IInv
  <2> QED BY <2>2, <2>3
<1> QED BY <1>0, <1>6, <1>17, <1>18 DEF IInv

-----------------------------------------------------------------------------
(* The inductive invariant *)

\* The rows there are at first are sound, nobody is at them, none is charged.
LEMMA InitOK ==
    ASSUME Init PROVE IInv
<1>1. PICK subs \in [Subs -> InitialSubs] :
          row = [x \in Subs \cup Plans |-> IF x \in Plans THEN InitialPlans[x] ELSE subs[x]]
  BY DEF Init
<1>2. /\ now = 0 /\ proc = [p \in Procs |-> Idle] /\ charged = [s \in Subs |-> {}]
      /\ again = {} /\ disturbed = {}
  BY DEF Init
<1>3. /\ \A p \in Plans : row[p] = InitialPlans[p] /\ row[p] \in Plan \cup {None}
      /\ \A s \in Subs : row[s] \in InitialSubs
  BY <1>1, BillingAssumption
<1>4. ASSUME NEW s \in Subs, row[s] # None PROVE SubOK(row[s], row, charged[s])
  <2>1. PICK r : r = row[s]
    OBVIOUS
  <2>2. r \in InitialSubs \ {None}
    BY <1>3, <1>4, <2>1
  <2>3. r \in SubscriptionRow /\ r.PlanID \in Plans
    BY <2>2, InitialSubsAssumption DEF SubscriptionRow
  <2>4. SubOK(r, row, charged[s])
    BY <1>3, <2>2, <2>3, InitialSubsAssumption DEF SubOK
  <2> QED BY <2>1, <2>4
<1>5. RowsOK
  <2>1. \A s \in Subs : row[s] \in SubscriptionRow \cup {None}
    BY <1>4 DEF SubOK
  <2>2. row \in [Subs \cup Plans -> SubscriptionRow \cup Plan \cup {None}]
    BY <1>1, <1>3, <2>1
  <2> QED BY <1>3, <1>4, <2>2 DEF RowsOK
<1>6. ProcsOK
  BY <1>2, IdleOK DEF ProcsOK
<1>7. HistoryOK
  BY <1>2 DEF HistoryOK
<1>8. ASSUME NEW s \in Subs PROVE Calm(s)
  <2>1. \A p \in Procs : ~Holding(proc[p], s)
    BY <1>2, IdleOK
  <2>2. \A p \in Procs : CalmProc(proc[p], s, row[s], charged[s], now)
    BY <2>1, CalmVacuous
  <2>3. charged[s] = {}
    BY <1>2
  <2> QED BY <2>1, <2>2, <2>3 DEF Calm
<1> QED BY <1>5, <1>6, <1>7, <1>8 DEF IInv

\* Every step keeps the invariant.
LEMMA NextOK ==
    ASSUME IInv, [Next]_vars PROVE IInv'
<1>1. CASE Tick
  BY <1>1, TickOK
<1>2. ASSUME NEW r \in Requests, Arrive(r) \/ Load(r) \/ Apply(r) \/ Save(r) PROVE IInv'
  BY <1>2, ArriveOK, LoadOK, ApplyOK, SaveOK DEF Procs
<1>3. ASSUME NEW w \in Workers, Work(w) PROVE IInv'
  BY <1>3, StartOK, ProcessDueBillingOK, HandleBillingCycleOK, ListTrialsOK,
     ExpireTrialsOK, SaveOK DEF Work, Procs
<1>4. ASSUME NEW p \in Procs, SaveFails(p) \/ Crash(p) PROVE IInv'
  BY <1>4, SaveFailsOK, CrashOK
<1>5. CASE UNCHANGED vars
  BY <1>5 DEF vars, IInv, RowsOK, ProcsOK, HistoryOK, Calm
<1> QED BY <1>1, <1>2, <1>3, <1>4, <1>5 DEF Next

\* The invariant of every reachable state.
LEMMA Inductive == Spec => []IInv
BY InitOK, NextOK, PTL DEF Spec

-----------------------------------------------------------------------------
(* What it gives *)

\* Every copy that may be saved to s is sound.
LEMMA CopySound ==
    ASSUME IInv, NEW s \in Subs, NEW c \in Copies(s) \ {None}
    PROVE  SubOK(c, row, charged[s])
<1>1. CASE c = row[s]
  BY <1>1 DEF IInv, RowsOK
<1>2. ASSUME NEW p \in Procs, Busy(proc[p]), proc[p].call.id = s, c = proc[p].copy
      PROVE  SubOK(c, row, charged[s])
  <2>1. CopiesOK(proc[p], row, charged)
    BY DEF IInv, ProcsOK
  <2>2. ~(proc[p].pc = "apply" /\ proc[p].call.op \in Creates)
    BY <1>2, <2>1 DEF CopiesOK
  <2> QED BY <1>2, <2>1, <2>2 DEF CopiesOK
<1> QED BY <1>1, <1>2 DEF Copies, Busy

\* No aggregate method's error is ever saved, and what the rows and the
\* copies on their way to them hold is whole.
THEOREM TypeCorrect == Spec => []TypeOK
<1>1. ASSUME IInv PROVE TypeOK
  <2>1. \A s \in Subs : row[s] \in SubscriptionRow \cup {None}
    BY <1>1 DEF IInv, RowsOK, SubOK
  <2>2. ASSUME NEW p \in Procs, proc[p].pc = "save", proc[p].call.id \in Subs
        PROVE  proc[p].copy \in SubscriptionRow
    <3>1. CopiesOK(proc[p], row, charged)
      BY <1>1 DEF IInv, ProcsOK
    <3> QED BY <2>2, <3>1 DEF CopiesOK, Busy, SubOK
  <2> QED BY <1>1, <2>1, <2>2 DEF TypeOK, IInv, RowsOK, HistoryOK
<1> QED BY <1>1, Inductive, PTL

\* HandleBillingCycle, ExpireTrials: a subscription with a token is in a
\* later period than its first only if it was charged when that began.
THEOREM RenewalsWereCharged == Spec => []RenewedWasCharged
<1>1. ASSUME IInv PROVE RenewedWasCharged
  BY <1>1, CopySound DEF RenewedWasCharged, SubOK, ChargedAt
<1> QED BY <1>1, Inductive, PTL

\* ProcessDueBilling: one charge a period, unless two processes met at the
\* subscription, a save failed or a server died.
THEOREM ChargedOncePerPeriod == Spec => []OneChargePerPeriod
<1>1. ASSUME IInv PROVE OneChargePerPeriod
  BY <1>1 DEF IInv, HistoryOK, OneChargePerPeriod
<1> QED BY <1>1, Inductive, PTL

\* Cancel, Expire: what has ended is brought back only by a process that
\* was at it while another was.
THEOREM EndIsFinal == Spec => EndedStaysEnded
<1> DEFINE Kept == \A s \in Subs \ disturbed :
              row[s] # None /\ row[s].Status \in Ended => row'[s].Status = row[s].Status
<1>1. ASSUME IInv, [Next]_vars PROVE Kept
  <2>1. CASE row' = row
    BY <2>1
  <2>2. ASSUME NEW p \in Procs, Save(p) PROVE Kept
    <3>1. ASSUME NEW s \in Subs \ disturbed, row[s] # None, row[s].Status \in Ended
          PROVE  row'[s] = row[s]
      <4>1. CalmProc(proc[p], s, row[s], charged[s], now)
        BY <1>1 DEF IInv, Calm
      <4>2. proc[p].call.id # s
        BY <2>2, <3>1, <4>1 DEF CalmProc, Saves, Save
      <4> QED BY <1>1, <2>2, <4>2 DEF Save, IInv, RowsOK
    <3> QED BY <3>1
  <2>3. row' = row \/ \E p \in Procs : Save(p)
    BY <1>1 DEF Next, Tick, Arrive, Load, Apply, Work, Start, ProcessDueBilling,
       HandleBillingCycle, ListTrials, ExpireTrials, SaveFails, Crash, vars, Procs
  <2> QED BY <2>1, <2>2, <2>3
<1>2. EndedStaysEnded <=> [][Kept]_vars
  BY DEF EndedStaysEnded
<1>3. IInv /\ [Next]_vars => [Kept]_vars
  BY <1>1
<1> HIDE DEF Kept
<1> QED BY <1>2, <1>3, Inductive, PTL DEF Spec

=============================================================================
