------------------------------- MODULE Billing -------------------------------
(***************************************************************************)
(* Subscriptions and their billing: the subscription service, the two      *)
(* tables behind it, the REST and MCP handlers that call it, and the       *)
(* worker every replica of the server runs once a minute                   *)
(* (application/subscription/billing.go).                                  *)
(*                                                                         *)
(* Every operation loads a row, changes the copy and saves the whole copy  *)
(* (ON CONFLICT DO UPDATE SET every column, no version): three steps, and  *)
(* any other process may take its own between them.  Events are published  *)
(* after the save and read by nothing here, so they are left out.          *)
(***************************************************************************)
EXTENDS Subscription, FiniteSets

CONSTANTS
    Subs, Plans, Users,
    Workers,      \* billing workers, one per replica
    Requests,     \* request handlers
    Intervals, Trials, \* lengths of a plan's period and trial
    InitialPlans, \* the plans there are at first
    InitialSubs,  \* rows a subscription may have at first, None included
    MaxTime,      \* bound on the clock
    MaxRequests,  \* bound: requests that arrive
    MaxFaults     \* bound: failed saves and crashes

ASSUME BillingAssumption ==
    /\ None \notin Subs \cup Plans \cup Users \cup Nat
    /\ Subs \cap Plans = {}
    /\ Workers \cap Requests = {}
    /\ Intervals \subseteq Nat \ {0}
    /\ Trials \subseteq Nat
    /\ InitialPlans \in [Plans -> Plan \cup {None}]
    /\ MaxTime \in Nat /\ MaxRequests \in Nat /\ MaxFaults \in Nat

SubscriptionRow ==
    [UserID: Users, PlanID: Plans, CreatedAt: Nat, Status: SubscriptionStatus,
     CurrentPeriodStart: Nat, CurrentPeriodEnd: Nat,
     TrialEndsAt: Nat \cup {None}, token: BOOLEAN]

\* The rows there are at first are in their first period, as SubscribeWithToken
\* and ActivateSubscription leave them.
ASSUME InitialSubsAssumption ==
    /\ None \notin SubscriptionRow \cup Plan
    /\ \A s \in InitialSubs \ {None} :
          /\ s \in SubscriptionRow
          /\ InitialPlans[s.PlanID] # None
          /\ s.Status \in {"pending", "trialing", "active"}
          /\ s.CurrentPeriodStart = s.CreatedAt
          /\ s.CurrentPeriodStart < s.CurrentPeriodEnd
          /\ s.Status = "trialing" =>
                s.TrialEndsAt # None /\ s.CurrentPeriodStart <= s.TrialEndsAt

VARIABLES
    now,       \* the clock
    row,       \* the rows of plans and subscriptions, None before the insert
    proc,      \* what each worker and each handler is doing
    charged,   \* successful charges of each subscription (history)
    again,     \* subscriptions charged twice for one period (history)
    disturbed, \* subscriptions two processes were at once at, or whose save failed
    arrived,   \* requests so far
    faults     \* failed saves and crashes so far

vars == <<now, row, proc, charged, again, disturbed, arrived, faults>>

Procs == Workers \cup Requests

-----------------------------------------------------------------------------
(* What the interfaces ask of the service *)

\* user: whom a REST handler compares with the owner, None where it does not.
Call(op, id, user, arg) == [op |-> op, id |-> id, user |-> user, arg |-> arg]

Owned(op, args) == {Call(op, s, u, a) : s \in Subs, u \in Users, a \in args}

Unowned(op, args) == {Call(op, s, None, a) : s \in Subs, a \in args}

\* The client names plan and token; the id is fresh.
Subscriptions == [user: Users, plan: Plans, token: BOOLEAN]

RestCreatePlan ==
    {Call("CreatePlan", p, None, [interval |-> i, trial |-> t]) :
        p \in Plans, i \in Intervals, t \in Trials}

RestUpdatePlan ==
    {Call("UpdatePlan", p, None, [interval |-> i, trial |-> t]) :
        p \in Plans, i \in Intervals \cup {0}, t \in Trials}

RestActivatePlan == {Call("ActivatePlan", p, None, None) : p \in Plans}

\* Reached by no interface.
ServiceDeactivatePlan == {Call("DeactivatePlan", p, None, None) : p \in Plans}

RestSubscribe == Unowned("Subscribe", Subscriptions)
McpSubscribe == Unowned("Subscribe", Subscriptions)

RestAttachPaymentToken == Owned("AttachPaymentToken", {None})
RestActivateSubscription == Owned("Activate", {None})
RestCancelSubscription == Owned("Cancel", {None})
RestChangePlan == Owned("ChangePlan", Plans)

\* The tools take a user_id and compare it with nothing.
McpAttachPaymentToken == Unowned("AttachPaymentToken", {None})
McpActivateSubscription == Unowned("Activate", {None})
McpCancelSubscription == Unowned("Cancel", {None})
McpChangePlan == Unowned("ChangePlan", Plans)

Routes ==
    RestCreatePlan \cup RestUpdatePlan \cup RestActivatePlan
    \cup ServiceDeactivatePlan \cup RestSubscribe \cup RestAttachPaymentToken
    \cup RestActivateSubscription \cup RestCancelSubscription \cup RestChangePlan

McpTools ==
    McpSubscribe \cup McpAttachPaymentToken \cup McpActivateSubscription
    \cup McpCancelSubscription \cup McpChangePlan

Creates == {"CreatePlan", "Subscribe"}

-----------------------------------------------------------------------------
(* The service methods between the load and the save *)

SvcCreatePlan(arg) == NewPlan(arg.interval, arg.trial)

SvcUpdatePlan(p, arg) == Update(p, arg.interval, arg.trial)

SvcActivatePlan(p) == ActivatePlan(p)

SvcDeactivatePlan(p) == Deactivate(p)

SvcSubscribeWithToken(arg) ==
    LET s == NewSubscription(arg.user, arg.plan, row[arg.plan], now)
    IN  IF s # None /\ arg.token THEN AttachPaymentToken(s) ELSE s

SvcAttachPaymentToken(s) == AttachPaymentToken(s)

SvcActivateSubscription(s) == Activate(s)

SvcCancelSubscription(s) == Cancel(s)

SvcChangePlan(s, planID) == ChangePlan(s, planID, row[planID])

Method(c, copy) ==
    CASE c.op = "CreatePlan" -> SvcCreatePlan(c.arg)
      [] c.op = "UpdatePlan" -> SvcUpdatePlan(copy, c.arg)
      [] c.op = "ActivatePlan" -> SvcActivatePlan(copy)
      [] c.op = "DeactivatePlan" -> SvcDeactivatePlan(copy)
      [] c.op = "Subscribe" -> SvcSubscribeWithToken(c.arg)
      [] c.op = "AttachPaymentToken" -> SvcAttachPaymentToken(copy)
      [] c.op = "Activate" -> SvcActivateSubscription(copy)
      [] c.op = "Cancel" -> SvcCancelSubscription(copy)
      [] c.op = "ChangePlan" -> SvcChangePlan(copy, c.arg)

-----------------------------------------------------------------------------
(* Processes *)

\* todo: what the worker has listed, the trials with the copies it listed.
Idle == [pc |-> "idle", call |-> None, copy |-> None, todo |-> {}]

Init ==
    /\ now = 0
    /\ \E subs \in [Subs -> InitialSubs] :
          row = [x \in Subs \cup Plans |-> IF x \in Plans THEN InitialPlans[x] ELSE subs[x]]
    /\ proc = [p \in Procs |-> Idle]
    /\ charged = [s \in Subs |-> {}]
    /\ again = {}
    /\ disturbed = {}
    /\ arrived = 0
    /\ faults = 0

Tick ==
    /\ now < MaxTime
    /\ now' = now + 1
    /\ UNCHANGED <<row, proc, charged, again, disturbed, arrived, faults>>

\* Snowflake ids are fresh.
InUse == {proc[q].call.id : q \in {x \in Requests : proc[x].pc # "idle"}}

Arrive(r) ==
    /\ proc[r].pc = "idle"
    /\ arrived < MaxRequests
    /\ \E c \in Routes \cup McpTools :
          /\ c.op \in Creates <=> row[c.id] = None
          /\ c.op \in Creates => c.id \notin InUse
          /\ proc' = [proc EXCEPT ![r] =
                [Idle EXCEPT !.pc = IF c.op \in Creates THEN "apply" ELSE "load",
                             !.call = c]]
    /\ arrived' = arrived + 1
    /\ UNCHANGED <<now, row, charged, again, disturbed, faults>>

\* p has a copy of s, or is about to bill it.
Holds(p, s) ==
    \/ proc[p].pc \in {"apply", "trialSave", "save"} /\ proc[p].call.id = s
    \/ \E t \in proc[p].todo : t.id = s

Crowded(p, ids) ==
    {s \in ids \cap Subs : \E q \in Procs \ {p} : Holds(q, s)}

\* The call is over: a handler answers, the worker takes the next entry.
Done(p) ==
    proc' = [proc EXCEPT ![p] =
        IF p \in Requests THEN Idle
        ELSE IF proc[p].call.op = "ExpireTrials" /\ proc[p].todo = {} THEN Idle
        ELSE [Idle EXCEPT !.pc = IF proc[p].call.op = "ExpireTrials" THEN "trials" ELSE "due",
                          !.todo = proc[p].todo]]

\* FindByID; the REST handlers have compared the owner, which never changes.
Load(p) ==
    LET c == proc[p].call
    IN  /\ proc[p].pc = "load"
        /\ IF c.user # None /\ row[c.id].UserID # c.user
           THEN Done(p) /\ UNCHANGED disturbed
           ELSE /\ proc' = [proc EXCEPT ![p].pc = "apply", ![p].copy = row[c.id]]
                /\ disturbed' = disturbed \cup Crowded(p, {c.id})
        /\ UNCHANGED <<now, row, charged, again, arrived, faults>>

\* Mutation: the method's error is not looked at.
ApplyUnchecked(p) ==
    /\ p \in Requests
    /\ proc[p].pc = "apply"
    /\ proc' = [proc EXCEPT ![p].pc = "save", ![p].copy = Method(proc[p].call, proc[p].copy)]
    /\ UNCHANGED <<now, row, charged, again, disturbed, arrived, faults>>

Apply(p) ==
    /\ p \in Requests
    /\ proc[p].pc = "apply"
    /\ LET copy == Method(proc[p].call, proc[p].copy)
       IN  IF copy = None THEN Done(p)
           ELSE proc' = [proc EXCEPT ![p].pc = "save", ![p].copy = copy]
    /\ UNCHANGED <<now, row, charged, again, disturbed, arrived, faults>>

Save(p) ==
    /\ proc[p].pc \in {"save", "trialSave"}
    /\ row' = [row EXCEPT ![proc[p].call.id] = proc[p].copy]
    /\ Done(p)
    /\ UNCHANGED <<now, charged, again, disturbed, arrived, faults>>

Fault == faults < MaxFaults /\ faults' = faults + 1

\* The save of an activated trial that fails expires the trial instead; the
\* save of an expired one that fails ends the whole run.
SaveFails(p) ==
    /\ proc[p].pc \in {"save", "trialSave"}
    /\ Fault
    /\ disturbed' = disturbed \cup ({proc[p].call.id} \cap Subs)
    /\ \/ /\ proc[p].pc = "trialSave"
          /\ proc' = [proc EXCEPT ![p].pc = "save", ![p].copy = Expire(proc[p].copy)]
       \/ /\ proc[p].pc = "save"
          /\ IF proc[p].call.op = "ExpireTrials" THEN proc' = [proc EXCEPT ![p] = Idle]
             ELSE Done(p)
    /\ UNCHANGED <<now, row, charged, again, arrived>>

Crash(p) ==
    /\ p \in Workers
    /\ proc[p].pc # "idle"
    /\ Fault
    /\ disturbed' = disturbed \cup {s \in Subs : Holds(p, s)}
    /\ proc' = [proc EXCEPT ![p] = Idle]
    /\ UNCHANGED <<now, row, charged, again, arrived>>

-----------------------------------------------------------------------------
(* The billing worker *)

Due(s) ==
    /\ row[s] # None
    /\ row[s].Status = "active"
    /\ row[s].CurrentPeriodEnd < now

\* Mutation: only subscriptions already past due are selected.
FindPastDue(w) ==
    {[id |-> s, copy |-> None] :
        s \in {x \in Subs : row[x] # None /\ row[x].Status = "past_due"}}

FindDueForBilling(w) == {[id |-> s, copy |-> None] : s \in {x \in Subs : Due(x)}}

TrialEnded(s) ==
    /\ row[s] # None
    /\ row[s].Status = "trialing"
    /\ row[s].TrialEndsAt < now

\* Mutation: a trial without a token is not selected.
TrialsWithToken(w) ==
    {[id |-> s, copy |-> row[s]] : s \in {x \in Subs : TrialEnded(x) /\ row[x].token}}

FindTrialsEnded(w) ==
    {[id |-> s, copy |-> row[s]] : s \in {x \in Subs : TrialEnded(x)}}

\* A run of the worker.  An empty list changes nothing, so it takes no step.
Start(w) ==
    /\ proc[w].pc = "idle"
    /\ FindDueForBilling(w) # {}
    /\ proc' = [proc EXCEPT ![w] = [Idle EXCEPT !.pc = "due", !.todo = FindDueForBilling(w)]]
    /\ disturbed' = disturbed \cup Crowded(w, {t.id : t \in FindDueForBilling(w)})
    /\ UNCHANGED <<now, row, charged, again, arrived, faults>>

\* The next subscription listed is loaded; whatever becomes of one, the next follows.
ProcessDueBilling(w) ==
    /\ proc[w].pc = "due"
    /\ \E t \in proc[w].todo :
          proc' = [proc EXCEPT ![w] =
                [pc |-> "apply", call |-> Call("HandleBillingCycle", t.id, None, None),
                 copy |-> row[t.id], todo |-> proc[w].todo \ {t}]]
    /\ UNCHANGED <<now, row, charged, again, disturbed, arrived, faults>>

\* When all that was due is done.
ListTrials(w) ==
    /\ \/ proc[w].pc = "idle" /\ FindDueForBilling(w) = {} /\ FindTrialsEnded(w) # {}
       \/ proc[w].pc = "due" /\ proc[w].todo = {}
    /\ proc' = [proc EXCEPT ![w] = [Idle EXCEPT
          !.pc = IF FindTrialsEnded(w) = {} THEN "idle" ELSE "trials",
          !.todo = FindTrialsEnded(w)]]
    /\ disturbed' = disturbed \cup Crowded(w, {t.id : t \in FindTrialsEnded(w)})
    /\ UNCHANGED <<now, row, charged, again, arrived, faults>>

\* BillingCharger.Charge, asked for the period after the copy's.
Charge(s, copy, ok) ==
    LET ofThis == {c \in charged[s] : c.after = copy.CurrentPeriodStart}
    IN  IF ok
        THEN /\ charged' = [charged EXCEPT ![s] =
                    @ \cup {[after |-> copy.CurrentPeriodStart, at |-> now]}]
             /\ again' = IF ofThis = {} THEN again ELSE again \cup {s}
        ELSE UNCHANGED <<charged, again>>

\* Mutation: a charge that failed is logged and the subscription renewed.
BilledAnyway(copy, ok) == Renew(copy, row[copy.PlanID], now)

\* Mutation: the renewal is forgotten.
BilledNotRenewed(copy, ok) == IF ok THEN copy ELSE FailPayment(copy)

\* What HandleBillingCycle makes of the copy, the charge having gone ok or not.
Billed(copy, ok) ==
    IF ok THEN Renew(copy, row[copy.PlanID], now)
    ELSE IF copy.Status = "past_due" THEN Expire(copy)
    ELSE FailPayment(copy)

\* The card is charged whatever the status; an error after it is only logged.
HandleBillingCycle(w) ==
    LET p == proc[w]
    IN  /\ p.pc = "apply"
        /\ p.call.op = "HandleBillingCycle"
        /\ \E ok \in BOOLEAN :
              /\ ~ok => p.copy.token
              /\ Charge(p.call.id, p.copy, ok /\ p.copy.token)
              /\ IF Billed(p.copy, ok) = None THEN Done(w)
                 ELSE proc' = [proc EXCEPT ![w].pc = "save", ![w].copy = Billed(p.copy, ok)]
        /\ UNCHANGED <<now, row, disturbed, arrived, faults>>

\* The next trial, in the copy that was listed.  Charged: activated and
\* renewed.  Refused, or no token: expired.
ExpireTrials(w) ==
    /\ proc[w].pc = "trials"
    /\ \E t \in proc[w].todo, ok \in BOOLEAN :
          /\ ok => t.copy.token
          /\ Charge(t.id, t.copy, ok)
          /\ proc' = [proc EXCEPT ![w] =
                [pc |-> IF ok THEN "trialSave" ELSE "save",
                 call |-> Call("ExpireTrials", t.id, None, None),
                 copy |-> IF ok THEN Renew(Activate(t.copy), row[t.copy.PlanID], now)
                          ELSE Expire(t.copy),
                 todo |-> proc[w].todo \ {t}]]
    /\ UNCHANGED <<now, row, disturbed, arrived, faults>>

Work(w) ==
    \/ Start(w) \/ ProcessDueBilling(w) \/ HandleBillingCycle(w)
    \/ ListTrials(w) \/ ExpireTrials(w) \/ Save(w)

Next ==
    \/ Tick
    \/ \E r \in Requests : Arrive(r) \/ Load(r) \/ Apply(r) \/ Save(r)
    \/ \E w \in Workers : Work(w)
    \/ \E p \in Procs : SaveFails(p) \/ Crash(p)

\* The ticker of a replica's worker never stops; the clock may.
Spec == Init /\ [][Next]_vars /\ \A w \in Workers : WF_vars(Work(w))

-----------------------------------------------------------------------------
(* Properties *)

Copies(s) ==
    {proc[p].copy : p \in {q \in Procs : proc[q].pc \in {"apply", "trialSave", "save"}
                                         /\ proc[q].call.id = s}}
    \cup {row[s]}

\* No aggregate method's error is ever saved, and what is saved is whole.
TypeOK ==
    /\ now \in Nat
    /\ \A p \in Plans : row[p] \in Plan \cup {None}
    /\ \A s \in Subs : row[s] \in SubscriptionRow \cup {None}
    /\ \A p \in Procs : proc[p].pc = "save" /\ proc[p].call.id \in Subs
                          => proc[p].copy \in SubscriptionRow
    /\ charged \in [Subs -> SUBSET [after: Nat, at: Nat]]
    /\ again \subseteq Subs /\ disturbed \subseteq Subs

\* HandleBillingCycle and ExpireTrials: a subscription with a payment token
\* that is in a later period than its first was charged, successfully, when
\* that period began - in the row and in every copy that may still be saved,
\* whatever races and failures came before.
RenewedWasCharged ==
    \A s \in Subs : \A c \in Copies(s) \ {None} :
        c.token /\ c.CurrentPeriodStart # c.CreatedAt
            => \E x \in charged[s] : x.at = c.CurrentPeriodStart

\* ProcessDueBilling: a period is charged for twice only if two processes
\* were at the subscription at once, a save failed or a server died.
OneChargePerPeriod == again \subseteq disturbed

\* Cancel and Expire: a cancelled or expired subscription stays so, unless
\* another process was at it at the time.
EndedStaysEnded ==
    [][\A s \in Subs \ disturbed :
            row[s] # None /\ row[s].Status \in Ended => row'[s].Status = row[s].Status]_vars

\* The worker: an active subscription whose period is over does not stay so.
DueIsBilled == \A s \in Subs : Due(s) ~> ~Due(s)

\* The worker: a trial that is over ends, charged or not.
TrialsEnd == \A s \in Subs : TrialEnded(s) ~> ~TrialEnded(s)

HasStatus(s, status) == row[s] # None /\ row[s].Status = status

\* A subscription whose payment failed is tried again: it does not stay
\* past due.
PastDueIsTriedAgain ==
    \A s \in Subs :
        HasStatus(s, "past_due") ~> ~HasStatus(s, "past_due")

=============================================================================
