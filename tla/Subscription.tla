----------------------------- MODULE Subscription -----------------------------
(***************************************************************************)
(* The Plan and Subscription aggregates of domain/subscription.  A method  *)
(* maps the aggregate to the one it leaves, or to None for its error.      *)
(* Time is counted in ticks; a plan's interval and its trial are lengths.  *)
(* Of a plan's other columns (name, amount, features) nothing depends here.*)
(***************************************************************************)
EXTENDS Integers

CONSTANT None

PlanStatus == {"active", "inactive"}

Plan == [Status: PlanStatus, Interval: Nat \ {0}, TrialDays: Nat]

NewPlan(interval, trialDays) ==
    IF interval > 0 /\ trialDays >= 0
    THEN [Status |-> "active", Interval |-> interval, TrialDays |-> trialDays]
    ELSE None

Deactivate(p) == IF p.Status = "active" THEN [p EXCEPT !.Status = "inactive"] ELSE None

ActivatePlan(p) == IF p.Status = "inactive" THEN [p EXCEPT !.Status = "active"] ELSE None

\* UpdatePlan takes over what is given; a zero interval means "not given".
Update(p, interval, trialDays) ==
    [p EXCEPT !.Interval = IF interval > 0 THEN interval ELSE @,
              !.TrialDays = IF trialDays >= 0 THEN trialDays ELSE @]

SubscriptionStatus ==
    {"pending", "trialing", "active", "past_due", "cancelled", "expired"}

Ended == {"cancelled", "expired"}

\* token: whether PaymentToken is non-empty.
NewSubscription(user, planID, plan, now) ==
    IF plan = None \/ plan.Status # "active" THEN None
    ELSE [UserID |-> user,
          PlanID |-> planID,
          CreatedAt |-> now,
          Status |-> IF plan.TrialDays > 0 THEN "trialing" ELSE "pending",
          CurrentPeriodStart |-> now,
          CurrentPeriodEnd |-> now + plan.Interval,
          TrialEndsAt |-> IF plan.TrialDays > 0 THEN now + plan.TrialDays ELSE None,
          token |-> FALSE]

Activate(s) ==
    IF s.Status \in {"pending", "trialing", "past_due"}
    THEN [s EXCEPT !.Status = "active"] ELSE None

\* Mutation: an expired subscription is not recognised as ended.
CancelAnything(s) == [s EXCEPT !.Status = "cancelled"]

Cancel(s) == IF s.Status \notin Ended THEN [s EXCEPT !.Status = "cancelled"] ELSE None

Expire(s) ==
    IF s.Status \in {"active", "past_due", "trialing"}
    THEN [s EXCEPT !.Status = "expired"] ELSE None

FailPayment(s) ==
    IF s.Status \in {"active", "past_due"}
    THEN [s EXCEPT !.Status = "past_due"] ELSE None

ChangePlan(s, planID, plan) ==
    IF s.Status \in {"active", "past_due"} /\ plan # None /\ plan.Status = "active"
    THEN [s EXCEPT !.PlanID = planID] ELSE None

AttachPaymentToken(s) ==
    IF s.Status \in {"pending", "trialing", "past_due"}
    THEN [s EXCEPT !.token = TRUE] ELSE None

\* The new period starts now, not where the last one ended.
Renew(s, plan, now) ==
    IF s.Status \in {"active", "past_due"}
    THEN [s EXCEPT !.CurrentPeriodStart = now, !.CurrentPeriodEnd = now + plan.Interval]
    ELSE None

=============================================================================
