------------------------------ MODULE MCBilling ------------------------------
(* Small instances of Billing for TLC. *)
EXTENDS Billing, TLC

CONSTANTS s1, p1, p2, u1, u2, w1, w2, r1

MCSubs == {s1}
MCPlans == {p1, p2}
MCOnePlan == {p1}
MCUsers == {u1, u2}
MCWorkers == {w1, w2}
MCOneWorker == {w1}
MCRequests == {r1}

\* p1 has a trial, p2 is yet to be created.
MCInitialPlans ==
    [p \in Plans |-> IF p = p1 THEN [Status |-> "active", Interval |-> 1, TrialDays |-> 1]
                     ELSE None]

\* A new subscription at time 0, on trial or active.
MCInitialSubs ==
    {None} \cup
    {[UserID |-> u1, PlanID |-> p1, CreatedAt |-> 0, Status |-> st,
      CurrentPeriodStart |-> 0, CurrentPeriodEnd |-> 1, TrialEndsAt |-> 1, token |-> TRUE] :
        st \in {"trialing", "active"}}

=============================================================================
