------------------------------- MODULE Mandate -------------------------------
(***************************************************************************)
(* The AP2 mandate of domain/payment, reduced to its status.  None is the  *)
(* error a method returns.                                                 *)
(***************************************************************************)
EXTENDS Integers

CONSTANT None

MandateStatus ==
    {"requested", "approved", "executed", "settled", "refunded", "cancelled",
     "expired"}

NewMandate(maxAmount, expired) ==
    IF maxAmount > 0 /\ ~expired THEN "requested" ELSE None

\* An expired mandate is marked expired in memory only: the error is returned
\* and nothing is saved.
Approve(status, signed, expired) ==
    IF status = "requested" /\ signed /\ ~expired THEN "approved" ELSE None

Execute(status) == IF status = "approved" THEN "executed" ELSE None

Settle(status) == IF status = "executed" THEN "settled" ELSE None

Refund(status, amount, maxAmount) ==
    IF status = "settled" /\ amount > 0 /\ amount <= maxAmount THEN "refunded" ELSE None

\* Mutation: a settled mandate can be cancelled.
CancelSettledToo(status) == IF status # "cancelled" THEN "cancelled" ELSE None

\* Neither a settled nor a cancelled mandate can be cancelled.
Cancel(status) == IF status \notin {"settled", "cancelled"} THEN "cancelled" ELSE None

\* Mutation: an approval counts as a payment.
ChargedOrApproved(status) == status \in {"approved", "executed", "settled"}

\* What VerifyPayment accepts.
Charged(status) == status \in {"executed", "settled"}

=============================================================================
