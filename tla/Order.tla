-------------------------------- MODULE Order --------------------------------
(***************************************************************************)
(* The Order and Refund aggregates of domain/order, reduced to their       *)
(* status.  A method maps it to the next one, or to None for its error.    *)
(***************************************************************************)
EXTENDS Integers

CONSTANT None

OrderStatus ==
    {"confirmed", "processing", "shipped", "delivered", "returned", "cancelled"}

StartProcessing(o) == IF o = "confirmed" THEN "processing" ELSE None

\* labelled: tracking number and carrier are given.
Ship(o, labelled) == IF o = "processing" /\ labelled THEN "shipped" ELSE None

MarkDelivered(o) == IF o = "shipped" THEN "delivered" ELSE None

\* Mutation: an order may be returned again.
ReturnAgain(o) == IF o \in {"delivered", "returned"} THEN "returned" ELSE None

Return(o) == IF o = "delivered" THEN "returned" ELSE None

\* Mutation: a shipped order can still be cancelled.
CancelShippedToo(o) ==
    IF o \in {"confirmed", "processing", "shipped"} THEN "cancelled" ELSE None

Cancel(o) == IF o \in {"confirmed", "processing"} THEN "cancelled" ELSE None

RefundStatus == {"pending", "processed", "failed"}

\* A refund of nothing, or of less, is refused.
NewRefund(amount) == IF amount > 0 THEN "pending" ELSE None

MarkProcessed(f) == IF f = "pending" THEN "processed" ELSE None

MarkFailed(f) == IF f = "pending" THEN "failed" ELSE None

=============================================================================
