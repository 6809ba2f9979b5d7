----------------------------- MODULE DiscountCode -----------------------------
(***************************************************************************)
(* The DiscountCode aggregate of domain/discount: whether it is active and *)
(* how often it was and may be used.  Amounts, the minimum purchase and    *)
(* the expiry are data of a request: Shopping lets them refuse any use.    *)
(***************************************************************************)
EXTENDS Integers

NewDiscountCode(max) == [max |-> max, used |-> 0, active |-> TRUE]

\* Mutation: one use more than the limit.
IsValidAtLimit(d) == d.active /\ ~(d.max > 0 /\ d.used > d.max)

\* A limit of 0 is no limit.
IsValid(d) == d.active /\ ~(d.max > 0 /\ d.used >= d.max)

Deactivate(d) == [d EXCEPT !.active = FALSE]

===============================================================================
