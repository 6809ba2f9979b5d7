---------------------------- MODULE InventoryItem ----------------------------
(***************************************************************************)
(* The InventoryItem aggregate of domain/inventory: what is in stock and   *)
(* how much of it is reserved.  As in CheckoutSession, a method maps the   *)
(* item to the item it leaves, or to None for the error it returns.        *)
(***************************************************************************)
EXTENDS Integers

CONSTANT None

Item == [QuantityAvailable: Int, ReservedQuantity: Int]

NewInventoryItem(quantity) ==
    [QuantityAvailable |-> quantity, ReservedQuantity |-> 0]

AvailableQuantity(i) == i.QuantityAvailable - i.ReservedQuantity

\* "insufficient stock"
Reserve(i, quantity) ==
    IF quantity > 0 /\ AvailableQuantity(i) >= quantity
    THEN [i EXCEPT !.ReservedQuantity = @ + quantity] ELSE None

\* "cannot release more than reserved"
ReleaseReservation(i, quantity) ==
    IF quantity > 0 /\ i.ReservedQuantity >= quantity
    THEN [i EXCEPT !.ReservedQuantity = @ - quantity] ELSE None

\* Mutation: a new count begins with nothing reserved.
SetStockAfresh(i, quantity) ==
    IF quantity >= 0 THEN NewInventoryItem(quantity) ELSE None

\* What is reserved stays reserved, whatever the new count.
SetStock(i, quantity) ==
    IF quantity >= 0 THEN [i EXCEPT !.QuantityAvailable = quantity] ELSE None

\* "cannot confirm more than reserved"
ConfirmReservation(i, quantity) ==
    IF quantity > 0 /\ i.ReservedQuantity >= quantity
    THEN [QuantityAvailable |-> i.QuantityAvailable - quantity,
          ReservedQuantity |-> i.ReservedQuantity - quantity]
    ELSE None

Restock(i, quantity) ==
    IF quantity > 0 THEN [i EXCEPT !.QuantityAvailable = @ + quantity] ELSE None

=============================================================================
