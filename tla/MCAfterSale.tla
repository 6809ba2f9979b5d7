----------------------------- MODULE MCAfterSale -----------------------------
(* A small instance of AfterSale for TLC. *)
EXTENDS AfterSale, TLC

CONSTANTS o1, o2, m1, p1, f1, f2, h1, h2

MCOrders == {o1, o2}
MCMandates == {m1}
MCProducts == {p1}
MCRefunds == {f1, f2}
MCHandlers == {h1, h2}
MCItems == (o1 :> <<p1>>) @@ (o2 :> <<p1>>)
\* The client gave the items of o2 away.
MCTotal == (o1 :> 1) @@ (o2 :> 0)
MCMaxAmount == (m1 :> 1)

\* An order on its way or delivered, paid by a mandate or not yet, one unit
\* of two reserved for it - or no stock record at all.  A free order is delivered.
MCInitialRows ==
    {(o1 :> o) @@ (o2 :> "delivered") @@ (m1 :> m) @@ (p1 :> p) :
        o \in {"confirmed", "processing", "delivered"},
        m \in {None, "approved", "settled"},
        p \in {None, [QuantityAvailable |-> 2, ReservedQuantity |-> 1]}}

=============================================================================
