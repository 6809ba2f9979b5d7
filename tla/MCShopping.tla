------------------------------ MODULE MCShopping ------------------------------
(* A small instance of Shopping for TLC. *)
EXTENDS Shopping, TLC

CONSTANTS u1, u2, c1, c2, c3, p1, d1, t1, n1, h1, h2

MCUsers == {u1, u2}
MCCarts == {c1, c2, c3}
MCProducts == {p1}
MCCodes == {d1}
MCTasks == {t1}
MCPushConfigs == {n1}
MCHandlers == {h1, h2}
\* The handlers are alike.
MCSymmetry == Permutations(Handlers)

MCQuantities == {0, 1}
MCLimits == {1}

NoCarts == [c \in Carts |-> None]
Stocked == [id |-> c1, user |-> u1, items |-> [p \in Products |-> 1]]

\* Nothing yet, or a cart with one unit of each product and a code that may be
\* used once.
MCInitialRows ==
    {[carts |-> NoCarts, codes |-> [d \in Codes |-> None]],
     [carts |-> [NoCarts EXCEPT ![c1] = Stocked],
      codes |-> [d \in Codes |-> [max |-> 1, used |-> 0, active |-> TRUE]]]}

===============================================================================
