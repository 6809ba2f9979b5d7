-------------------------- MODULE MCOrderPlacement --------------------------
(* Small instances of OrderPlacement for TLC. *)
EXTENDS OrderPlacement, TLC

CONSTANTS c1, c2, p1, p2, m1, o1, o2, o3, s1, s2

MCServers == {s1, s2}
MCOneServer == {s1}
MCOneCheckout == {c1}
MCTwoCheckouts == {c1, c2}
MCProducts == {p1, p2}
MCOneProduct == {p1}
MCMandates == {m1}
MCNoMandates == {}
MCTwoOrderIds == {o1, o2}
MCOrderIds == {o1, o2, o3}

One(p) == [product |-> p, quantity |-> 1]

\* c1 wants both products, c2 the one c1 looks up last.
MCItems == [c \in Checkouts |-> IF c = c1 THEN <<One(p1), One(p2)>> ELSE <<One(p2)>>]
MCOneItem == [c \in Checkouts |-> <<One(p1)>>]

\* c1 pays by mandate, c2 by other means.
MCMandateOf == [c \in Checkouts |-> IF c = c1 THEN m1 ELSE None]
MCNoMandateOf == [c \in Checkouts |-> None]
MCByMandate == {c1}

\* The last unit of each product, or plenty.
MCScarce == [p \in Products |-> 1]
MCPlenty == [p \in Products |-> 4]

\* Less than is reserved, and more.
MCCounts == {0, 2}

Symmetry == Permutations(OrderIds) \cup Permutations(Servers)

=============================================================================
