----------------------------- MODULE MCCheckout -----------------------------
(* Small instances of Checkout for TLC. *)
EXTENDS Checkout, TLC

CONSTANTS u1, u2, m1, r1, r2, i1, i2

MCUsers == {u1, u2}
MCOneUser == {u1}
MCMandates == {m1}
MCStripeIds == {i1, i2}
MCOneStripeId == {i1}
MCOneRequest == {r1}
MCTwoRequests == {r1, r2}

MCCartTotals == {3}
MCCosts == {1, 2}

\* m1 covers the cart with the first shipping option, not with the second.
MCMandateOwner == [m \in MCMandates |-> u1]
MCMandateLimit == [m \in MCMandates |-> 4]

\* A checkout filled in earlier, one per way to pay ...
MCFilledIn ==
    {Draft(u1, 3, 1, h, m1) : h \in {"stripe", "ap2_mandate"}}

\* ... or none yet.
MCEmptyOrFilledIn == {None} \cup MCFilledIn

Symmetry == Permutations(MCStripeIds) \cup Permutations(MCTwoRequests)

=============================================================================
