--------------------------- MODULE CheckoutSession ---------------------------
(***************************************************************************)
(* The CheckoutSession aggregate of domain/checkout: the value a request   *)
(* holds in memory, Redis caches and Postgres stores.  A method of the     *)
(* aggregate is an operator from the session it is called on to the        *)
(* session it leaves; None stands for the error it returns instead.        *)
(* Contents no guard looks at are reduced to their presence: an address, a *)
(* wallet token, a continue URL and the completion time are BOOLEANs.      *)
(***************************************************************************)
EXTENDS Integers

CONSTANTS Users, CartTotals, Costs, Mandates, StripeIds, None

ASSUME AmountsAssumption == CartTotals \subseteq Int /\ Costs \subseteq Int

ASSUME NoneAssumption ==
    /\ None \notin Int
    /\ None \notin Mandates
    /\ None \notin StripeIds

Incomplete == "incomplete"
ReadyForComplete == "ready_for_complete"
RequiresEscalation == "requires_escalation"
Completed == "completed"
Cancelled == "cancelled"

Status == {Incomplete, ReadyForComplete, RequiresEscalation, Completed, Cancelled}

\* "" is the handler not chosen yet; "other" is any name the service does not
\* treat specially ("ap2:<id>" of the ECP channel, "google_pay", "mock", ...).
Handlers == {"stripe", "ap2_mandate", "other"}

Session ==
    [UserID: Users,
     ShippingAddress: BOOLEAN, BillingAddress: BOOLEAN,
     ShippingOption: Costs \cup {None},
     PaymentHandler: Handlers \cup {""},
     MandateID: Mandates \cup {None},
     WalletToken: BOOLEAN,
     CartTotal: Int, Subtotal: Int, ShippingCost: Int, TaxAmount: Int, GrandTotal: Int,
     Status: Status,
     ContinueURL: BOOLEAN,
     StripeSessionID: StripeIds \cup {None},
     StripePaymentIntentID: StripeIds \cup {None},
     StripePaymentStatus: {"", "succeeded"},
     CompletedAt: BOOLEAN]

ASSUME NoneIsNoSession == None \notin Session

\* CartTotal is the cart snapshot, reduced to the sum of its items.
NewCheckoutSession(user, total) ==
    [UserID |-> user,
     ShippingAddress |-> FALSE, BillingAddress |-> FALSE,
     ShippingOption |-> None, PaymentHandler |-> "", MandateID |-> None,
     WalletToken |-> FALSE,
     CartTotal |-> total, Subtotal |-> total,
     ShippingCost |-> 0, TaxAmount |-> 0, GrandTotal |-> 0,
     Status |-> Incomplete, ContinueURL |-> FALSE,
     StripeSessionID |-> None, StripePaymentIntentID |-> None,
     StripePaymentStatus |-> "", CompletedAt |-> FALSE]

-----------------------------------------------------------------------------

SetShippingAddress(s) ==
    IF s.Status = Incomplete THEN [s EXCEPT !.ShippingAddress = TRUE] ELSE None

SetBillingAddress(s) ==
    IF s.Status = Incomplete THEN [s EXCEPT !.BillingAddress = TRUE] ELSE None

recalculateTotal(s) ==
    [s EXCEPT !.GrandTotal = s.Subtotal + s.ShippingCost + s.TaxAmount]

\* Mutation: the total is not recalculated.
SelectShippingOptionOnly(s, cost) ==
    IF s.Status = Incomplete
    THEN [s EXCEPT !.ShippingOption = cost, !.ShippingCost = cost] ELSE None

\* An option is its cost: the two are set together, the total follows.
SelectShippingOption(s, cost) ==
    IF s.Status = Incomplete
    THEN recalculateTotal([s EXCEPT !.ShippingOption = cost, !.ShippingCost = cost])
    ELSE None

SelectPaymentHandler(s, handler) ==
    IF s.Status = Incomplete /\ handler # ""
    THEN [s EXCEPT !.PaymentHandler = handler] ELSE None

\* No guard: the tax of a finished session can be set too.
SetTaxAmount(s, amount) == recalculateTotal([s EXCEPT !.TaxAmount = amount])

\* What MarkReady and StartComplete require to have been chosen.
AllChosen(s) ==
    /\ s.ShippingAddress
    /\ s.BillingAddress
    /\ s.ShippingOption # None
    /\ s.PaymentHandler # ""

\* Mutation: the choices are not looked at.
MarkReadyUnchecked(s) ==
    IF s.Status = Incomplete THEN [s EXCEPT !.Status = ReadyForComplete] ELSE None

MarkReady(s) ==
    IF s.Status = Incomplete /\ AllChosen(s)
    THEN [s EXCEPT !.Status = ReadyForComplete] ELSE None

Escalate(s) ==
    IF s.Status = Incomplete
    THEN [s EXCEPT !.Status = RequiresEscalation, !.ContinueURL = TRUE] ELSE None

SelectMandate(s, mandate) ==
    IF s.Status = Incomplete THEN [s EXCEPT !.MandateID = mandate] ELSE None

SubmitPaymentToken(s) ==
    IF s.Status = Incomplete THEN [s EXCEPT !.WalletToken = TRUE] ELSE None

SetStripeSessionID(s, id) ==
    IF s.Status = Incomplete THEN [s EXCEPT !.StripeSessionID = id] ELSE None

SetStripePaymentIntentID(s, id) ==
    IF s.Status = Incomplete THEN [s EXCEPT !.StripePaymentIntentID = id] ELSE None

SetStripePaymentStatus(s, status) == [s EXCEPT !.StripePaymentStatus = status]

Complete(s) ==
    IF s.Status \in {ReadyForComplete, RequiresEscalation}
    THEN [s EXCEPT !.Status = Completed, !.CompletedAt = TRUE] ELSE None

\* Mutation: the guard against completed sessions is missing.
CancelCompletedToo(s) ==
    IF s.Status # Cancelled THEN [s EXCEPT !.Status = Cancelled] ELSE None

Cancel(s) ==
    IF s.Status \notin {Completed, Cancelled}
    THEN [s EXCEPT !.Status = Cancelled] ELSE None

=============================================================================
