------------------------------ MODULE Checkout ------------------------------
(***************************************************************************)
(* One checkout as its concurrent requests see it: the CheckoutService of  *)
(* domain/checkout over the Postgres row and the Redis copy of             *)
(* infrastructure/checkout, called from REST, MCP, the ECP websocket, the  *)
(* A2A skill and the Stripe webhook.                                       *)
(*                                                                         *)
(* A request is a sequence of service calls.  A call loads the session     *)
(* (Redis, else Postgres and a cache fill), lets the service method change *)
(* the copy in memory, writes the WHOLE row back, deletes the cache key    *)
(* and publishes.  No lock, version or transaction spans these steps, so   *)
(* the steps of different requests interleave freely.                      *)
(*                                                                         *)
(* Input that is malformed, or refused by a check that looks at the input  *)
(* alone, changes nothing; it behaves like a Get and is not modelled       *)
(* apart from it.                                                          *)
(***************************************************************************)
EXTENDS CheckoutSession, Sequences

CONSTANTS
    Requests,          \* requests in flight at the same time
    MaxRequests,       \* bound: requests that arrive altogether
    MandateOwner,      \* the user a mandate belongs to
    MandateLimit,      \* Scope.MaxAmount of a mandate
    StripeConfigured,  \* main.go: stripeProcessor is not nil
    ClientChosenIds,   \* REST clients may create a checkout_id that exists
    CacheFaults,       \* Redis DEL may fail, or the server die before it
    InitialRows        \* what Postgres may hold when the server starts

ASSUME MandateAssumption ==
    /\ MandateOwner \in [Mandates -> Users]
    /\ MandateLimit \in [Mandates -> Int]

ASSUME SwitchesAssumption ==
    /\ StripeConfigured \in BOOLEAN
    /\ ClientChosenIds \in BOOLEAN
    /\ CacheFaults \in BOOLEAN

\* A checkout a customer is still filling in.
Draft(user, total, cost, handler, mandate) ==
    recalculateTotal(
        [NewCheckoutSession(user, total) EXCEPT
            !.ShippingAddress = TRUE, !.BillingAddress = TRUE,
            !.ShippingOption = cost, !.ShippingCost = cost,
            !.PaymentHandler = handler, !.MandateID = mandate])

ASSUME InitialRowsAssumption ==
    InitialRows \subseteq
        {None} \cup {Draft(u, t, c, h, m) :
                        u \in Users, t \in CartTotals, c \in Costs,
                        h \in Handlers, m \in Mandates \cup {None}}

VARIABLES
    row,        \* the checkout_sessions row, None before it is inserted
    cache,      \* the value of Redis key checkout:id:<id>, None when absent
    req,        \* the requests in flight
    stripe,     \* Stripe's own objects: checkout sessions and intents
    sagas,      \* mandates whose payment saga DTM has accepted
    published,  \* statuses announced on NATS subject checkout.updated
    committed,  \* statuses the row has had (history)
    arrived     \* requests so far

vars == <<row, cache, req, stripe, sagas, published, committed, arrived>>

-----------------------------------------------------------------------------
(* The service calls and the scripts the interfaces make of them *)

Plain == {"Get", "SetShippingAddress", "SetBillingAddress", "SubmitPaymentToken",
          "CalculateTax", "MarkReady", "CreateStripePaymentIntent",
          "Complete", "Cancel"}

Call ==
    [op: Plain]
    \cup [op: {"Create"}, user: Users, total: CartTotals]
    \cup [op: {"Owner"}, user: Users]
    \cup [op: {"SelectShippingOption"}, cost: Costs]
    \cup [op: {"SelectPaymentHandler"}, handler: Handlers]
    \cup [op: {"SelectMandate"}, mandate: Mandates]
    \cup [op: {"StartComplete"}, url: BOOLEAN]
    \cup [op: {"ConfirmStripePayment"}, stripe: StripeIds]

Do(op) == [op |-> op]

\* The setters all handlers offer, and the calls they make.
Setters ==
    {Do("SetShippingAddress"), Do("SetBillingAddress"), Do("SubmitPaymentToken")}
    \cup [op: {"SelectShippingOption"}, cost: Costs]
    \cup [op: {"SelectPaymentHandler"}, handler: Handlers]
    \cup [op: {"SelectMandate"}, mandate: Mandates]

\* A REST handler loads the session and compares its owner before it calls
\* the service, which loads the session again.
Owned(calls) ==
    {<<[op |-> "Owner", user |-> u], c>> : u \in Users, c \in calls}

Addresses == {Do("SetShippingAddress"), Do("SetBillingAddress")}

RestAddress == Owned(Addresses)

RestChoices == Owned(Setters \ Addresses)

RestStripeIntent == Owned({Do("CreateStripePaymentIntent")})

RestCancel == Owned({Do("Cancel")})

\* Complete is the exception: it compares the owner after StartComplete has
\* saved, for the response only.
RestComplete == {<<[op |-> "StartComplete", url |-> b]>> : b \in BOOLEAN}

\* REST takes the id from the client or draws a fresh one.
RestCreate ==
    {<<c>> : c \in [op: {"Create"}, user: Users, total: CartTotals]}

RestGet == {<<[op |-> "Owner", user |-> u]>> : u \in Users}

\* The MCP tools call the service directly; there is no token tool.
McpTools ==
    {<<c>> : c \in (Setters \ {Do("SubmitPaymentToken")})
                    \cup {Do("Get"), Do("Cancel")}
                    \cup [op: {"StartComplete"}, url: BOOLEAN]}

EcpStateUpdate == RestGet

EcpCredentialsSubmit ==
    {<<Do("SetShippingAddress"), Do("SetBillingAddress"), Do("Get")>>}

\* "ap2:<mandate>" is a handler the service knows nothing special about.
EcpPaymentAuthorize ==
    {<<Do("Complete")>>,
     <<[op |-> "SelectPaymentHandler", handler |-> "other"], Do("Complete")>>}

EcpAddressSelect == {<<Do("SetShippingAddress")>>, <<Do("SetBillingAddress")>>}

\* FindByUserID reads another key; on a miss it fills checkout:id:<id> too.
A2ACheckoutSkill == {<<Do("Get")>>}

\* Service methods no interface is wired to.
ServiceOnly == {<<Do("CalculateTax")>>, <<Do("MarkReady")>>}

\* Stripe reports a paid checkout session, as often as it likes.
StripeWebhook ==
    {<<[op |-> "ConfirmStripePayment", stripe |-> i]>> :
        i \in {j \in StripeIds : stripe[j].kind = "session" /\ stripe[j].paid}}

Scripts ==
    RestAddress \cup RestChoices \cup RestStripeIntent \cup RestCancel
    \cup RestComplete \cup RestCreate \cup RestGet \cup McpTools
    \cup EcpStateUpdate \cup EcpCredentialsSubmit \cup EcpPaymentAuthorize
    \cup EcpAddressSelect \cup A2ACheckoutSkill \cup ServiceOnly
    \cup StripeWebhook

-----------------------------------------------------------------------------
(* The service methods: from the session loaded to what is to be saved *)

\* ses: the session to save, None for an error; announce: the events
\* publishEvents will publish.
Outcome(s, announce) ==
    [ses |-> s, announce |-> announce, stripe |-> stripe, sagas |-> sagas]

Error == Outcome(None, 0)

Announcing(s, n) == IF s = None THEN Error ELSE Outcome(s, n)

SvcCalculateTax(s) == Outcome(SetTaxAmount(s, 0), 0)

\* DefaultPriceCalculator sums the snapshot's items again.
SvcMarkReady(s) ==
    LET t == MarkReady(s)
    IN  IF t = None THEN Error
        ELSE Outcome(recalculateTotal([t EXCEPT !.Subtotal = t.CartTotal]), 1)

UsesMandate(s) == s.PaymentHandler = "ap2_mandate" /\ s.MandateID # None

\* CheckoutMandateVerifier's checks; past them the saga is submitted to DTM.
\* An expired mandate, or a DTM that refuses, fails the call: see Abort.
MandateCovers(s) ==
    /\ MandateOwner[s.MandateID] = s.UserID
    /\ MandateLimit[s.MandateID] >= s.GrandTotal

\* Mutation: the limit is not compared.
verifyMandateOwner(s) == ~UsesMandate(s) \/ MandateOwner[s.MandateID] = s.UserID

\* VerifyAndExecute and VerifyAndExecuteWithToken: the same checks; a wallet
\* token that is refused after them is a failure like any other (Abort).
verifyMandate(s) == ~UsesMandate(s) \/ MandateCovers(s)

Submitted(s) == IF UsesMandate(s) THEN sagas \cup {s.MandateID} ELSE sagas

Charging(o, s) == [o EXCEPT !.sagas = Submitted(s)]

UsesStripe(s) == StripeConfigured /\ s.PaymentHandler = "stripe"

UsesIntent(s) == UsesStripe(s) /\ s.StripePaymentIntentID # None

\* Mutation: an intent counts as paid once it exists.
IntentCreated(s) == UsesIntent(s) => stripe[s.StripePaymentIntentID].kind = "intent"

\* GetPaymentIntentStatus returned "succeeded".
IntentPaid(s) == UsesIntent(s) => stripe[s.StripePaymentIntentID].paid

WithIntentStatus(s) ==
    IF UsesIntent(s) THEN SetStripePaymentStatus(s, "succeeded") ELSE s

NewStripeObject(id, kind, amount) ==
    [stripe EXCEPT ![id] = [kind |-> kind, amount |-> amount, paid |-> FALSE]]

\* Escalation to the caller's page.
StartEscalate(s) ==
    IF verifyMandate(s)
    THEN Charging(Outcome(Escalate(s), 1), s)
    ELSE Error

\* Escalation to a Stripe Checkout page, which charges the cart's items only.
StartStripe(s, id) ==
    IF id = None THEN Error
    ELSE [Outcome(Escalate(SetStripeSessionID(s, id)), 1) EXCEPT
            !.stripe = NewStripeObject(id, "session", s.CartTotal)]

\* MarkReady and Complete on one copy: one save, two events.
StartDirect(s) ==
    IF IntentPaid(s) /\ verifyMandate(s)
    THEN Charging(Outcome(Complete(MarkReady(WithIntentStatus(s))), 2), s)
    ELSE Error

SvcStartComplete(s, url, id) ==
    IF s.Status # Incomplete \/ ~AllChosen(s) THEN Error
    ELSE IF url THEN StartEscalate(s)
    ELSE IF UsesStripe(s) /\ ~UsesIntent(s) THEN StartStripe(s, id)
    ELSE StartDirect(s)

\* The mandate saga is submitted before the status is looked at.
SvcComplete(s) ==
    IF ~verifyMandate(s) THEN Error
    ELSE LET t == IF IntentPaid(s) THEN Complete(WithIntentStatus(s)) ELSE None
         IN  Charging(Announcing(t, 1), s)

SvcCancel(s) == Announcing(Cancel(s), 1)

SvcConfirmStripePayment(s, id) ==
    IF s.StripeSessionID = id /\ s.Status = RequiresEscalation
    THEN Outcome(Complete(s), 1)
    ELSE Error

SvcCreateStripePaymentIntent(s, id) ==
    IF s.Status = Incomplete /\ UsesStripe(s) /\ id # None
    THEN [Outcome(SetStripePaymentIntentID(s, id), 0) EXCEPT
            !.stripe = NewStripeObject(id, "intent", s.GrandTotal)]
    ELSE Error

\* id is the object Stripe creates when the method asks for one.
Method(c, s, id) ==
    CASE c.op = "SetShippingAddress" -> Announcing(SetShippingAddress(s), 0)
      [] c.op = "SetBillingAddress" -> Announcing(SetBillingAddress(s), 0)
      [] c.op = "SelectShippingOption" -> Announcing(SelectShippingOption(s, c.cost), 0)
      [] c.op = "SelectPaymentHandler" -> Announcing(SelectPaymentHandler(s, c.handler), 0)
      [] c.op = "SelectMandate" -> Announcing(SelectMandate(s, c.mandate), 0)
      [] c.op = "SubmitPaymentToken" -> Announcing(SubmitPaymentToken(s), 0)
      [] c.op = "CalculateTax" -> SvcCalculateTax(s)
      [] c.op = "MarkReady" -> SvcMarkReady(s)
      [] c.op = "StartComplete" -> SvcStartComplete(s, c.url, id)
      [] c.op = "Complete" -> SvcComplete(s)
      [] c.op = "Cancel" -> SvcCancel(s)
      [] c.op = "ConfirmStripePayment" -> SvcConfirmStripePayment(s, c.stripe)
      [] c.op = "CreateStripePaymentIntent" -> SvcCreateStripePaymentIntent(s, id)
      [] OTHER -> Error

-----------------------------------------------------------------------------
(* The steps of a request *)

Steps == {"idle", "call", "select", "fill", "apply", "save", "del", "publish"}

Idle == [pc |-> "idle", calls |-> <<>>, ses |-> None, announce |-> 0]

Init ==
    /\ row \in InitialRows
    /\ cache = None
    /\ req = [r \in Requests |-> Idle]
    /\ stripe = [i \in StripeIds |-> [kind |-> "none", amount |-> 0, paid |-> FALSE]]
    /\ sagas = {}
    /\ published = {}
    /\ committed = IF row = None THEN {} ELSE {row.Status}
    /\ arrived = 0

\* An MCP create draws a fresh id, a REST create may name one in use.
Admissible(script) ==
    script[1].op = "Create" =>
        \/ ClientChosenIds
        \/ row = None /\ \A q \in Requests : req[q].pc = "idle"

Arrive(r) ==
    /\ req[r].pc = "idle"
    /\ arrived < MaxRequests
    /\ \E script \in Scripts :
          /\ Admissible(script)
          /\ req' = [req EXCEPT ![r] = [Idle EXCEPT !.pc = "call", !.calls = script]]
    /\ arrived' = arrived + 1
    /\ UNCHANGED <<row, cache, stripe, sagas, published, committed>>

\* The request goes on to its next call, or answers.
Return(r) ==
    LET rest == Tail(req[r].calls)
    IN  req' = [req EXCEPT ![r] =
                  IF rest = <<>> THEN Idle
                  ELSE [Idle EXCEPT !.pc = "call", !.calls = rest]]

\* An error, a cancelled context or a crash: nothing more happens.
End(r) == req' = [req EXCEPT ![r] = Idle]

CreateCheckout(r) ==
    /\ req[r].pc = "call"
    /\ req[r].calls[1].op = "Create"
    /\ LET c == req[r].calls[1]
       IN  req' = [req EXCEPT ![r].pc = "save",
                              ![r].ses = NewCheckoutSession(c.user, c.total)]
    /\ UNCHANGED <<row, cache, stripe, sagas, published, committed, arrived>>

\* readCache: an error counts as a miss.
ReadCache(r) ==
    /\ req[r].pc = "call"
    /\ req[r].calls[1].op # "Create"
    /\ \/ /\ cache # None
          /\ req' = [req EXCEPT ![r].pc = "apply", ![r].ses = cache]
       \/ req' = [req EXCEPT ![r].pc = "select"]
    /\ UNCHANGED <<row, cache, stripe, sagas, published, committed, arrived>>

SelectRow(r) ==
    /\ req[r].pc = "select"
    /\ IF row = None THEN End(r)
       ELSE req' = [req EXCEPT ![r].pc = "fill", ![r].ses = row]
    /\ UNCHANGED <<row, cache, stripe, sagas, published, committed, arrived>>

\* writeCache: the SELECT's result, however old it is by now; errors are ignored.
FillCache(r) ==
    /\ req[r].pc = "fill"
    /\ cache' \in {req[r].ses, cache}
    /\ req' = [req EXCEPT ![r].pc = "apply"]
    /\ UNCHANGED <<row, stripe, sagas, published, committed, arrived>>

\* Loading was all: a Get, or the owner check of a handler.
CheckOwner(r) ==
    /\ req[r].pc = "apply"
    /\ req[r].calls[1].op \in {"Get", "Owner"}
    /\ IF req[r].calls[1].op = "Owner" /\ req[r].calls[1].user # req[r].ses.UserID
       THEN End(r) ELSE Return(r)
    /\ UNCHANGED <<row, cache, stripe, sagas, published, committed, arrived>>

FreshStripeIds == {i \in StripeIds : stripe[i].kind = "none"}

\* Mutation: the error of the method is not looked at.
ApplyIgnoringErrors(r) ==
    /\ req[r].pc = "apply"
    /\ req[r].calls[1].op \notin {"Get", "Owner"}
    /\ \E id \in FreshStripeIds \cup {None} :
          LET o == Method(req[r].calls[1], req[r].ses, id)
          IN  /\ stripe' = o.stripe
              /\ sagas' = o.sagas
              /\ req' = [req EXCEPT ![r].pc = "save", ![r].ses = o.ses,
                                     ![r].announce = o.announce]
    /\ UNCHANGED <<row, cache, published, committed, arrived>>

Apply(r) ==
    /\ req[r].pc = "apply"
    /\ req[r].calls[1].op \notin {"Get", "Owner"}
    /\ \E id \in FreshStripeIds \cup {None} :
          LET o == Method(req[r].calls[1], req[r].ses, id)
          IN  /\ stripe' = o.stripe
              /\ sagas' = o.sagas
              /\ IF o.ses = None THEN End(r)
                 ELSE req' = [req EXCEPT ![r].pc = "save", ![r].ses = o.ses,
                                         ![r].announce = o.announce]
    /\ UNCHANGED <<row, cache, published, committed, arrived>>

\* The upsert replaces every column, whatever the row holds by now.
SaveRow(r) ==
    /\ req[r].pc = "save"
    /\ row' = req[r].ses
    /\ committed' = committed \cup {req[r].ses.Status}
    /\ req' = [req EXCEPT ![r].pc = "del"]
    /\ UNCHANGED <<cache, stripe, sagas, published, arrived>>

\* Mutation: the key is not deleted.
invalidateNothing(r) ==
    /\ req[r].pc = "del"
    /\ req' = [req EXCEPT ![r].pc = "publish"]
    /\ UNCHANGED <<row, cache, stripe, sagas, published, committed, arrived>>

invalidateCache(r) ==
    /\ req[r].pc = "del"
    /\ cache' \in {None} \cup (IF CacheFaults THEN {cache} ELSE {})
    /\ req' = [req EXCEPT ![r].pc = "publish"]
    /\ UNCHANGED <<row, stripe, sagas, published, committed, arrived>>

\* Mutation: events are published before the save.
PublishEarly(r) ==
    /\ req[r].pc \in {"save", "publish"}
    /\ req[r].announce > 0
    /\ published' = published \cup {req[r].ses.Status}
    /\ req' = [req EXCEPT ![r].announce = @ - 1]
    /\ UNCHANGED <<row, cache, stripe, sagas, committed, arrived>>

\* publishEvents: every event announces the session as it is now; a publish
\* that fails is logged and forgotten.
Publish(r) ==
    /\ req[r].pc = "publish"
    /\ req[r].announce > 0
    /\ published' \in {published \cup {req[r].ses.Status}, published}
    /\ req' = [req EXCEPT ![r].announce = @ - 1]
    /\ UNCHANGED <<row, cache, stripe, sagas, committed, arrived>>

Answer(r) ==
    /\ req[r].pc = "publish"
    /\ req[r].announce = 0
    /\ Return(r)
    /\ UNCHANGED <<row, cache, stripe, sagas, published, committed, arrived>>

\* The context is cancelled, a dependency fails or the server dies.
Abort(r) ==
    /\ req[r].pc # "idle"
    /\ req[r].pc = "del" => CacheFaults
    /\ End(r)
    /\ UNCHANGED <<row, cache, stripe, sagas, published, committed, arrived>>

\* The 15 minute TTL.
ExpireCache ==
    /\ cache # None
    /\ cache' = None
    /\ UNCHANGED <<row, req, stripe, sagas, published, committed, arrived>>

\* The customer pays on Stripe's side.
PayStripe(i) ==
    /\ stripe[i].kind # "none"
    /\ ~stripe[i].paid
    /\ stripe' = [stripe EXCEPT ![i].paid = TRUE]
    /\ UNCHANGED <<row, cache, req, sagas, published, committed, arrived>>

Step(r) ==
    \/ Arrive(r) \/ CreateCheckout(r) \/ ReadCache(r) \/ SelectRow(r)
    \/ FillCache(r) \/ CheckOwner(r) \/ Apply(r) \/ SaveRow(r)
    \/ invalidateCache(r) \/ Publish(r) \/ Answer(r) \/ Abort(r)

Next ==
    \/ \E r \in Requests : Step(r)
    \/ ExpireCache
    \/ \E i \in StripeIds : PayStripe(i)

Spec == Init /\ [][Next]_vars

-----------------------------------------------------------------------------
(* Properties *)

StripeObject == [kind: {"none", "session", "intent"}, amount: Int, paid: BOOLEAN]

Loaded == {"fill", "apply", "save", "del", "publish"}

Request ==
    [pc: Steps, calls: Seq(Call), ses: Session \cup {None}, announce: 0..2]

\* Every variable keeps its type: the row, the cached copy and the copies in
\* flight are sessions, a request under way has a call left to serve.
TypeOK ==
    /\ row \in Session \cup {None}
    /\ cache \in Session \cup {None}
    /\ req \in [Requests -> Request]
    /\ \A r \in Requests : req[r].pc # "idle" => req[r].calls # <<>>
    /\ \A r \in Requests : req[r].pc \in Loaded => req[r].ses # None
    /\ stripe \in [StripeIds -> StripeObject]
    /\ sagas \subseteq Mandates
    /\ published \subseteq Status
    /\ committed \subseteq Status
    /\ arrived \in Nat

Advanced == {ReadyForComplete, RequiresEscalation, Completed}

\* A stored checkout past "incomplete" has both addresses, a shipping option
\* and a payment handler: concurrent whole-row saves may lose a choice, but
\* never one of a checkout that was advanced because of it.
AdvancedIsFilledIn ==
    row # None /\ row.Status \in Advanced => AllChosen(row)

\* A stored checkout that was advanced charges its cart, its chosen shipping
\* option and its tax: no interleaving of setters, tax calculation and saves
\* stores a total computed from another copy.
TotalsAddUp ==
    row # None /\ row.Status \in Advanced =>
        row.GrandTotal = row.CartTotal + row.ShippingOption + row.TaxAmount

\* A checkout stored as completed with a Stripe payment intent has been paid at
\* Stripe, on every path to Complete (direct, escalated, webhook, ECP).
IntentSettled ==
    row # None /\ row.Status = Completed /\ UsesIntent(row) =>
        stripe[row.StripePaymentIntentID].paid

\* A checkout stored as completed with an AP2 mandate is within that mandate:
\* its owner's, large enough for the stored total, and its saga submitted.
MandateHonoured ==
    row # None /\ row.Status = Completed /\ UsesMandate(row) =>
        /\ MandateCovers(row)
        /\ row.MandateID \in sagas

\* Nothing is announced on checkout.updated that was not stored before.
PublishedWasCommitted == published \subseteq committed

\* Between a save and its DEL aside, Redis holds the row or nothing.  (One
\* request at a time and a Redis that answers.)
CacheCoherent ==
    (\A r \in Requests : req[r].pc # "del") => cache \in {None, row}

\* The stored status walks the state machine of the roadmap.
Lifecycle == INSTANCE CheckoutLifecycle WITH
    status <- IF row = None THEN "none" ELSE row.Status

ImplementsLifecycle == Lifecycle!Spec

=============================================================================
