--------------------------- MODULE CheckoutProofs ---------------------------
(***************************************************************************)
(* Checkout's invariants for every set of requests, users, mandates and    *)
(* Stripe objects and any number of arriving requests.                     *)
(*                                                                         *)
(* Every save replaces the whole row by a copy a request holds, and every  *)
(* cache fill stores such a copy.  So an invariant of the row is inductive *)
(* once it is stated of EVERY copy of the session: the row, the cached one *)
(* and those in flight.  CopyOK is that statement; it adds what ties the   *)
(* two Stripe modes apart (a session with a Stripe Checkout page has no    *)
(* payment intent and pays by Stripe), without which a webhook could       *)
(* complete a checkout whose intent is open.                               *)
(***************************************************************************)
EXTENDS Checkout, TLAPS

\* st and sg are the Stripe objects and the submitted sagas.
CopyOK(s, st, sg) ==
    /\ s.Status \in Advanced => AllChosen(s)
    /\ s.Subtotal = s.CartTotal
    /\ s.TaxAmount = 0
    /\ s.ShippingOption # None =>
          /\ s.ShippingCost = s.ShippingOption
          /\ s.GrandTotal = s.Subtotal + s.ShippingCost + s.TaxAmount
    /\ s.StripeSessionID # None =>
          /\ s.Status # Incomplete
          /\ s.StripePaymentIntentID = None
          /\ s.PaymentHandler = "stripe"
    /\ s.Status = Completed /\ UsesIntent(s) => st[s.StripePaymentIntentID].paid
    /\ s.Status = Completed /\ UsesMandate(s) =>
          MandateCovers(s) /\ s.MandateID \in sg

\* Only an object that exists is paid.
StripeOK(st) == \A i \in StripeIds : st[i].paid => st[i].kind # "none"

\* What one state of the world may turn into: payments and sagas stay.
Grows(st, sg, st2, sg2) ==
    /\ \A i \in StripeIds : st[i].paid => st2[i].paid
    /\ sg \subseteq sg2

World ==
    /\ stripe \in [StripeIds -> StripeObject]
    /\ StripeOK(stripe)
    /\ sagas \subseteq Mandates

StoredOK(s, st, sg) ==
    s \in Session \cup {None} /\ (s # None => CopyOK(s, st, sg))

\* A request's copy is sound, and was stored (cm: the statuses the row has
\* had) before it is announced.
RequestOK(q, st, sg, cm) ==
    /\ q \in Request
    /\ q.pc # "idle" => q.calls # <<>>
    /\ q.pc \in Loaded => q.ses # None
    /\ q.ses # None => CopyOK(q.ses, st, sg)
    /\ q.pc \in {"del", "publish"} => q.ses.Status \in cm

RequestsOK ==
    /\ req \in [Requests -> Request]
    /\ \A r \in Requests : RequestOK(req[r], stripe, sagas, committed)

IInv ==
    /\ World
    /\ StoredOK(row, stripe, sagas)
    /\ StoredOK(cache, stripe, sagas)
    /\ RequestsOK
    /\ committed \subseteq Status
    /\ published \subseteq committed
    /\ arrived \in Nat

-----------------------------------------------------------------------------
(* The aggregate and the service keep a copy sound *)

\* A copy stays sound when payments and sagas are added.
LEMMA CopyGrows ==
    ASSUME NEW s \in Session, NEW st, NEW sg, NEW st2, NEW sg2,
           CopyOK(s, st, sg), Grows(st, sg, st2, sg2)
    PROVE  CopyOK(s, st2, sg2)
BY DEF CopyOK, Grows, Session, UsesIntent, UsesStripe, UsesMandate, MandateCovers

\* What a service method may leave behind, from a sound copy.
GoodOutcome(o) ==
    /\ o.ses \in Session \cup {None}
    /\ o.announce \in 0..2
    /\ o.stripe \in [StripeIds -> StripeObject]
    /\ StripeOK(o.stripe)
    /\ o.sagas \subseteq Mandates
    /\ Grows(stripe, sagas, o.stripe, o.sagas)
    /\ o.ses # None => CopyOK(o.ses, o.stripe, o.sagas)

\* An error saves and creates nothing.
LEMMA GoodError == ASSUME World PROVE GoodOutcome(Error)
BY DEF World, GoodOutcome, Error, Outcome, Grows

\* Saving a sound copy, with payments and sagas as they are.
LEMMA GoodSave ==
    ASSUME World, NEW t \in Session \cup {None}, NEW n \in 0..2,
           t # None => CopyOK(t, stripe, sagas)
    PROVE  GoodOutcome(Announcing(t, n)) /\ GoodOutcome(Outcome(t, n))
BY GoodError DEF World, GoodOutcome, Announcing, Outcome, Grows

Sound(t) == t # None => t \in Session /\ CopyOK(t, stripe, sagas)

\* recalculateTotal changes the grand total, to the sum, and nothing else.
LEMMA Recalculated ==
    ASSUME NEW t \in Session
    PROVE  LET q == recalculateTotal(t)
           IN  /\ q \in Session
               /\ q.GrandTotal = t.Subtotal + t.ShippingCost + t.TaxAmount
               /\ q = [t EXCEPT !.GrandTotal = q.GrandTotal]
<1> DEFINE g == t.Subtotal + t.ShippingCost + t.TaxAmount
<1>1. t.Subtotal \in Int /\ t.ShippingCost \in Int /\ t.TaxAmount \in Int
  BY DEF Session
<1>2. g \in Int
  BY <1>1
<1> HIDE DEF g
<1>3. recalculateTotal(t) = [t EXCEPT !.GrandTotal = g]
  BY DEF recalculateTotal, g
<1>4. /\ [t EXCEPT !.GrandTotal = g] \in Session
      /\ [t EXCEPT !.GrandTotal = g].GrandTotal = g
  BY <1>2 DEF Session
<1> QED BY <1>3, <1>4 DEF g

\* The setters of an incomplete checkout.
LEMMA GoodSetters ==
    ASSUME World, NEW s \in Session, CopyOK(s, stripe, sagas)
    PROVE  /\ Sound(SetShippingAddress(s))
           /\ Sound(SetBillingAddress(s))
           /\ Sound(SubmitPaymentToken(s))
           /\ \A cost \in Costs : Sound(SelectShippingOption(s, cost))
           /\ \A handler \in Handlers : Sound(SelectPaymentHandler(s, handler))
           /\ \A mandate \in Mandates : Sound(SelectMandate(s, mandate))
<1> USE AmountsAssumption, NoneAssumption DEF Sound, CopyOK, Session,
        Incomplete, Completed, Advanced,
        ReadyForComplete, RequiresEscalation, Cancelled, Status
<1>1. Sound(SetShippingAddress(s))
  BY DEF SetShippingAddress, AllChosen
<1>2. Sound(SetBillingAddress(s))
  BY DEF SetBillingAddress, AllChosen
<1>3. ASSUME NEW cost \in Costs PROVE Sound(SelectShippingOption(s, cost))
  <2> DEFINE t == [s EXCEPT !.ShippingOption = cost, !.ShippingCost = cost]
  <2>1. /\ t \in Session
        /\ t.ShippingOption = cost /\ t.ShippingCost = cost
        /\ t.Subtotal = s.Subtotal /\ t.CartTotal = s.CartTotal
        /\ t.TaxAmount = s.TaxAmount /\ t.Status = s.Status
        /\ t.StripeSessionID = s.StripeSessionID
    OBVIOUS
  <2> HIDE DEF t
  <2>2. s.Status = Incomplete => Sound(recalculateTotal(t))
    <3> DEFINE q == recalculateTotal(t)
    <3>1. /\ q \in Session
          /\ q.GrandTotal = t.Subtotal + t.ShippingCost + t.TaxAmount
          /\ q = [t EXCEPT !.GrandTotal = q.GrandTotal]
      BY <2>1, Recalculated
    <3> HIDE DEF q
    <3>2. /\ q.Status = t.Status /\ q.CartTotal = t.CartTotal
          /\ q.Subtotal = t.Subtotal /\ q.ShippingCost = t.ShippingCost
          /\ q.TaxAmount = t.TaxAmount /\ q.ShippingOption = t.ShippingOption
          /\ q.StripeSessionID = t.StripeSessionID
      BY <2>1, <3>1
    <3>3. s.Status = Incomplete => CopyOK(q, stripe, sagas)
      BY <2>1, <3>1, <3>2
    <3> QED BY <3>1, <3>3 DEF q
  <2> QED BY <2>2 DEF SelectShippingOption, t
<1>4. ASSUME NEW handler \in Handlers PROVE Sound(SelectPaymentHandler(s, handler))
  BY DEF SelectPaymentHandler, Handlers
<1>5. ASSUME NEW mandate \in Mandates PROVE Sound(SelectMandate(s, mandate))
  BY DEF SelectMandate
<1>6. Sound(SubmitPaymentToken(s))
  BY DEF SubmitPaymentToken
<1> QED BY <1>1, <1>2, <1>3, <1>4, <1>5, <1>6

\* DefaultTaxService's zero tax leaves the total of an advanced checkout alone.
LEMMA GoodTax ==
    ASSUME World, NEW s \in Session, CopyOK(s, stripe, sagas)
    PROVE  Sound(SetTaxAmount(s, 0))
<1> DEFINE t == [s EXCEPT !.TaxAmount = 0]
           q == recalculateTotal(t)
<1>1. t = s
  BY DEF Session, CopyOK
<1>2. /\ q \in Session
      /\ q.GrandTotal = s.Subtotal + s.ShippingCost + s.TaxAmount
      /\ q = [s EXCEPT !.GrandTotal = q.GrandTotal]
  BY <1>1, Recalculated
<1> HIDE DEF q, t
<1>3. /\ q.Status = s.Status /\ q.CartTotal = s.CartTotal
      /\ q.Subtotal = s.Subtotal /\ q.ShippingCost = s.ShippingCost
      /\ q.TaxAmount = s.TaxAmount /\ q.ShippingOption = s.ShippingOption
      /\ q.StripeSessionID = s.StripeSessionID
  BY <1>2 DEF Session
<1>4. CASE s.ShippingOption = None
  <2>1. s.Status \notin Advanced
    BY <1>4 DEF CopyOK, AllChosen
  <2> QED BY <1>1, <1>2, <1>3, <1>4, <2>1
          DEF SetTaxAmount, q, t, Sound, CopyOK, Advanced, AllChosen, Session
<1>5. CASE s.ShippingOption # None
  <2>1. q.GrandTotal = s.GrandTotal
    BY <1>2, <1>5 DEF CopyOK
  <2>2. q = s
    BY <1>2, <2>1 DEF Session
  <2> QED BY <2>2 DEF SetTaxAmount, q, t, Sound
<1> QED BY <1>4, <1>5

\* Pricing the snapshot again changes no total.
LEMMA GoodMarkReady ==
    ASSUME World, NEW s \in Session, CopyOK(s, stripe, sagas)
    PROVE  GoodOutcome(SvcMarkReady(s))
<1>1. CASE MarkReady(s) = None
  BY <1>1, GoodError DEF SvcMarkReady
<1>2. CASE MarkReady(s) # None
  <2> DEFINE t == [s EXCEPT !.Status = ReadyForComplete]
             q == recalculateTotal(t)
  <2>1. MarkReady(s) = t /\ AllChosen(s)
    BY <1>2 DEF MarkReady
  <2>2. /\ t \in Session /\ [t EXCEPT !.Subtotal = t.CartTotal] = t
        /\ t.Subtotal = s.Subtotal /\ t.ShippingCost = s.ShippingCost
        /\ t.TaxAmount = s.TaxAmount /\ t.GrandTotal = s.GrandTotal
    <3>1. /\ t \in Session
          /\ t.Subtotal = s.Subtotal /\ t.ShippingCost = s.ShippingCost
          /\ t.TaxAmount = s.TaxAmount /\ t.GrandTotal = s.GrandTotal
          /\ t.CartTotal = s.CartTotal
      BY DEF Session, Status
    <3>2. t.Subtotal = t.CartTotal
      BY <3>1 DEF CopyOK
    <3> HIDE DEF t
    <3> QED BY <3>1, <3>2 DEF Session
  <2>3. q = t
    <3>1. q = [t EXCEPT !.GrandTotal = q.GrandTotal] /\ q.GrandTotal = t.GrandTotal
      BY <2>1, <2>2, Recalculated DEF AllChosen, CopyOK
    <3> HIDE DEF q
    <3> QED BY <2>2, <3>1 DEF Session
  <2>4. CopyOK(t, stripe, sagas)
    BY <1>2 DEF MarkReady, CopyOK, AllChosen, Session, ReadyForComplete, Completed, Incomplete
  <2>5. SvcMarkReady(s) = Outcome(t, 1)
    BY <1>2, <2>1, <2>2, <2>3 DEF SvcMarkReady
  <2> HIDE DEF t
  <2> QED BY <2>2, <2>4, <2>5, GoodSave
<1> QED BY <1>1, <1>2

\* Cancel keeps a sound copy sound.
LEMMA GoodCancel ==
    ASSUME World, NEW s \in Session, CopyOK(s, stripe, sagas)
    PROVE  GoodOutcome(SvcCancel(s))
<1>1. Sound(Cancel(s))
  BY DEF Cancel, Sound, CopyOK, Session, Status, Advanced, Completed, Cancelled,
         Incomplete, ReadyForComplete, RequiresEscalation
<1> QED BY <1>1, GoodSave DEF SvcCancel, Sound

\* A mandate saga that is submitted is a mandate's.
LEMMA GoodSubmitted ==
    ASSUME World, NEW s \in Session
    PROVE  /\ Submitted(s) \subseteq Mandates
           /\ sagas \subseteq Submitted(s)
           /\ UsesMandate(s) => s.MandateID \in Submitted(s)
           /\ Grows(stripe, sagas, stripe, Submitted(s))
BY DEF World, Submitted, UsesMandate, Grows, Session

\* An outcome that submits the mandate's saga along with the save.
LEMMA GoodSubmission ==
    ASSUME World, NEW s \in Session, NEW t \in Session \cup {None}, NEW n \in 0..2,
           t # None => CopyOK(t, stripe, Submitted(s))
    PROVE  GoodOutcome(Charging(Outcome(t, n), s))
BY GoodSubmitted DEF World, GoodOutcome, Outcome, Charging

\* Completing a copy whose payment was checked.
LEMMA GoodComplete ==
    ASSUME World, NEW s \in Session, CopyOK(s, stripe, sagas),
           s.Status \in {ReadyForComplete, RequiresEscalation},
           IntentPaid(s), verifyMandate(s)
    PROVE  /\ Complete(WithIntentStatus(s)) \in Session
           /\ CopyOK(Complete(WithIntentStatus(s)), stripe, Submitted(s))
<1> DEFINE w == WithIntentStatus(s)
           t == [w EXCEPT !.Status = Completed, !.CompletedAt = TRUE]
<1>1. /\ w \in Session /\ w.Status = s.Status
      /\ w = [s EXCEPT !.StripePaymentStatus = w.StripePaymentStatus]
  BY DEF WithIntentStatus, SetStripePaymentStatus, Session
<1> HIDE DEF w
<1>2. /\ t \in Session /\ t.Status = Completed /\ Complete(w) = t
  BY <1>1 DEF Complete, Session, Status
<1>3. /\ UsesIntent(t) <=> UsesIntent(s)
      /\ UsesMandate(t) <=> UsesMandate(s)
      /\ MandateCovers(t) <=> MandateCovers(s)
      /\ AllChosen(t) <=> AllChosen(s)
      /\ t.MandateID = s.MandateID
      /\ t.StripePaymentIntentID = s.StripePaymentIntentID
  BY <1>1 DEF UsesIntent, UsesStripe, UsesMandate, MandateCovers, AllChosen, Session
<1>4. UsesIntent(s) => stripe[s.StripePaymentIntentID].paid
  BY DEF IntentPaid
<1>5. UsesMandate(s) => MandateCovers(s) /\ s.MandateID \in Submitted(s)
  BY GoodSubmitted DEF verifyMandate
<1>6. CopyOK(t, stripe, Submitted(s))
  <2>1. AllChosen(s) /\ s.Status # Incomplete
    BY DEF CopyOK, Advanced, ReadyForComplete, RequiresEscalation, Incomplete
  <2>2. /\ t.Subtotal = s.Subtotal /\ t.CartTotal = s.CartTotal
        /\ t.TaxAmount = s.TaxAmount /\ t.ShippingOption = s.ShippingOption
        /\ t.ShippingCost = s.ShippingCost /\ t.GrandTotal = s.GrandTotal
        /\ t.StripeSessionID = s.StripeSessionID
        /\ t.PaymentHandler = s.PaymentHandler
    BY <1>1 DEF Session
  <2> HIDE DEF t
  <2> QED BY <1>2, <1>3, <1>4, <1>5, <2>1, <2>2 DEF CopyOK, Completed, Incomplete
<1> QED BY <1>2, <1>6 DEF w

\* So does StartComplete when it hands over to the merchant's page,
LEMMA GoodEscalate ==
    ASSUME World, NEW s \in Session, CopyOK(s, stripe, sagas),
           s.Status = Incomplete, AllChosen(s)
    PROVE  GoodOutcome(StartEscalate(s))
<1> DEFINE t == [s EXCEPT !.Status = RequiresEscalation, !.ContinueURL = TRUE]
<1>1. t \in Session /\ Escalate(s) = t /\ t.Status = RequiresEscalation
  BY DEF Escalate, Session, Status
<1>2. CopyOK(t, stripe, Submitted(s))
  BY DEF CopyOK, AllChosen, Session, Incomplete, RequiresEscalation, Completed
<1> HIDE DEF t
<1>3. CASE verifyMandate(s)
  BY <1>1, <1>2, <1>3, GoodSubmission DEF StartEscalate
<1>4. CASE ~verifyMandate(s)
  BY <1>4, GoodError DEF StartEscalate
<1> QED BY <1>3, <1>4

\* A new object at Stripe takes no payment away.
LEMMA GoodStripeObject ==
    ASSUME World, NEW id \in FreshStripeIds,
           NEW kind \in {"session", "intent"}, NEW amount \in Int
    PROVE  LET st == NewStripeObject(id, kind, amount)
           IN  /\ st \in [StripeIds -> StripeObject]
               /\ StripeOK(st)
               /\ Grows(stripe, sagas, st, sagas)
BY DEF World, FreshStripeIds, NewStripeObject, StripeObject, StripeOK, Grows

\* when it opens a Stripe session,
LEMMA GoodStartStripe ==
    ASSUME World, NEW s \in Session, CopyOK(s, stripe, sagas),
           NEW id \in FreshStripeIds \cup {None},
           s.Status = Incomplete, AllChosen(s), UsesStripe(s), ~UsesIntent(s)
    PROVE  GoodOutcome(StartStripe(s, id))
<1>1. CASE id = None
  BY <1>1, GoodError DEF StartStripe
<1>2. CASE id # None
  <2> DEFINE st == NewStripeObject(id, "session", s.CartTotal)
             t == [[s EXCEPT !.StripeSessionID = id]
                      EXCEPT !.Status = RequiresEscalation, !.ContinueURL = TRUE]
  <2>1. id \in FreshStripeIds /\ id \in StripeIds /\ s.CartTotal \in Int
    BY <1>2 DEF FreshStripeIds, Session
  <2>2. /\ st \in [StripeIds -> StripeObject]
        /\ StripeOK(st)
        /\ Grows(stripe, sagas, st, sagas)
    BY <2>1, GoodStripeObject
  <2> HIDE DEF st
  <2>3. t \in Session /\ Escalate(SetStripeSessionID(s, id)) = t
    BY <2>1 DEF Escalate, SetStripeSessionID, Session, Status
  <2>4. CopyOK(t, st, sagas)
    BY DEF CopyOK, AllChosen, Session, Incomplete, RequiresEscalation, Completed,
           UsesStripe, UsesIntent
  <2>5. StartStripe(s, id) = [Outcome(t, 1) EXCEPT !.stripe = st]
    BY <1>2, <2>3 DEF StartStripe, st
  <2> HIDE DEF t
  <2> QED BY <2>2, <2>3, <2>4, <2>5 DEF GoodOutcome, Outcome, World
<1> QED BY <1>1, <1>2

\* when it completes at once,
LEMMA GoodStartDirect ==
    ASSUME World, NEW s \in Session, CopyOK(s, stripe, sagas),
           s.Status = Incomplete, AllChosen(s)
    PROVE  GoodOutcome(StartDirect(s))
<1>1. CASE ~(IntentPaid(s) /\ verifyMandate(s))
  BY <1>1, GoodError DEF StartDirect
<1>2. CASE IntentPaid(s) /\ verifyMandate(s)
  <2> DEFINE m == [s EXCEPT !.Status = ReadyForComplete]
  <2>1. m \in Session /\ m.Status = ReadyForComplete
    BY DEF Session, Status
  <2>2. CopyOK(m, stripe, sagas)
    BY DEF CopyOK, AllChosen, Session, Incomplete, ReadyForComplete, Completed
  <2>3. /\ IntentPaid(m) /\ verifyMandate(m) /\ Submitted(m) = Submitted(s)
        /\ UsesIntent(m) <=> UsesIntent(s)
    BY <1>2 DEF IntentPaid, verifyMandate, Submitted, UsesIntent, UsesStripe,
                UsesMandate, MandateCovers, Session
  <2>4. MarkReady(WithIntentStatus(s)) = WithIntentStatus(m)
    <3>1. CASE UsesIntent(s)
      BY <2>3, <3>1 DEF MarkReady, WithIntentStatus, SetStripePaymentStatus, AllChosen, Session
    <3>2. CASE ~UsesIntent(s)
      BY <2>3, <3>2 DEF MarkReady, WithIntentStatus
    <3> QED BY <3>1, <3>2
  <2> HIDE DEF m
  <2>5. /\ Complete(WithIntentStatus(m)) \in Session
        /\ CopyOK(Complete(WithIntentStatus(m)), stripe, Submitted(m))
    BY <2>1, <2>2, <2>3, GoodComplete
  <2>6. StartDirect(s) =
            Charging(Outcome(Complete(WithIntentStatus(m)), 2), s)
    BY <1>2, <2>4 DEF StartDirect
  <2> QED BY <2>3, <2>5, <2>6, GoodSubmission
<1> QED BY <1>1, <1>2

\* and hence whichever it does.
LEMMA GoodStartComplete ==
    ASSUME World, NEW s \in Session, CopyOK(s, stripe, sagas),
           NEW url \in BOOLEAN, NEW id \in FreshStripeIds \cup {None}
    PROVE  GoodOutcome(SvcStartComplete(s, url, id))
<1>1. CASE s.Status # Incomplete \/ ~AllChosen(s)
  BY <1>1, GoodError DEF SvcStartComplete
<1>2. CASE s.Status = Incomplete /\ AllChosen(s)
  BY <1>2, GoodEscalate, GoodStartStripe, GoodStartDirect DEF SvcStartComplete
<1> QED BY <1>1, <1>2

\* Complete asks for the paid intent or the mandate before it completes.
LEMMA GoodSvcComplete ==
    ASSUME World, NEW s \in Session, CopyOK(s, stripe, sagas)
    PROVE  GoodOutcome(SvcComplete(s))
<1> DEFINE t == IF IntentPaid(s) THEN Complete(WithIntentStatus(s)) ELSE None
<1>1. CASE ~verifyMandate(s)
  BY <1>1, GoodError DEF SvcComplete
<1>2. CASE verifyMandate(s)
  <2>1. WithIntentStatus(s).Status = s.Status
    BY DEF WithIntentStatus, SetStripePaymentStatus, Session
  <2>2. CASE IntentPaid(s) /\ s.Status \in {ReadyForComplete, RequiresEscalation}
    <3>1. t \in Session /\ CopyOK(t, stripe, Submitted(s))
      BY <1>2, <2>2, GoodComplete
    <3>2. SvcComplete(s) = Charging(Outcome(t, 1), s)
      BY <1>2, <3>1, NoneIsNoSession DEF SvcComplete, Announcing
    <3> HIDE DEF t
    <3> QED BY <3>1, <3>2, GoodSubmission
  <2>3. CASE ~(IntentPaid(s) /\ s.Status \in {ReadyForComplete, RequiresEscalation})
    <3>1. t = None
      BY <2>1, <2>3 DEF Complete
    <3>2. SvcComplete(s) = Charging(Outcome(None, 0), s)
      BY <1>2, <3>1 DEF SvcComplete, Announcing, Error
    <3> QED BY <3>2, GoodSubmission
  <2> QED BY <2>2, <2>3
<1> QED BY <1>1, <1>2

\* The webhook completes no checkout that pays by intent or by mandate.
LEMMA GoodConfirm ==
    ASSUME World, NEW s \in Session, CopyOK(s, stripe, sagas), NEW id \in StripeIds
    PROVE  GoodOutcome(SvcConfirmStripePayment(s, id))
<1>1. CASE s.StripeSessionID = id /\ s.Status = RequiresEscalation
  <2>1. ~UsesIntent(s) /\ ~UsesMandate(s)
    BY <1>1, NoneAssumption DEF CopyOK, UsesIntent, UsesMandate
  <2>2. /\ IntentPaid(s) /\ verifyMandate(s)
        /\ WithIntentStatus(s) = s /\ Submitted(s) = sagas
    BY <2>1 DEF IntentPaid, verifyMandate, WithIntentStatus, Submitted
  <2>3. Complete(s) \in Session /\ CopyOK(Complete(s), stripe, sagas)
    BY <1>1, <2>2, GoodComplete
  <2> QED BY <1>1, <2>3, GoodSave DEF SvcConfirmStripePayment
<1>2. CASE ~(s.StripeSessionID = id /\ s.Status = RequiresEscalation)
  BY <1>2, GoodError DEF SvcConfirmStripePayment
<1> QED BY <1>1, <1>2

\* A new intent is unpaid, and the copy that names it is incomplete.
LEMMA GoodCreateIntent ==
    ASSUME World, NEW s \in Session, CopyOK(s, stripe, sagas),
           NEW id \in FreshStripeIds \cup {None}
    PROVE  GoodOutcome(SvcCreateStripePaymentIntent(s, id))
<1>1. CASE s.Status = Incomplete /\ UsesStripe(s) /\ id # None
  <2> DEFINE st == NewStripeObject(id, "intent", s.GrandTotal)
             t == [s EXCEPT !.StripePaymentIntentID = id]
  <2>1. id \in FreshStripeIds /\ id \in StripeIds /\ s.GrandTotal \in Int
    BY <1>1 DEF FreshStripeIds, Session
  <2>2. /\ st \in [StripeIds -> StripeObject]
        /\ StripeOK(st)
        /\ Grows(stripe, sagas, st, sagas)
    BY <2>1, GoodStripeObject
  <2> HIDE DEF st
  <2>3. t \in Session /\ SetStripePaymentIntentID(s, id) = t
    BY <1>1, <2>1 DEF SetStripePaymentIntentID, Session
  <2>4. CopyOK(t, st, sagas)
    BY <1>1 DEF CopyOK, Session, Incomplete, Advanced, ReadyForComplete,
                RequiresEscalation, Completed
  <2>5. SvcCreateStripePaymentIntent(s, id) = [Outcome(t, 0) EXCEPT !.stripe = st]
    BY <1>1, <2>3 DEF SvcCreateStripePaymentIntent, st
  <2> HIDE DEF t
  <2> QED BY <2>2, <2>3, <2>4, <2>5 DEF GoodOutcome, Outcome, World
<1>2. CASE ~(s.Status = Incomplete /\ UsesStripe(s) /\ id # None)
  BY <1>2, GoodError DEF SvcCreateStripePaymentIntent
<1> QED BY <1>1, <1>2

\* Every service method turns a sound copy into a sound outcome.
LEMMA GoodMethod ==
    ASSUME World, NEW s \in Session, CopyOK(s, stripe, sagas),
           NEW c \in Call, NEW id \in FreshStripeIds \cup {None}
    PROVE  GoodOutcome(Method(c, s, id))
<1>1. CASE c \in [op: {"SelectShippingOption"}, cost: Costs]
  BY <1>1, GoodSetters, GoodSave DEF Method, Sound
<1>2. CASE c \in [op: {"SelectPaymentHandler"}, handler: Handlers]
  BY <1>2, GoodSetters, GoodSave DEF Method, Sound
<1>3. CASE c \in [op: {"SelectMandate"}, mandate: Mandates]
  BY <1>3, GoodSetters, GoodSave DEF Method, Sound
<1>4. CASE c \in [op: {"StartComplete"}, url: BOOLEAN]
  BY <1>4, GoodStartComplete DEF Method
<1>5. CASE c \in [op: {"ConfirmStripePayment"}, stripe: StripeIds]
  BY <1>5, GoodConfirm DEF Method
<1>6. CASE c \in [op: {"Create"}, user: Users, total: CartTotals]
  BY <1>6, GoodError DEF Method
<1>7. CASE c \in [op: {"Owner"}, user: Users]
  BY <1>7, GoodError DEF Method
<1>8. CASE c \in [op: Plain]
  <2>1. CASE c.op = "Get"
    BY <2>1, GoodError DEF Method
  <2>2. CASE c.op = "SetShippingAddress"
    BY <2>2, GoodSetters, GoodSave DEF Method, Sound
  <2>3. CASE c.op = "SetBillingAddress"
    BY <2>3, GoodSetters, GoodSave DEF Method, Sound
  <2>4. CASE c.op = "SubmitPaymentToken"
    BY <2>4, GoodSetters, GoodSave DEF Method, Sound
  <2>5. CASE c.op = "CalculateTax"
    BY <2>5, GoodTax, GoodSave DEF Method, Sound, SvcCalculateTax
  <2>6. CASE c.op = "MarkReady"
    BY <2>6, GoodMarkReady DEF Method
  <2>7. CASE c.op = "CreateStripePaymentIntent"
    BY <2>7, GoodCreateIntent DEF Method
  <2>8. CASE c.op = "Complete"
    BY <2>8, GoodSvcComplete DEF Method
  <2>9. CASE c.op = "Cancel"
    BY <2>9, GoodCancel DEF Method
  <2> QED BY <1>8, <2>1, <2>2, <2>3, <2>4, <2>5, <2>6, <2>7, <2>8, <2>9 DEF Plain
<1> QED BY <1>1, <1>2, <1>3, <1>4, <1>5, <1>6, <1>7, <1>8 DEF Call

-----------------------------------------------------------------------------
(* The invariant is inductive *)

\* A new checkout is sound.
LEMMA GoodNew ==
    ASSUME NEW user \in Users, NEW total \in CartTotals, NEW st, NEW sg
    PROVE  /\ NewCheckoutSession(user, total) \in Session
           /\ CopyOK(NewCheckoutSession(user, total), st, sg)
BY AmountsAssumption DEF NewCheckoutSession, Session, CopyOK, Status, Handlers, Advanced,
       Incomplete, ReadyForComplete, RequiresEscalation, Completed, Cancelled

\* So is a draft found in the database.
LEMMA GoodDraft ==
    ASSUME NEW s \in InitialRows, s # None, NEW st, NEW sg
    PROVE  s \in Session /\ CopyOK(s, st, sg) /\ s.Status = Incomplete
<1>1. PICK u \in Users, t \in CartTotals, c \in Costs, h \in Handlers,
           m \in Mandates \cup {None} : s = Draft(u, t, c, h, m)
  BY InitialRowsAssumption
<1> DEFINE n == NewCheckoutSession(u, t)
           d == [n EXCEPT
                    !.ShippingAddress = TRUE, !.BillingAddress = TRUE,
                    !.ShippingOption = c, !.ShippingCost = c,
                    !.PaymentHandler = h, !.MandateID = m]
<1>2. /\ d \in Session /\ d.Status = Incomplete /\ d.Subtotal = d.CartTotal
      /\ d.TaxAmount = 0 /\ d.ShippingCost = d.ShippingOption
      /\ d.StripeSessionID = None
  <2>1. /\ n \in Session /\ n.Status = Incomplete /\ n.Subtotal = n.CartTotal
        /\ n.TaxAmount = 0 /\ n.StripeSessionID = None
    BY GoodNew DEF NewCheckoutSession
  <2> HIDE DEF n
  <2>2. c \in Int
    BY AmountsAssumption
  <2> QED BY <2>1, <2>2 DEF Session
<1>3. s = recalculateTotal(d)
  BY <1>1 DEF Draft
<1> HIDE DEF d
<1>4. /\ s \in Session
      /\ s.GrandTotal = d.Subtotal + d.ShippingCost + d.TaxAmount
      /\ s = [d EXCEPT !.GrandTotal = s.GrandTotal]
  BY <1>2, <1>3, Recalculated
<1>5. /\ s.Status = Incomplete /\ s.CartTotal = d.CartTotal
      /\ s.Subtotal = d.Subtotal /\ s.ShippingCost = d.ShippingCost
      /\ s.TaxAmount = d.TaxAmount /\ s.ShippingOption = d.ShippingOption
      /\ s.StripeSessionID = d.StripeSessionID
  BY <1>2, <1>4 DEF Session
<1> QED BY <1>2, <1>4, <1>5 DEF CopyOK, Advanced, Incomplete, ReadyForComplete,
           RequiresEscalation, Completed

\* A request at rest holds no copy.
LEMMA IdleOK ==
    ASSUME NEW st, NEW sg, NEW cm
    PROVE  RequestOK(Idle, st, sg, cm)
BY DEF Idle, RequestOK, Request, Steps, Loaded

\* The invariant holds at first,
LEMMA InitOK == Init => IInv
<1> SUFFICES ASSUME Init PROVE IInv
  OBVIOUS
<1>1. World
  BY DEF Init, World, StripeObject, StripeOK
<1>2. StoredOK(row, stripe, sagas) /\ StoredOK(cache, stripe, sagas)
  BY GoodDraft DEF Init, StoredOK
<1>3. RequestsOK
  BY IdleOK DEF Init, RequestsOK, RequestOK
<1>4. committed \subseteq Status
  BY GoodDraft DEF Init, Status
<1> QED BY <1>1, <1>2, <1>3, <1>4 DEF IInv, Init

\* A step that puts one request into a good state and lets payments, sagas
\* and stored statuses grow leaves all requests good.
LEMMA RequestStep ==
    ASSUME IInv, NEW r \in Requests, NEW q,
           req' = [req EXCEPT ![r] = q],
           RequestOK(q, stripe', sagas', committed'),
           Grows(stripe, sagas, stripe', sagas'), committed \subseteq committed'
    PROVE  RequestsOK'
<1>1. req' \in [Requests -> Request]
  BY DEF IInv, RequestsOK, RequestOK
<1>2. ASSUME NEW x \in Requests
      PROVE  RequestOK(req'[x], stripe', sagas', committed')
  <2>1. CASE x = r
    BY <2>1 DEF IInv, RequestsOK
  <2>2. CASE x # r
    <3>1. req'[x] = req[x] /\ RequestOK(req[x], stripe, sagas, committed)
      BY <2>2 DEF IInv, RequestsOK
    <3>2. req[x].ses # None => req[x].ses \in Session
      BY <3>1 DEF RequestOK, Request
    <3> QED BY <3>1, <3>2, CopyGrows DEF RequestOK
  <2> QED BY <2>1, <2>2
<1> QED BY <1>1, <1>2 DEF RequestsOK

\* The call a request under way is at.
LEMMA CurrentCall ==
    ASSUME IInv, NEW r \in Requests, req[r].pc # "idle"
    PROVE  /\ req[r] \in Request
           /\ req[r].calls \in Seq(Call) /\ req[r].calls # <<>>
           /\ req[r].calls[1] \in Call
           /\ Tail(req[r].calls) \in Seq(Call)
BY DEF IInv, RequestsOK, RequestOK, Request

\* A script is a sequence of service calls, and not empty.
LEMMA ScriptsAreCalls ==
    ASSUME NEW script \in Scripts
    PROVE  script \in Seq(Call) /\ script # <<>>
<1>0. ASSUME NEW c \in Call PROVE <<c>> \in Seq(Call) /\ <<c>> # <<>>
  OBVIOUS
<1>1. /\ \A op \in Plain : Do(op) \in Call
      /\ Setters \subseteq Call
      /\ \A u \in Users : [op |-> "Owner", user |-> u] \in Call
      /\ \A h \in Handlers : [op |-> "SelectPaymentHandler", handler |-> h] \in Call
      /\ \A b \in BOOLEAN : [op |-> "StartComplete", url |-> b] \in Call
      /\ \A i \in StripeIds : [op |-> "ConfirmStripePayment", stripe |-> i] \in Call
      /\ [op: {"Create"}, user: Users, total: CartTotals] \subseteq Call
      /\ [op: {"StartComplete"}, url: BOOLEAN] \subseteq Call
  BY DEF Call, Do, Plain, Setters
<1>2. /\ Do("Get") \in Call /\ Do("Cancel") \in Call /\ Do("Complete") \in Call
      /\ Do("SetShippingAddress") \in Call /\ Do("SetBillingAddress") \in Call
      /\ Do("CreateStripePaymentIntent") \in Call
      /\ Do("CalculateTax") \in Call /\ Do("MarkReady") \in Call
      /\ [op |-> "SelectPaymentHandler", handler |-> "other"] \in Call
  BY <1>1 DEF Plain, Handlers
<1>3. CASE script \in RestAddress \cup RestChoices \cup RestStripeIntent \cup RestCancel
  <2>1. PICK u \in Users,
             c \in Setters \cup {Do("Cancel"), Do("CreateStripePaymentIntent")} :
                script = <<[op |-> "Owner", user |-> u], c>>
    BY <1>3 DEF RestAddress, RestChoices, RestStripeIntent, RestCancel, Owned, Addresses, Setters
  <2> DEFINE d == [op |-> "Owner", user |-> u]
  <2>2. d \in Call /\ c \in Call
    BY <1>1, <1>2
  <2> HIDE DEF d
  <2>3. <<d, c>> \in Seq(Call) /\ <<d, c>> # <<>>
    BY <2>2
  <2> QED BY <2>1, <2>3 DEF d
<1>4. CASE script \in RestComplete \cup RestCreate \cup RestGet \cup McpTools
                     \cup EcpStateUpdate \cup EcpAddressSelect
                     \cup A2ACheckoutSkill \cup ServiceOnly \cup StripeWebhook
  <2>1. \E c \in Call : script = <<c>>
    BY <1>1, <1>2, <1>4 DEF RestComplete, RestCreate, RestGet, McpTools, EcpStateUpdate,
       EcpAddressSelect, A2ACheckoutSkill, ServiceOnly, StripeWebhook
  <2> QED BY <1>0, <2>1
<1>5. CASE script \in EcpCredentialsSubmit
  <2> DEFINE a == Do("SetShippingAddress")
             b == Do("SetBillingAddress")
             c == Do("Get")
  <2>1. a \in Call /\ b \in Call /\ c \in Call /\ script = <<a, b, c>>
    BY <1>2, <1>5 DEF EcpCredentialsSubmit
  <2> HIDE DEF a, b, c
  <2>2. <<a, b, c>> \in Seq(Call) /\ <<a, b, c>> # <<>>
    BY <2>1
  <2> QED BY <2>1, <2>2
<1>6. CASE script \in EcpPaymentAuthorize
  <2> DEFINE a == [op |-> "SelectPaymentHandler", handler |-> "other"]
             c == Do("Complete")
  <2>1. a \in Call /\ c \in Call /\ (script = <<c>> \/ script = <<a, c>>)
    BY <1>2, <1>6 DEF EcpPaymentAuthorize
  <2> HIDE DEF a, c
  <2>2. <<a, c>> \in Seq(Call) /\ <<a, c>> # <<>>
    BY <2>1
  <2> QED BY <1>0, <2>1, <2>2
<1> QED BY <1>3, <1>4, <1>5, <1>6 DEF Scripts

\* Ending a request, or going on to its next call, is always fine.
LEMMA ReturnOK ==
    ASSUME IInv, NEW r \in Requests, req[r].pc # "idle", End(r) \/ Return(r),
           UNCHANGED committed, Grows(stripe, sagas, stripe', sagas')
    PROVE  RequestsOK'
<1> DEFINE rest == Tail(req[r].calls)
           q == IF End(r) \/ rest = <<>> THEN Idle
                ELSE [Idle EXCEPT !.pc = "call", !.calls = rest]
<1>1. req' = [req EXCEPT ![r] = q]
  BY DEF End, Return
<1>2. rest \in Seq(Call)
  BY CurrentCall
<1> HIDE DEF rest
<1>3. RequestOK(q, stripe', sagas', committed')
  BY <1>2, IdleOK DEF RequestOK, Idle, Request, Steps, Loaded
<1> HIDE DEF q
<1> QED BY <1>1, <1>3, RequestStep

\* every step keeps it,
LEMMA NextOK == IInv /\ [Next]_vars => IInv'
<1> SUFFICES ASSUME IInv, [Next]_vars PROVE IInv'
  OBVIOUS
<1>0. /\ World /\ StoredOK(row, stripe, sagas) /\ StoredOK(cache, stripe, sagas)
      /\ RequestsOK /\ committed \subseteq Status /\ published \subseteq committed
      /\ arrived \in Nat /\ Grows(stripe, sagas, stripe, sagas)
  BY DEF IInv, Grows
<1>1. ASSUME NEW r \in Requests, Arrive(r) PROVE IInv'
  <2>1. PICK script \in Scripts :
            req' = [req EXCEPT ![r] = [Idle EXCEPT !.pc = "call", !.calls = script]]
    BY <1>1 DEF Arrive
  <2>2. RequestOK([Idle EXCEPT !.pc = "call", !.calls = script], stripe', sagas', committed')
    BY ScriptsAreCalls, IdleOK DEF RequestOK, Idle, Request, Steps, Loaded
  <2>3. RequestsOK'
    BY <1>0, <1>1, <2>1, <2>2, RequestStep DEF Arrive
  <2> QED BY <1>0, <1>1, <2>3 DEF Arrive, IInv, World
<1>2. ASSUME NEW r \in Requests, CreateCheckout(r) PROVE IInv'
  <2> DEFINE c == req[r].calls[1]
             n == NewCheckoutSession(c.user, c.total)
             q == [req[r] EXCEPT !.pc = "save", !.ses = n]
  <2>1. req' = [req EXCEPT ![r] = q] /\ req[r].pc # "idle" /\ c.op = "Create"
    BY <1>2 DEF CreateCheckout
  <2>2. c.user \in Users /\ c.total \in CartTotals
    BY <2>1, CurrentCall DEF Call, Plain
  <2>3. n \in Session /\ CopyOK(n, stripe', sagas')
    BY <2>2, GoodNew
  <2> HIDE DEF n
  <2>4. RequestOK(q, stripe', sagas', committed')
    BY <2>1, <2>3, CurrentCall, NoneIsNoSession DEF RequestOK, Request, Steps, Loaded
  <2>5. RequestsOK'
    BY <1>0, <1>2, <2>1, <2>4, RequestStep DEF CreateCheckout
  <2> QED BY <1>0, <1>2, <2>5 DEF CreateCheckout, IInv, World
<1>3. ASSUME NEW r \in Requests, ReadCache(r) PROVE IInv'
  <2>1. PICK q \in {[req[r] EXCEPT !.pc = "apply", !.ses = cache],
                     [req[r] EXCEPT !.pc = "select"]} :
            /\ req' = [req EXCEPT ![r] = q]
            /\ cache = None => q = [req[r] EXCEPT !.pc = "select"]
    BY <1>3 DEF ReadCache
  <2>2. RequestOK(q, stripe, sagas, committed)
    BY <1>0, <1>3, <2>1, CurrentCall
       DEF ReadCache, RequestsOK, RequestOK, StoredOK, Request, Steps, Loaded
  <2>3. RequestsOK'
    BY <1>0, <1>3, <2>1, <2>2, RequestStep DEF ReadCache
  <2> QED BY <1>0, <1>3, <2>3 DEF ReadCache, IInv, World
<1>4. ASSUME NEW r \in Requests, SelectRow(r) PROVE IInv'
  <2>1. CASE row = None
    <3>1. RequestsOK'
      BY <1>0, <1>4, <2>1, ReturnOK DEF SelectRow
    <3> QED BY <1>0, <1>4, <3>1 DEF SelectRow, IInv, World
  <2>2. CASE row # None
    <3> DEFINE q == [req[r] EXCEPT !.pc = "fill", !.ses = row]
    <3>1. req' = [req EXCEPT ![r] = q]
      BY <1>4, <2>2 DEF SelectRow
    <3>2. RequestOK(q, stripe, sagas, committed)
      BY <1>0, <1>4, <2>2, CurrentCall
         DEF SelectRow, RequestOK, StoredOK, Request, Steps, Loaded
    <3> HIDE DEF q
    <3>3. RequestsOK'
      BY <1>0, <1>4, <3>1, <3>2, RequestStep DEF SelectRow
    <3> QED BY <1>0, <1>4, <3>3 DEF SelectRow, IInv, World
  <2> QED BY <2>1, <2>2
<1>5. ASSUME NEW r \in Requests, FillCache(r) PROVE IInv'
  <2> DEFINE q == [req[r] EXCEPT !.pc = "apply"]
  <2>1. req' = [req EXCEPT ![r] = q]
    BY <1>5 DEF FillCache
  <2>2. /\ RequestOK(q, stripe, sagas, committed)
        /\ StoredOK(req[r].ses, stripe, sagas)
    BY <1>0, <1>5, CurrentCall
       DEF FillCache, RequestsOK, RequestOK, StoredOK, Request, Steps, Loaded
  <2> HIDE DEF q
  <2>3. RequestsOK'
    BY <1>0, <1>5, <2>1, <2>2, RequestStep DEF FillCache
  <2>4. StoredOK(cache, stripe, sagas)'
    BY <1>0, <1>5, <2>2 DEF FillCache
  <2> QED BY <1>0, <1>5, <2>3, <2>4 DEF FillCache, IInv, World
<1>6. ASSUME NEW r \in Requests, CheckOwner(r) PROVE IInv'
  <2>1. RequestsOK'
    BY <1>0, <1>6, ReturnOK DEF CheckOwner
  <2> QED BY <1>0, <1>6, <2>1 DEF CheckOwner, IInv, World
<1>7. ASSUME NEW r \in Requests, Apply(r) PROVE IInv'
  <2> DEFINE M(id) == Method(req[r].calls[1], req[r].ses, id)
  <2>1. PICK id \in FreshStripeIds \cup {None} :
            /\ stripe' = M(id).stripe
            /\ sagas' = M(id).sagas
            /\ IF M(id).ses = None THEN End(r)
               ELSE req' = [req EXCEPT ![r].pc = "save", ![r].ses = M(id).ses,
                                       ![r].announce = M(id).announce]
    BY <1>7 DEF Apply
  <2> DEFINE o == M(id)
  <2>2. req[r].ses \in Session /\ CopyOK(req[r].ses, stripe, sagas)
    BY <1>0, <1>7 DEF Apply, RequestsOK, RequestOK, Request, Loaded
  <2>3. GoodOutcome(o)
    BY <1>0, <1>7, <2>2, CurrentCall, GoodMethod DEF Apply
  <2> HIDE DEF M, o
  <2>4. /\ World' /\ Grows(stripe, sagas, stripe', sagas')
        /\ stripe' = o.stripe /\ sagas' = o.sagas
    BY <2>1, <2>3 DEF GoodOutcome, World, o
  <2>5. StoredOK(row, stripe, sagas)' /\ StoredOK(cache, stripe, sagas)'
    BY <1>0, <1>7, <2>4, CopyGrows DEF Apply, StoredOK
  <2>6. RequestsOK'
    <3>1. CASE o.ses = None
      BY <1>7, <2>1, <2>4, <3>1, ReturnOK DEF Apply, o
    <3>2. CASE o.ses # None
      <4> DEFINE q == [req[r] EXCEPT !.pc = "save", !.ses = o.ses, !.announce = o.announce]
      <4>1. req' = [req EXCEPT ![r] = q]
        BY <2>1, <3>2 DEF o
      <4>2. RequestOK(q, stripe', sagas', committed')
        BY <1>7, <2>3, <2>4, <3>2, CurrentCall
           DEF Apply, GoodOutcome, RequestOK, Request, Steps, Loaded
      <4> HIDE DEF q
      <4> QED BY <1>7, <2>4, <4>1, <4>2, RequestStep DEF Apply
    <3> QED BY <3>1, <3>2
  <2> QED BY <1>0, <1>7, <2>4, <2>5, <2>6 DEF Apply, IInv
<1>8. ASSUME NEW r \in Requests, SaveRow(r) PROVE IInv'
  <2> DEFINE q == [req[r] EXCEPT !.pc = "del"]
  <2>1. req' = [req EXCEPT ![r] = q] /\ committed \subseteq committed'
    BY <1>8 DEF SaveRow
  <2>2. /\ req[r].ses \in Session
        /\ CopyOK(req[r].ses, stripe, sagas)
        /\ RequestOK(q, stripe, sagas, committed')
    BY <1>0, <1>8, CurrentCall
       DEF SaveRow, RequestsOK, RequestOK, Request, Steps, Loaded
  <2> HIDE DEF q
  <2>3. RequestsOK'
    BY <1>0, <1>8, <2>1, <2>2, RequestStep DEF SaveRow
  <2>4. StoredOK(row, stripe, sagas)' /\ committed' \subseteq Status
    <3>1. /\ row' = req[r].ses /\ stripe' = stripe /\ sagas' = sagas
          /\ committed' = committed \cup {req[r].ses.Status}
      BY <1>8 DEF SaveRow
    <3>2. req[r].ses.Status \in Status
      BY <2>2 DEF Session
    <3> QED BY <1>0, <2>2, <3>1, <3>2 DEF StoredOK
  <2>5. World' /\ published' \subseteq committed' /\ arrived' \in Nat
    BY <1>0, <1>8, <2>1 DEF SaveRow, World
  <2>6. StoredOK(cache, stripe, sagas)'
    BY <1>0, <1>8 DEF SaveRow, StoredOK
  <2> QED BY <2>3, <2>4, <2>5, <2>6 DEF IInv
<1>9. ASSUME NEW r \in Requests, invalidateCache(r) PROVE IInv'
  <2> DEFINE q == [req[r] EXCEPT !.pc = "publish"]
  <2>1. req' = [req EXCEPT ![r] = q]
    BY <1>9 DEF invalidateCache
  <2>2. RequestOK(q, stripe, sagas, committed)
    BY <1>0, <1>9, CurrentCall
       DEF invalidateCache, RequestsOK, RequestOK, Request, Steps, Loaded
  <2> HIDE DEF q
  <2>3. RequestsOK'
    BY <1>0, <1>9, <2>1, <2>2, RequestStep DEF invalidateCache
  <2>4. StoredOK(cache, stripe, sagas)'
    BY <1>0, <1>9 DEF invalidateCache, StoredOK
  <2> QED BY <1>0, <1>9, <2>3, <2>4 DEF invalidateCache, IInv, World
<1>10. ASSUME NEW r \in Requests, Publish(r) PROVE IInv'
  <2> DEFINE q == [req[r] EXCEPT !.announce = req[r].announce - 1]
  <2>1. req' = [req EXCEPT ![r] = q]
    BY <1>10 DEF Publish
  <2>2. /\ RequestOK(q, stripe, sagas, committed)
        /\ req[r].ses.Status \in committed
    <3>1. req[r].announce \in 0..2 /\ req[r].announce > 0
      BY <1>0, <1>10 DEF Publish, RequestsOK, Request
    <3> DEFINE n == req[r].announce - 1
    <3>2. n \in 0..2
      BY <3>1
    <3> HIDE DEF n
    <3>3. q = [req[r] EXCEPT !.announce = n]
      BY DEF n
    <3> HIDE DEF q
    <3> QED BY <1>0, <1>10, <3>2, <3>3, CurrentCall
            DEF Publish, RequestsOK, RequestOK, Request, Steps, Loaded
  <2> HIDE DEF q
  <2>3. RequestsOK'
    BY <1>0, <1>10, <2>1, <2>2, RequestStep DEF Publish
  <2> QED BY <1>0, <1>10, <2>2, <2>3 DEF Publish, IInv, World
<1>11. ASSUME NEW r \in Requests, Answer(r) \/ Abort(r) PROVE IInv'
  <2>1. RequestsOK'
    BY <1>0, <1>11, ReturnOK DEF Answer, Abort
  <2> QED BY <1>0, <1>11, <2>1 DEF Answer, Abort, IInv, World
<1>12. ASSUME ExpireCache PROVE IInv'
  BY <1>0, <1>12 DEF ExpireCache, IInv, World, StoredOK, RequestsOK
<1>13. ASSUME NEW i \in StripeIds, PayStripe(i) PROVE IInv'
  <2>1. World' /\ Grows(stripe, sagas, stripe', sagas')
    BY <1>0, <1>13 DEF PayStripe, World, StripeOK, StripeObject, Grows
  <2>2. StoredOK(row, stripe, sagas)' /\ StoredOK(cache, stripe, sagas)'
    BY <1>0, <1>13, <2>1, CopyGrows DEF PayStripe, StoredOK
  <2>3. RequestsOK'
    BY <1>0, <1>13, <2>1, CopyGrows DEF PayStripe, RequestsOK, RequestOK, Request
  <2> QED BY <1>0, <1>13, <2>1, <2>2, <2>3 DEF PayStripe, IInv
<1>14. CASE UNCHANGED vars
  BY <1>0, <1>14 DEF vars, IInv, World, StoredOK, RequestsOK
<1> QED
  BY <1>1, <1>2, <1>3, <1>4, <1>5, <1>6, <1>7, <1>8, <1>9, <1>10, <1>11, <1>12,
     <1>13, <1>14 DEF Next, Step

\* hence it holds in every state.
LEMMA Inductive == Spec => []IInv
BY InitOK, NextOK, PTL DEF Spec

-----------------------------------------------------------------------------
(* The properties *)

\* Row, cache, copies in flight and messages keep their types whatever the
\* interleaving of requests, faults and payments.
THEOREM TypeCorrect == Spec => []TypeOK
<1>1. IInv => TypeOK
  BY DEF IInv, TypeOK, World, StoredOK, RequestsOK, RequestOK
<1> QED BY <1>1, Inductive, PTL

\* Whole-row saves without a version check still never store an advanced
\* checkout with an address, an option or a handler missing.
THEOREM AdvancedAreFilledIn == Spec => []AdvancedIsFilledIn
<1>1. IInv => AdvancedIsFilledIn
  BY DEF IInv, StoredOK, CopyOK, AdvancedIsFilledIn, AllChosen
<1> QED BY <1>1, Inductive, PTL

\* Nor do they ever store a total that belongs to another copy.
THEOREM StoredTotalsAddUp == Spec => []TotalsAddUp
<1>1. IInv => TotalsAddUp
  BY DEF IInv, StoredOK, CopyOK, TotalsAddUp, AllChosen
<1> QED BY <1>1, Inductive, PTL

\* No path completes a checkout whose Stripe payment intent is unpaid.
THEOREM CompletedIntentsAreSettled == Spec => []IntentSettled
<1>1. IInv => IntentSettled
  BY DEF IInv, StoredOK, CopyOK, IntentSettled
<1> QED BY <1>1, Inductive, PTL

\* No path completes a checkout beyond its mandate, or without its saga.
THEOREM CompletedMandatesAreHonoured == Spec => []MandateHonoured
<1>1. IInv => MandateHonoured
  BY DEF IInv, StoredOK, CopyOK, MandateHonoured
<1> QED BY <1>1, Inductive, PTL

\* A status is announced only after a save stored it.
THEOREM AnnouncementsWereStored == Spec => []PublishedWasCommitted
<1>1. IInv => PublishedWasCommitted
  BY DEF IInv, PublishedWasCommitted
<1> QED BY <1>1, Inductive, PTL

-----------------------------------------------------------------------------
(***************************************************************************)
(* One request at a time.  Redis holds the row or nothing, so every copy   *)
(* is the row when a method is applied to it, and a save takes the stored  *)
(* status one step along the life cycle.                                   *)
(***************************************************************************)

\* Requests are served one after the other, and Redis answers.
OneAtATime == (\A q, r \in Requests : q = r) /\ ~CacheFaults

\* A copy that was loaded is still the row.
LoadedIsRow == \A r \in Requests : req[r].pc \in {"fill", "apply"} => req[r].ses = row

CoherentInv == CacheCoherent /\ LoadedIsRow

\* One request at a time: what it has loaded is the row until it saves, and the cache
\* is filled from nothing else.
LEMMA CoherentStep ==
    ASSUME OneAtATime, IInv, CoherentInv, [Next]_vars
    PROVE  CoherentInv'
<1> USE DEF CoherentInv, CacheCoherent, LoadedIsRow
<1>0. req \in [Requests -> Request]
  BY DEF IInv, RequestsOK
<1>1. ASSUME NEW r \in Requests, Step(r) PROVE CoherentInv'
  <2>1. Requests = {r}
    BY <1>1 DEF OneAtATime
  <2>2. CASE Arrive(r)
    BY <1>0, <2>1, <2>2 DEF Arrive, Idle
  <2>3. CASE CreateCheckout(r) \/ Publish(r)
    BY <1>0, <2>1, <2>3 DEF CreateCheckout, Publish, Request
  <2>4. CASE ReadCache(r)
    BY <1>0, <2>1, <2>4 DEF ReadCache, Request
  <2>5. CASE SelectRow(r)
    BY <1>0, <2>1, <2>5 DEF SelectRow, End, Idle, Request
  <2>6. CASE FillCache(r)
    BY <1>0, <2>1, <2>6 DEF FillCache, Request
  <2>7. CASE CheckOwner(r) \/ Answer(r)
    <3>0. End(r) \/ Return(r)
      BY <2>7 DEF CheckOwner, Answer
    <3> DEFINE next == [Idle EXCEPT !.pc = "call", !.calls = Tail(req[r].calls)]
    <3>1. req'[r].pc \in {"idle", "call"}
      <4>1. next.pc = "call" /\ Idle.pc = "idle"
        BY DEF Idle
      <4>2. req'[r] \in {Idle, next}
        BY <1>0, <3>0 DEF Return, End
      <4> QED BY <4>1, <4>2
    <3>2. UNCHANGED <<row, cache>> /\ req[r].pc # "del"
      BY <2>7 DEF CheckOwner, Answer
    <3> QED BY <2>1, <3>1, <3>2
  <2>8. CASE Apply(r)
    <3>1. /\ UNCHANGED <<row, cache>>
          /\ req'[r].pc \in {"idle", "save"} /\ req[r].pc = "apply"
      BY <1>0, <2>8 DEF Apply, End, Idle, Request
    <3> QED BY <2>1, <3>1
  <2>9. CASE SaveRow(r)
    BY <1>0, <2>1, <2>9 DEF SaveRow, Request
  <2>10. CASE invalidateCache(r)
    BY <1>0, <2>1, <2>10 DEF invalidateCache, Request, OneAtATime
  <2>11. CASE Abort(r)
    BY <1>0, <2>1, <2>11 DEF Abort, End, Idle, OneAtATime
  <2> QED BY <1>1, <2>2, <2>3, <2>4, <2>5, <2>6, <2>7, <2>8, <2>9, <2>10, <2>11
          DEF Step
<1>2. CASE ExpireCache
  BY <1>2 DEF ExpireCache
<1>3. ASSUME NEW i \in StripeIds, PayStripe(i) PROVE CoherentInv'
  BY <1>3 DEF PayStripe
<1>4. CASE UNCHANGED vars
  BY <1>4 DEF vars
<1> QED BY <1>1, <1>2, <1>3, <1>4 DEF Next

\* Hence the cache never disagrees with the row.
LEMMA CoherentHolds == OneAtATime => (Spec => []CoherentInv)
<1> SUFFICES ASSUME OneAtATime PROVE Spec => []CoherentInv
  OBVIOUS
<1>1. Init => CoherentInv
  BY DEF Init, Idle, CoherentInv, CacheCoherent, LoadedIsRow
<1>2. IInv /\ CoherentInv /\ [Next]_vars => CoherentInv'
  BY CoherentStep
<1> QED BY <1>1, <1>2, Inductive, PTL DEF Spec

\* The read-through repository: when requests come one after the other and
\* Redis answers, it holds the stored checkout or nothing, except between an
\* upsert and its DEL.
THEOREM SerialCacheIsCoherent == OneAtATime => (Spec => []CacheCoherent)
<1> SUFFICES ASSUME OneAtATime PROVE Spec => []CacheCoherent
  OBVIOUS
<1>1. CoherentInv => CacheCoherent
  BY DEF CoherentInv
<1> QED BY <1>1, CoherentHolds, PTL

\* One step of the life cycle, or none.
Walks(a, b) ==
    \/ a = b
    \/ a = "none" /\ b = "incomplete"
    \/ a = "incomplete" /\ b \in {"ready_for_complete", "requires_escalation"}
    \/ a \in Lifecycle!Open /\ b \in {"completed", "cancelled"}

StatusOf(s) == IF s = None THEN "none" ELSE s.Status

\* What a method leaves of a session is one step further, or an error.
Walked(s, t) == t # None => Walks(s.Status, t.Status)

\* The methods of the aggregate.
LEMMA AggregateWalks ==
    ASSUME NEW s \in Session
    PROVE  /\ Walked(s, SetShippingAddress(s))
           /\ Walked(s, SetBillingAddress(s))
           /\ Walked(s, SubmitPaymentToken(s))
           /\ \A cost : Walked(s, SelectShippingOption(s, cost))
           /\ \A handler : Walked(s, SelectPaymentHandler(s, handler))
           /\ \A mandate : Walked(s, SelectMandate(s, mandate))
           /\ Walked(s, SetTaxAmount(s, 0))
           /\ Walked(s, MarkReady(s))
           /\ Walked(s, Escalate(s))
           /\ Walked(s, Complete(s))
           /\ Walked(s, Cancel(s))
           /\ \A id : Walked(s, SetStripePaymentIntentID(s, id))
<1> USE DEF Walked, Walks, Session
<1>1. /\ Walked(s, SetShippingAddress(s))
      /\ Walked(s, SetBillingAddress(s))
      /\ Walked(s, SubmitPaymentToken(s))
  BY DEF SetShippingAddress, SetBillingAddress, SubmitPaymentToken
<1>2. ASSUME NEW cost PROVE Walked(s, SelectShippingOption(s, cost))
  BY DEF SelectShippingOption, recalculateTotal
<1>3. ASSUME NEW handler PROVE Walked(s, SelectPaymentHandler(s, handler))
  BY DEF SelectPaymentHandler
<1>4. ASSUME NEW mandate PROVE Walked(s, SelectMandate(s, mandate))
  BY DEF SelectMandate
<1>5. Walked(s, SetTaxAmount(s, 0))
  BY DEF SetTaxAmount, recalculateTotal
<1>6. Walked(s, MarkReady(s))
  BY DEF MarkReady, Incomplete, ReadyForComplete
<1>7. Walked(s, Escalate(s))
  BY DEF Escalate, Incomplete, RequiresEscalation
<1>8. Walked(s, Complete(s))
  BY DEF Complete, ReadyForComplete, RequiresEscalation, Completed, Lifecycle!Open
<1>9. Walked(s, Cancel(s))
  BY DEF Cancel, Status, Incomplete, ReadyForComplete, RequiresEscalation, Completed,
         Cancelled, Lifecycle!Open
<1>10. ASSUME NEW id PROVE Walked(s, SetStripePaymentIntentID(s, id))
  BY DEF SetStripePaymentIntentID
<1> QED BY <1>1, <1>2, <1>3, <1>4, <1>5, <1>6, <1>7, <1>8, <1>9, <1>10

\* StartComplete, on each of its three paths.
LEMMA StartCompleteWalks ==
    ASSUME NEW s \in Session, NEW url, NEW id \in StripeIds \cup {None}
    PROVE  Walked(s, SvcStartComplete(s, url, id).ses)
<1>0. Error.ses = None
  BY DEF Error, Outcome
<1>1. CASE s.Status # Incomplete \/ ~AllChosen(s)
  BY <1>0, <1>1 DEF SvcStartComplete, Walked
<1>2. CASE s.Status = Incomplete /\ AllChosen(s)
  <2>1. Walked(s, StartEscalate(s).ses)
    BY <1>0, AggregateWalks DEF StartEscalate, Charging, Outcome, Walked
  <2>2. Walked(s, StartStripe(s, id).ses)
    <3> DEFINE t == SetStripeSessionID(s, id)
    <3>1. t \in Session /\ t.Status = Incomplete
      BY <1>2 DEF SetStripeSessionID, Session
    <3>2. Walked(t, Escalate(t))
      BY <3>1, AggregateWalks
    <3>3. StartStripe(s, id).ses \in {None, Escalate(t)}
      BY <1>0 DEF StartStripe, Outcome
    <3> HIDE DEF t
    <3> QED BY <1>2, <3>1, <3>2, <3>3 DEF Walked
  <2>3. Walked(s, StartDirect(s).ses)
    <3> DEFINE w == WithIntentStatus(s)
               t == Complete(MarkReady(w))
    <3>1. w \in Session /\ w.Status = Incomplete /\ AllChosen(w)
      BY <1>2 DEF WithIntentStatus, SetStripePaymentStatus, Session, AllChosen
    <3> HIDE DEF w
    <3>2. t.Status = Completed
      BY <3>1 DEF MarkReady, Complete, Session
    <3>3. StartDirect(s).ses \in {None, t}
      BY <1>0 DEF StartDirect, Charging, Outcome, w
    <3> HIDE DEF t
    <3> QED BY <1>2, <3>2, <3>3
            DEF Walked, Walks, Completed, Incomplete, Lifecycle!Open
  <2> QED BY <1>0, <1>2, <2>1, <2>2, <2>3 DEF SvcStartComplete, Walked
<1> QED BY <1>1, <1>2

\* The service methods.
LEMMA MethodWalks ==
    ASSUME NEW s \in Session, NEW c \in Call, NEW id \in FreshStripeIds \cup {None}
    PROVE  Walked(s, Method(c, s, id).ses)
<1>0. Error.ses = None /\ Walked(s, None)
  BY DEF Error, Outcome, Walked
<1>1. ASSUME NEW t, NEW n, Walked(s, t)
      PROVE  Walked(s, Announcing(t, n).ses) /\ Walked(s, Outcome(t, n).ses)
  BY <1>0, <1>1 DEF Announcing, Outcome
<1>2. Walked(s, SvcMarkReady(s).ses)
  <2> DEFINE t == MarkReady(s)
             q == recalculateTotal([t EXCEPT !.Subtotal = t.CartTotal])
  <2>1. t = None \/ t \in Session
    BY DEF MarkReady, Session, Status
  <2>2. t # None => q.Status = t.Status
    BY <2>1 DEF recalculateTotal, Session
  <2>3. SvcMarkReady(s).ses \in {None, q} /\ (t = None => SvcMarkReady(s).ses = None)
    BY <1>0 DEF SvcMarkReady, Outcome
  <2>4. Walked(s, t)
    BY AggregateWalks
  <2> HIDE DEF q, t
  <2> QED BY <2>2, <2>3, <2>4 DEF Walked
<1>3. Walked(s, SvcComplete(s).ses)
  <2> DEFINE w == WithIntentStatus(s)
             t == IF IntentPaid(s) THEN Complete(w) ELSE None
  <2>1. w \in Session /\ w.Status = s.Status
    BY DEF WithIntentStatus, SetStripePaymentStatus, Session
  <2> HIDE DEF w
  <2>2. Walked(w, Complete(w))
    BY <2>1, AggregateWalks
  <2>3. Walked(s, t)
    BY <1>0, <2>1, <2>2 DEF Walked
  <2>4. SvcComplete(s).ses \in {None, Announcing(t, 1).ses}
    <3>1. Charging(Announcing(t, 1), s).ses = Announcing(t, 1).ses
      BY DEF Charging, Announcing, Error, Outcome
    <3> QED BY <1>0, <3>1 DEF SvcComplete, w
  <2> HIDE DEF t
  <2> QED BY <1>0, <1>1, <2>3, <2>4
<1>4. Walked(s, SvcCancel(s).ses) /\ Walked(s, SvcCalculateTax(s).ses)
  BY <1>1, AggregateWalks DEF SvcCancel, SvcCalculateTax
<1>5. Walked(s, SvcConfirmStripePayment(s, c.stripe).ses)
  BY <1>0, <1>1, AggregateWalks DEF SvcConfirmStripePayment
<1>6. Walked(s, SvcCreateStripePaymentIntent(s, id).ses)
  <2>1. SvcCreateStripePaymentIntent(s, id).ses \in {None, SetStripePaymentIntentID(s, id)}
    BY <1>0 DEF SvcCreateStripePaymentIntent, Outcome
  <2> QED BY <1>0, <2>1, AggregateWalks
<1>7. id \in StripeIds \cup {None}
  BY DEF FreshStripeIds
<1>8. c.op \in Plain \cup {"Create", "Owner", "SelectShippingOption", "SelectPaymentHandler",
                          "SelectMandate", "StartComplete", "ConfirmStripePayment"}
  BY DEF Call
<1>9. CASE c.op \in {"SetShippingAddress", "SetBillingAddress", "SelectShippingOption",
                    "SelectPaymentHandler", "SelectMandate", "SubmitPaymentToken"}
  BY <1>1, <1>9, AggregateWalks DEF Method
<1>10. CASE c.op \in {"CalculateTax", "MarkReady", "Complete", "Cancel"}
  BY <1>2, <1>3, <1>4, <1>10 DEF Method
<1>11. CASE c.op \in {"StartComplete", "ConfirmStripePayment", "CreateStripePaymentIntent"}
  BY <1>5, <1>6, <1>7, <1>11, StartCompleteWalks DEF Method
<1>12. CASE c.op \in {"Get", "Owner", "Create"}
  BY <1>0, <1>12 DEF Method
<1> QED BY <1>8, <1>9, <1>10, <1>11, <1>12 DEF Plain

\* No call but the first of a request creates the checkout.
Continues(calls) == \A i \in 2..Len(calls) : calls[i].op # "Create"

\* No handler creates a checkout after its first call.
LEMMA ScriptsContinue ==
    ASSUME NEW script \in Scripts
    PROVE  Continues(script)
<1>0. ASSUME NEW c PROVE Continues(<<c>>)
  BY DEF Continues
<1>1. ASSUME NEW c, NEW d, d.op # "Create" PROVE Continues(<<c, d>>)
  BY <1>1 DEF Continues
<1>2. CASE script \in RestAddress \cup RestChoices \cup RestStripeIntent \cup RestCancel
  <2>1. PICK u \in Users,
             c \in Setters \cup {Do("Cancel"), Do("CreateStripePaymentIntent")} :
                script = <<[op |-> "Owner", user |-> u], c>>
    BY <1>2 DEF RestAddress, RestChoices, RestStripeIntent, RestCancel, Owned, Addresses, Setters
  <2>2. c.op # "Create"
    BY DEF Setters, Do
  <2> QED BY <1>1, <2>1, <2>2
<1>3. CASE script \in RestComplete \cup RestCreate \cup RestGet \cup McpTools
                     \cup EcpStateUpdate \cup EcpAddressSelect
                     \cup A2ACheckoutSkill \cup ServiceOnly \cup StripeWebhook
  <2>1. \E c : script = <<c>>
    BY <1>3 DEF RestComplete, RestCreate, RestGet, McpTools, EcpStateUpdate,
       EcpAddressSelect, A2ACheckoutSkill, ServiceOnly, StripeWebhook
  <2> QED BY <1>0, <2>1
<1>4. CASE script \in EcpCredentialsSubmit
  <2> DEFINE a == Do("SetShippingAddress")
             b == Do("SetBillingAddress")
             c == Do("Get")
  <2>1. script = <<a, b, c>> /\ b.op # "Create" /\ c.op # "Create"
    BY <1>4 DEF EcpCredentialsSubmit, Do
  <2> HIDE DEF a, b, c
  <2> QED BY <2>1 DEF Continues
<1>5. CASE script \in EcpPaymentAuthorize
  <2> DEFINE a == [op |-> "SelectPaymentHandler", handler |-> "other"]
             c == Do("Complete")
  <2>1. (script = <<c>> \/ script = <<a, c>>) /\ c.op # "Create"
    BY <1>5 DEF EcpPaymentAuthorize, Do
  <2> HIDE DEF a, c
  <2> QED BY <1>0, <1>1, <2>1
<1> QED BY <1>2, <1>3, <1>4, <1>5 DEF Scripts

\* Where a request stands with regard to the row: a create goes to an id
\* nothing is stored under, a save takes the row one step further.
WalkOK(q, stored) ==
    /\ Continues(q.calls)
    /\ q.pc = "call" /\ q.calls[1].op = "Create" => stored = None
    /\ q.pc = "save" => Walks(StatusOf(stored), q.ses.Status)

WalkInv == \A r \in Requests : WalkOK(req[r], row)

\* Requests come one after the other, to a Redis that answers, and the
\* server draws the ids of new checkouts.
Serial == OneAtATime /\ ~ClientChosenIds

\* One request at a time: the copy is one walk away from the row.
LEMMA WalkStep ==
    ASSUME Serial, IInv, CoherentInv, WalkInv, [Next]_vars
    PROVE  WalkInv'
<1>0. req \in [Requests -> Request]
  BY DEF IInv, RequestsOK
<1>i. Idle.pc = "idle" /\ Idle.calls = <<>> /\ \A s : WalkOK(Idle, s)
  BY DEF WalkOK, Continues, Idle
<1>1. ASSUME NEW r \in Requests, Step(r) PROVE WalkInv'
  <2>1. Requests = {r}
    BY <1>1 DEF Serial, OneAtATime
  <2>2. SUFFICES WalkOK(req'[r], row')
    BY <2>1 DEF WalkInv
  <2>3. WalkOK(req[r], row) /\ req[r] \in Request
    BY <1>0 DEF WalkInv
  <2>4. CASE Arrive(r)
    <3>1. PICK script \in Scripts :
             /\ Admissible(script)
             /\ req' = [req EXCEPT ![r] = [Idle EXCEPT !.pc = "call", !.calls = script]]
      BY <2>4 DEF Arrive
    <3>2. req'[r].pc = "call" /\ req'[r].calls = script /\ row' = row
      BY <1>0, <2>4, <3>1 DEF Idle, Arrive
    <3>3. script[1].op = "Create" => row = None
      BY <3>1 DEF Admissible, Serial
    <3> QED BY <3>2, <3>3, ScriptsContinue DEF WalkOK
  <2>5. CASE CreateCheckout(r)
    <3>1. row = None /\ row' = None
      BY <2>3, <2>5 DEF CreateCheckout, WalkOK
    <3>2. req'[r].pc = "save" /\ req'[r].calls = req[r].calls
      BY <1>0, <2>5 DEF CreateCheckout, Request
    <3>3. req'[r].ses.Status = "incomplete"
      BY <1>0, <2>5 DEF CreateCheckout, Request, NewCheckoutSession, Incomplete
    <3> QED BY <2>3, <3>1, <3>2, <3>3 DEF WalkOK, Walks, StatusOf
  <2>6. CASE ReadCache(r) \/ FillCache(r) \/ invalidateCache(r) \/ Publish(r)
    <3>1. /\ req'[r].pc \in {"select", "apply", "publish"}
          /\ req'[r].calls = req[r].calls
      BY <1>0, <2>6 DEF ReadCache, FillCache, invalidateCache, Publish, Request
    <3> QED BY <2>3, <3>1 DEF WalkOK
  <2>7. CASE SelectRow(r)
    <3>1. \/ req'[r] = Idle
          \/ req'[r].pc = "fill" /\ req'[r].calls = req[r].calls
      BY <1>0, <2>7 DEF SelectRow, End, Request
    <3> QED BY <1>i, <2>3, <3>1 DEF WalkOK
  <2>8. CASE CheckOwner(r) \/ Answer(r)
    <3> DEFINE next == [Idle EXCEPT !.pc = "call", !.calls = Tail(req[r].calls)]
    <3>0. End(r) \/ Return(r)
      BY <2>8 DEF CheckOwner, Answer
    <3>1. \/ req'[r] = Idle
          \/ Tail(req[r].calls) # <<>> /\ req'[r] = next
      BY <1>0, <3>0 DEF Return, End
    <3>2. req[r].calls \in Seq(Call) /\ req[r].calls # <<>>
      BY <2>8, CurrentCall DEF CheckOwner, Answer
    <3>3. ASSUME Tail(req[r].calls) # <<>>
          PROVE  Continues(Tail(req[r].calls)) /\ Tail(req[r].calls)[1].op # "Create"
      <4>1. PICK s \in Seq(Call) : s = req[r].calls
        BY <3>2
      <4>2. Continues(s) /\ s # <<>> /\ Tail(s) # <<>>
        BY <2>3, <3>2, <3>3, <4>1 DEF WalkOK
      <4>3. /\ Len(s) \in Nat /\ Len(Tail(s)) = Len(s) - 1 /\ Len(s) >= 2
            /\ \A i \in 1..Len(Tail(s)) : Tail(s)[i] = s[i + 1]
        BY <4>2
      <4>4. \A i \in 1..Len(Tail(s)) : Tail(s)[i].op # "Create"
        BY <4>2, <4>3 DEF Continues
      <4> QED BY <4>1, <4>3, <4>4 DEF Continues
    <3>4. next.pc = "call" /\ next.calls = Tail(req[r].calls)
      BY DEF Idle
    <3> HIDE DEF next
    <3> QED BY <1>i, <3>1, <3>3, <3>4 DEF WalkOK
  <2>9. CASE Apply(r)
    <3>1. PICK id \in FreshStripeIds \cup {None} :
             LET o == Method(req[r].calls[1], req[r].ses, id)
             IN  IF o.ses = None THEN End(r)
                 ELSE req' = [req EXCEPT ![r].pc = "save", ![r].ses = o.ses,
                                         ![r].announce = o.announce]
      BY <2>9 DEF Apply
    <3> DEFINE t == Method(req[r].calls[1], req[r].ses, id).ses
    <3>2. req[r].calls[1] \in Call
      BY <2>9, CurrentCall DEF Apply
    <3>3. req[r].ses = row /\ req[r].ses \in Session /\ row # None /\ row' = row
      BY <2>3, <2>9 DEF Apply, CoherentInv, LoadedIsRow, IInv, RequestsOK, RequestOK,
                       Loaded, Request
    <3>4. Walked(row, t)
      BY <3>2, <3>3, MethodWalks
    <3>5. \/ req'[r] = Idle
          \/ /\ req'[r].pc = "save" /\ req'[r].calls = req[r].calls
             /\ req'[r].ses = t /\ t # None
      BY <1>0, <3>1 DEF End, Request
    <3> HIDE DEF t
    <3> QED BY <1>i, <2>3, <3>3, <3>4, <3>5 DEF WalkOK, Walked, StatusOf
  <2>10. CASE SaveRow(r)
    <3>1. req'[r].pc = "del" /\ req'[r].calls = req[r].calls
      BY <1>0, <2>10 DEF SaveRow, Request
    <3> QED BY <2>3, <3>1 DEF WalkOK
  <2>11. CASE Abort(r)
    BY <1>0, <1>i, <2>11 DEF Abort, End
  <2> QED BY <1>1, <2>4, <2>5, <2>6, <2>7, <2>8, <2>9, <2>10, <2>11 DEF Step
<1>2. CASE ExpireCache
  BY <1>2 DEF ExpireCache, WalkInv
<1>3. ASSUME NEW i \in StripeIds, PayStripe(i) PROVE WalkInv'
  BY <1>3 DEF PayStripe, WalkInv
<1>4. CASE UNCHANGED vars
  BY <1>4 DEF vars, WalkInv
<1> QED BY <1>1, <1>2, <1>3, <1>4 DEF Next

\* The only step that changes the row takes its status along the life cycle.
LEMMA LifecycleStep ==
    ASSUME Serial, IInv, WalkInv, [Next]_vars
    PROVE  [Lifecycle!Next]_(StatusOf(row))
<1>1. ASSUME NEW r \in Requests, SaveRow(r) PROVE [Lifecycle!Next]_(StatusOf(row))
  <2>1. row' = req[r].ses /\ req[r].ses \in Session /\ row' # None
    BY <1>1, NoneIsNoSession DEF SaveRow, IInv, RequestsOK, RequestOK, Loaded, Request
  <2>2. Walks(StatusOf(row), StatusOf(row'))
    BY <1>1, <2>1 DEF SaveRow, WalkInv, WalkOK, StatusOf
  <2> QED BY <2>2 DEF Walks, StatusOf, Lifecycle!Next, Lifecycle!Create, Lifecycle!Advance,
             Lifecycle!Complete, Lifecycle!Cancel
<1>2. ASSUME NEW r \in Requests, Step(r), ~SaveRow(r) PROVE row' = row
  BY <1>2 DEF Step, Arrive, CreateCheckout, ReadCache, SelectRow, FillCache, CheckOwner,
              Apply, invalidateCache, Publish, Answer, Abort
<1>3. ASSUME ExpireCache \/ UNCHANGED vars \/ \E i \in StripeIds : PayStripe(i)
      PROVE  row' = row
  BY <1>3 DEF ExpireCache, PayStripe, vars
<1> QED BY <1>1, <1>2, <1>3 DEF Next, StatusOf

\* Served one at a time, the detailed checkout (cache, copies, whole-row
\* saves, Stripe, mandates) implements the life cycle its readers rely on.
THEOREM SerialImplementsLifecycle == Serial => (Spec => ImplementsLifecycle)
<1> SUFFICES ASSUME Serial PROVE Spec => ImplementsLifecycle
  OBVIOUS
<1>1. Init => WalkInv
  BY DEF Init, Idle, WalkInv, WalkOK, Continues
<1>2. IInv /\ CoherentInv /\ WalkInv /\ [Next]_vars => WalkInv'
  BY WalkStep
<1>3. Init => Lifecycle!Init
  BY GoodDraft DEF Init, Lifecycle!Init, Incomplete
<1>4. IInv /\ WalkInv /\ [Next]_vars
        => [Lifecycle!Next]_(IF row = None THEN "none" ELSE row.Status)
  BY LifecycleStep DEF StatusOf
<1>5. Spec => []CoherentInv
  BY CoherentHolds DEF Serial
<1> QED BY <1>1, <1>2, <1>3, <1>4, <1>5, Inductive, PTL
        DEF Spec, ImplementsLifecycle, Lifecycle!Spec

=============================================================================
