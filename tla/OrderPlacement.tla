--------------------------- MODULE OrderPlacement ---------------------------
(***************************************************************************)
(* From a completed checkout to its order.  The checkout service publishes *)
(* checkout.updated; the order-saga consumer (main.go, application/order)  *)
(* submits a saga to DTM; DTM calls the server back, branch after branch:  *)
(* reserve the inventory, verify the mandate, create the order.  Meanwhile *)
(* the mandate saga (application/payment) executes and settles the mandate.*)
(*                                                                         *)
(* DTM and JetStream are not part of the repository.  JetStream delivers a *)
(* message until it is acknowledged.  DTM calls a branch until it gets an  *)
(* answer; on 409 it turns round and calls the compensations, that of the  *)
(* failed branch first, each until it answers 200.  The repository uses    *)
(* none of DTM's barriers, so a call made twice is served twice.           *)
(*                                                                         *)
(* A handler that reads and then writes takes two steps: another saga may  *)
(* run in between, and the whole row is written back.                      *)
(***************************************************************************)
EXTENDS Integers, Sequences, FiniteSets

CONSTANTS
    Checkouts, Products, Mandates, None,
    Servers,       \* replicas of the server; they share the named consumer
    OrderIds,      \* order ids, drawn by the consumer; the gid holds one
    Items,         \* the cart of a checkout: a sequence of line items
    MandateOf,     \* the mandate selected for a checkout, or None
    ByMandate,     \* checkouts whose payment handler is "ap2_mandate"
    InitialStock,  \* units of each product
    StaleCache,    \* Redis may keep a copy older than the row: a DEL failed,
                   \* or a fill was overtaken by a save
    Counts,        \* quantities an administrator or a refund brings
    MaxUpdates,    \* bound: stock updates by administrators and refunds
    MaxFaults      \* bound: lost answers, failed publishes, stale saves ...

LineItem == [product: Products, quantity: Nat \ {0}]

ASSUME CartsAssumption ==
    /\ Items \in [Checkouts -> Seq(LineItem)]
    /\ \A c \in Checkouts : Items[c] # <<>>
    /\ MandateOf \in [Checkouts -> Mandates \cup {None}]
    /\ \A c \in ByMandate : c \in Checkouts /\ MandateOf[c] # None
    /\ InitialStock \in [Products -> Nat]

ASSUME PlacementIdsAssumption ==
    /\ OrderIds \cap Mandates = {}
    /\ None \notin OrderIds \cup Mandates \cup Checkouts \cup {"confirmed"}
    /\ IsFiniteSet(Servers)
    /\ StaleCache \in BOOLEAN
    /\ Counts \subseteq Int
    /\ MaxUpdates \in Nat
    /\ MaxFaults \in Nat

Inventory == INSTANCE InventoryItem
Payment == INSTANCE Mandate

VARIABLES
    checkout,   \* status of each checkout_sessions row, as far as orders care
    queue,      \* unacknowledged "completed" messages of each checkout
    consumer,   \* the checkout whose message a server is handling, or None
    saga,       \* DTM's sagas by gid: order sagas and mandate sagas
    stock,      \* the inventory rows
    stockCache, \* their copies in Redis, None when absent
    mandate,    \* status of the mandates rows
    order,      \* status of the orders rows, None before the insert
    admin,      \* the row an administrator's request holds, None when idle
    charged,    \* mandates that were executed (history)
    drifted,    \* products whose count of reservations went astray (history)
    updates,    \* stock updates so far
    faults      \* faults so far

stockVars == <<stock, stockCache, admin, drifted, updates>>
vars == <<checkout, queue, consumer, saga, stockVars, mandate, order, charged, faults>>

Gids == OrderIds \cup Mandates

-----------------------------------------------------------------------------
(* DTM *)

NoSaga == [dir |-> "none", checkout |-> None, at |-> 1, item |-> 1, copy |-> None]

Submitted(c) == [NoSaga EXCEPT !.dir = "forward", !.checkout = c]

\* makeSubmitSaga and makeMandateSubmit
Branches(g) ==
    IF g \in Mandates THEN <<"execute", "settle">>
    ELSE IF MandateOf[saga[g].checkout] = None THEN <<"reserve", "create">>
    ELSE <<"reserve", "verify", "create">>

Compensation ==
    [reserve |-> "release", verify |-> "cancelPayment", create |-> "cancelOrder",
     execute |-> "cancelPayment", settle |-> "rollback"]

Running(g) == saga[g].dir \in {"forward", "back"}

\* The handler DTM is calling.
Calling(g, handler) ==
    /\ Running(g)
    /\ LET branch == Branches(g)[saga[g].at]
       IN  handler = IF saga[g].dir = "forward" THEN branch ELSE Compensation[branch]

\* The call is made again, from its beginning.
Again(g) == [saga[g] EXCEPT !.item = 1, !.copy = None]

\* 200: the next branch forward, or the previous one on the way back.
OK(g) ==
    LET s == saga[g]
        next == IF s.dir = "forward" THEN s.at + 1 ELSE s.at - 1
    IN  IF next = 0 THEN [Again(g) EXCEPT !.dir = "failed"]
        ELSE IF next > Len(Branches(g)) THEN [Again(g) EXCEPT !.dir = "succeed"]
        ELSE [Again(g) EXCEPT !.at = next]

\* 409 (writeSagaError): a branch is rolled back, a compensation is retried.
Conflict(g) == [Again(g) EXCEPT !.dir = "back"]

Fault == faults < MaxFaults /\ faults' = faults + 1

\* The answer reaches DTM, or is lost and the call is made again.
Answer(g, s) ==
    \/ saga' = [saga EXCEPT ![g] = s] /\ UNCHANGED faults
    \/ saga' = [saga EXCEPT ![g] = Again(g)] /\ Fault

-----------------------------------------------------------------------------
(* The checkout side, in the steps Checkout.tla shows it to take *)

\* verifyMandate submits the mandate saga.  The gid is the mandate's: while
\* the saga runs DTM takes a second submission for the first one.
Charge(c) ==
    /\ checkout[c] = "open"
    /\ c \in ByMandate
    /\ saga[MandateOf[c]].dir \in {"none", "forward"}
    /\ checkout' = [checkout EXCEPT ![c] = "charged"]
    /\ saga' = [saga EXCEPT ![MandateOf[c]] = IF @ = NoSaga THEN Submitted(None) ELSE @]
    /\ UNCHANGED <<queue, consumer, stockVars, mandate, order, charged, faults>>

\* A direct completion announces twice, an escalated one once; a publish may fail.
CompleteCheckout(c) ==
    /\ checkout[c] = IF c \in ByMandate THEN "charged" ELSE "open"
    /\ checkout' = [checkout EXCEPT ![c] = "completed"]
    /\ \/ \E n \in 1..2 : queue' = [queue EXCEPT ![c] = n]
          /\ UNCHANGED faults
       \/ UNCHANGED queue /\ Fault
    /\ UNCHANGED <<consumer, saga, stockVars, mandate, order, charged>>

\* A stale whole-row save of a racing Cancel.
OverwriteCheckout(c) ==
    /\ checkout[c] = "completed"
    /\ checkout' = [checkout EXCEPT ![c] = "cancelled"]
    /\ Fault
    /\ UNCHANGED <<queue, consumer, saga, stockVars, mandate, order, charged>>

-----------------------------------------------------------------------------
(* The consumer: DTMCheckoutSaga.Handle and its caller in main.go *)

Ordered(c) == \E g \in OrderIds : order[g] # None /\ saga[g].checkout = c

Handling(c) == {v \in Servers : consumer[v] = c}

\* FindByCheckoutID, whose errors count as "no order"; messages with another
\* status are acknowledged unread.
Receive(v, c) ==
    /\ consumer[v] = None
    /\ queue[c] > Cardinality(Handling(c))
    /\ \/ /\ Ordered(c)
          /\ queue' = [queue EXCEPT ![c] = @ - 1]
          /\ UNCHANGED <<consumer, faults>>
       \/ /\ IF Ordered(c) THEN Fault ELSE UNCHANGED faults
          /\ consumer' = [consumer EXCEPT ![v] = c]
          /\ UNCHANGED queue
    /\ UNCHANGED <<checkout, saga, stockVars, mandate, order, charged>>

\* A new id makes a new gid: DTM does not know the checkout again.  The
\* server may die before the Ack.
Submit(v, g) ==
    /\ consumer[v] # None
    /\ saga[g].dir = "none"
    /\ saga' = [saga EXCEPT ![g] = Submitted(consumer[v])]
    /\ \/ queue' = [queue EXCEPT ![consumer[v]] = @ - 1] /\ UNCHANGED faults
       \/ UNCHANGED queue /\ Fault
    /\ consumer' = [consumer EXCEPT ![v] = None]
    /\ UNCHANGED <<checkout, stockVars, mandate, order, charged>>

\* Mutation: a message that could not be handled is acknowledged.
AckAnyway(v) ==
    /\ consumer[v] # None
    /\ queue' = [queue EXCEPT ![consumer[v]] = @ - 1]
    /\ consumer' = [consumer EXCEPT ![v] = None]
    /\ Fault
    /\ UNCHANGED <<checkout, saga, stockVars, mandate, order, charged>>

\* No id, or DTM refuses: the message is delivered again.
Nak(v) ==
    /\ consumer[v] # None
    /\ consumer' = [consumer EXCEPT ![v] = None]
    /\ Fault
    /\ UNCHANGED <<checkout, queue, saga, stockVars, mandate, order, charged>>

-----------------------------------------------------------------------------
(* The saga handlers of interfaces/rest *)

Line(g) == Items[saga[g].checkout][saga[g].item]

Cart(g) == Items[saga[g].checkout]

\* The products of the lines the loop is done with, and of those left.
Done(g) == {Cart(g)[i].product : i \in 1..(saga[g].item - 1)}
Left(g) == {Cart(g)[i].product : i \in saga[g].item..Len(Cart(g))}

Drift(products) == drifted' = drifted \cup products

\* FindByProductID: Redis first; a miss fills the cache, or fails to.
Lookup(p, item) ==
    \/ item = stockCache[p] /\ item # None /\ UNCHANGED stockCache
    \/ item = stock[p] /\ stockCache' \in {[stockCache EXCEPT ![p] = item], stockCache}

\* A refusal turns the saga round, and all lines are released, those left
\* included; when the answer is lost those done are reserved again.
ReserveInventory(g) ==
    /\ Calling(g, "reserve")
    /\ saga[g].copy = None
    /\ \E item \in {stock[Line(g).product], stockCache[Line(g).product]} :
          LET new == Inventory!Reserve(item, Line(g).quantity)
          IN  /\ Lookup(Line(g).product, item)
              /\ IF new = None
                 THEN /\ Answer(g, Conflict(g))
                      /\ Drift(IF faults' = faults THEN Left(g) ELSE Done(g))
                 ELSE /\ saga' = [saga EXCEPT ![g].copy = new]
                      /\ UNCHANGED <<faults, drifted>>
    /\ UNCHANGED <<checkout, queue, consumer, stock, admin, updates, mandate, order, charged>>

\* A refusal is retried: the lines done are released again.
ReleaseInventory(g) ==
    /\ Calling(g, "release")
    /\ saga[g].copy = None
    /\ \E item \in {stock[Line(g).product], stockCache[Line(g).product]} :
          LET new == Inventory!ReleaseReservation(item, Line(g).quantity)
          IN  /\ Lookup(Line(g).product, item)
              /\ IF new = None THEN Answer(g, Conflict(g)) /\ Drift(Done(g))
                 ELSE /\ saga' = [saga EXCEPT ![g].copy = new]
                      /\ UNCHANGED <<faults, drifted>>
    /\ UNCHANGED <<checkout, queue, consumer, stock, admin, updates, mandate, order, charged>>

\* The row has changed since the handler read it: its save undoes that.
Overwritten(g) ==
    LET row == stock[Line(g).product]
    IN  IF saga[g].copy = IF Calling(g, "reserve")
                          THEN Inventory!Reserve(row, Line(g).quantity)
                          ELSE Inventory!ReleaseReservation(row, Line(g).quantity)
        THEN {} ELSE {Line(g).product}

\* After a save: an answer that is lost repeats all lines.
SaveDrifts(g) ==
    Drift(Overwritten(g) \cup IF faults' = faults THEN {} ELSE Done(g) \cup Left(g))

\* Mutation: the loop runs one line item too far.
SaveInventoryPastEnd(g) ==
    /\ Calling(g, "reserve") \/ Calling(g, "release")
    /\ saga[g].copy # None
    /\ stock' = [stock EXCEPT ![Line(g).product] = saga[g].copy]
    /\ stockCache' = [stockCache EXCEPT ![Line(g).product] = None]
    /\ IF saga[g].item <= Len(Items[saga[g].checkout])
       THEN /\ saga' = [saga EXCEPT ![g].item = @ + 1, ![g].copy = None]
            /\ UNCHANGED faults
       ELSE Answer(g, OK(g))
    /\ SaveDrifts(g)
    /\ UNCHANGED <<checkout, queue, consumer, admin, updates, mandate, order, charged>>

\* Save: the whole row, then the DEL, which may fail; the loop goes on.
SaveInventory(g) ==
    /\ Calling(g, "reserve") \/ Calling(g, "release")
    /\ saga[g].copy # None
    /\ stock' = [stock EXCEPT ![Line(g).product] = saga[g].copy]
    /\ \/ stockCache' = [stockCache EXCEPT ![Line(g).product] = None]
       \/ StaleCache /\ UNCHANGED stockCache
    /\ IF saga[g].item < Len(Items[saga[g].checkout])
       THEN /\ saga' = [saga EXCEPT ![g].item = @ + 1, ![g].copy = None]
            /\ UNCHANGED faults
       ELSE Answer(g, OK(g))
    /\ SaveDrifts(g)
    /\ UNCHANGED <<checkout, queue, consumer, admin, updates, mandate, order, charged>>

\* Stock that others change, the administrator by UpdateStock, a refund by
\* Restock: they load the row, ignoring what is reserved, ...
UpdateStock(p, quantity) ==
    /\ admin = None
    /\ updates < MaxUpdates
    /\ \E item \in {stock[p], stockCache[p]} :
          /\ Lookup(p, item)
          /\ \E new \in {Inventory!SetStock(item, quantity),
                         Inventory!Restock(item, quantity)} \ {None} :
                admin' = [product |-> p, row |-> item, copy |-> new]
    /\ updates' = updates + 1
    /\ UNCHANGED <<checkout, queue, consumer, saga, stock, drifted, mandate, order,
                   charged, faults>>

\* ... and save all of it, and the DEL may fail.
SaveStock ==
    /\ admin # None
    /\ stock' = [stock EXCEPT ![admin.product] = admin.copy]
    /\ \/ stockCache' = [stockCache EXCEPT ![admin.product] = None]
       \/ StaleCache /\ UNCHANGED stockCache
    /\ Drift(IF admin.row = stock[admin.product] THEN {} ELSE {admin.product})
    /\ admin' = None
    /\ UNCHANGED <<checkout, queue, consumer, saga, updates, mandate, order, charged,
                   faults>>

\* The mandate an order saga verifies, or a mandate saga is about.
MandateFor(g) == IF g \in Mandates THEN g ELSE MandateOf[saga[g].checkout]

VerifyPayment(g) ==
    /\ Calling(g, "verify")
    /\ Answer(g, IF Payment!Charged(mandate[MandateFor(g)]) THEN OK(g) ELSE Conflict(g))
    /\ UNCHANGED <<checkout, queue, consumer, stockVars, mandate, order, charged>>

\* ExecuteMandate, SettleMandate and CancelPayment load the mandate ...
LoadMandate(g, handler, new) ==
    /\ Calling(g, handler)
    /\ saga[g].copy = None
    /\ IF new = None THEN Answer(g, Conflict(g))
       ELSE saga' = [saga EXCEPT ![g].copy = new] /\ UNCHANGED faults
    /\ UNCHANGED <<checkout, queue, consumer, stockVars, mandate, order, charged>>

ExecuteMandate(g) ==
    LoadMandate(g, "execute", Payment!Execute(mandate[MandateFor(g)]))

SettleMandate(g) ==
    LoadMandate(g, "settle", Payment!Settle(mandate[MandateFor(g)]))

CancelPayment(g) ==
    LoadMandate(g, "cancelPayment", Payment!Cancel(mandate[MandateFor(g)]))

\* ... and save it, whatever the row holds by now.
SaveMandate(g) ==
    /\ \E handler \in {"execute", "settle", "cancelPayment"} : Calling(g, handler)
    /\ saga[g].copy # None
    /\ mandate' = [mandate EXCEPT ![MandateFor(g)] = saga[g].copy]
    /\ charged' = IF saga[g].copy = "executed" THEN charged \cup {MandateFor(g)} ELSE charged
    /\ Answer(g, OK(g))
    /\ UNCHANGED <<checkout, queue, consumer, stockVars, order>>

RollbackMandateSettle(g) ==
    /\ Calling(g, "rollback")
    /\ Answer(g, OK(g))
    /\ UNCHANGED <<checkout, queue, consumer, stockVars, mandate, order, charged>>

\* The status GetCheckout may see: a cached copy may be older.
Seen(c) ==
    {checkout[c]}
    \cup (IF StaleCache THEN {"open"} ELSE {})
    \cup (IF StaleCache /\ checkout[c] = "cancelled" THEN {"completed"} ELSE {})

\* The order of a checkout, which must be completed.
NewOrderFromCheckout(status) == IF status = "completed" THEN "confirmed" ELSE None

\* CreateOrder loads the checkout and builds the order from it ...
GetCheckout(g) ==
    /\ Calling(g, "create")
    /\ saga[g].copy = None
    /\ \E status \in Seen(saga[g].checkout) :
          LET new == NewOrderFromCheckout(status)
          IN  IF new = None THEN Answer(g, Conflict(g))
              ELSE saga' = [saga EXCEPT ![g].copy = new] /\ UNCHANGED faults
    /\ UNCHANGED <<checkout, queue, consumer, stockVars, mandate, order, charged>>

\* Mutation: without the UNIQUE constraint.
AnyCheckout(g) == TRUE

\* UNIQUE (checkout_id) of table orders.
UniqueCheckout(g) ==
    \A h \in OrderIds \ {g} : order[h] # None => saga[h].checkout # saga[g].checkout

\* ... and saves it: an upsert by id.
CreateOrder(g) ==
    /\ Calling(g, "create")
    /\ saga[g].copy # None
    /\ IF UniqueCheckout(g)
       THEN order' = [order EXCEPT ![g] = saga[g].copy] /\ Answer(g, OK(g))
       ELSE UNCHANGED order /\ Answer(g, Conflict(g))
    /\ UNCHANGED <<checkout, queue, consumer, stockVars, mandate, charged>>

\* Mutation: the compensation reports success and cancels nothing.
CancelOrderNot(g) ==
    /\ Calling(g, "cancelOrder")
    /\ Answer(g, OK(g))
    /\ UNCHANGED <<checkout, queue, consumer, stockVars, mandate, order, charged>>

\* Not found, or cancelled already: 409.  The customer or an administrator may
\* change the order as soon as it is stored: that is AfterSale's, not modelled here.
CancelOrder(g) ==
    /\ Calling(g, "cancelOrder")
    /\ IF order[g] = "confirmed"
       THEN order' = [order EXCEPT ![g] = "cancelled"] /\ Answer(g, OK(g))
       ELSE UNCHANGED order /\ Answer(g, Conflict(g))
    /\ UNCHANGED <<checkout, queue, consumer, stockVars, mandate, charged>>

\* The server dies between the two steps of a handler.
LoseCall(g) ==
    /\ Running(g)
    /\ saga[g].item > 1 \/ saga[g].copy # None
    /\ saga' = [saga EXCEPT ![g] = Again(g)]
    /\ Fault
    /\ Drift(IF g \in OrderIds THEN Done(g) ELSE {})
    /\ UNCHANGED <<checkout, queue, consumer, stock, stockCache, admin, updates,
                   mandate, order, charged>>

-----------------------------------------------------------------------------

Init ==
    /\ checkout = [c \in Checkouts |-> "open"]
    /\ queue = [c \in Checkouts |-> 0]
    /\ consumer = [v \in Servers |-> None]
    /\ saga = [g \in Gids |-> NoSaga]
    /\ stock = [p \in Products |-> Inventory!NewInventoryItem(InitialStock[p])]
    /\ stockCache = [p \in Products |-> None]
    /\ mandate = [m \in Mandates |-> "approved"]
    /\ order = [g \in OrderIds |-> None]
    /\ admin = None
    /\ charged = {}
    /\ drifted = {}
    /\ updates = 0
    /\ faults = 0

Serve(g) ==
    \/ ReserveInventory(g) \/ ReleaseInventory(g) \/ SaveInventory(g)
    \/ VerifyPayment(g) \/ ExecuteMandate(g) \/ SettleMandate(g)
    \/ CancelPayment(g) \/ SaveMandate(g) \/ RollbackMandateSettle(g)
    \/ GetCheckout(g) \/ CreateOrder(g) \/ CancelOrder(g)

Consume(v) ==
    \/ \E c \in Checkouts : Receive(v, c)
    \/ \E g \in OrderIds : Submit(v, g)

Next ==
    \/ \E c \in Checkouts : Charge(c) \/ CompleteCheckout(c) \/ OverwriteCheckout(c)
    \/ \E v \in Servers : Consume(v) \/ Nak(v)
    \/ \E g \in Gids : Serve(g) \/ LoseCall(g)
    \/ \E p \in Products, quantity \in Counts : UpdateStock(p, quantity)
    \/ SaveStock

Spec == Init /\ [][Next]_vars

\* JetStream and DTM do not give up; faults are finitely many (MaxFaults).
Fairness ==
    /\ \A v \in Servers : WF_vars(Consume(v))
    /\ \A g \in Gids : WF_vars(Serve(g))

FairSpec == Spec /\ Fairness

-----------------------------------------------------------------------------
(* Properties *)

\* What a handler holds between its two steps is what it will save.
HoldsWhatItSaves(g) ==
    IF Calling(g, "reserve") \/ Calling(g, "release")
    THEN saga[g].copy \in Inventory!Item
    ELSE IF Calling(g, "create") THEN saga[g].copy = "confirmed"
    ELSE saga[g].copy \in Payment!MandateStatus

SagaOK(g) ==
    /\ saga[g].dir \in {"none", "forward", "back", "succeed", "failed"}
    /\ saga[g].checkout \in Checkouts \cup {None}
    /\ g \in OrderIds => (saga[g].dir = "none" <=> saga[g].checkout = None)
    /\ Running(g) => /\ saga[g].at \in 1..Len(Branches(g))
                     /\ g \in OrderIds => saga[g].item \in DOMAIN Items[saga[g].checkout]
    /\ saga[g].copy # None => Running(g) /\ HoldsWhatItSaves(g)

\* Every variable keeps its type; an order saga knows its checkout, and a
\* running saga is at one of its branches and one of its line items.
TypeOK ==
    /\ checkout \in [Checkouts -> {"open", "charged", "completed", "cancelled"}]
    /\ queue \in [Checkouts -> 0..2]
    /\ consumer \in [Servers -> Checkouts \cup {None}]
    /\ \A g \in Gids : SagaOK(g)
    /\ stock \in [Products -> Inventory!Item]
    /\ stockCache \in [Products -> Inventory!Item \cup {None}]
    /\ mandate \in [Mandates -> Payment!MandateStatus]
    /\ order \in [OrderIds -> {"confirmed", "cancelled", None}]
    /\ admin # None => admin.product \in Products /\ {admin.row, admin.copy} \subseteq Inventory!Item
    /\ charged \subseteq Mandates
    /\ drifted \subseteq Products
    /\ updates \in 0..MaxUpdates
    /\ faults \in 0..MaxFaults

\* However often its completion is announced, redelivered or retried, a
\* checkout has one order.
AtMostOneOrder ==
    \A g, h \in OrderIds :
        order[g] # None /\ order[h] # None /\ saga[g].checkout = saga[h].checkout
            => g = h

\* An order of a checkout with a mandate exists only if that mandate was
\* executed, whichever saga is ahead of the other.
OrderWasPaid ==
    \A g \in OrderIds :
        order[g] # None /\ MandateOf[saga[g].checkout] # None
            => MandateOf[saga[g].checkout] \in charged

\* A saga DTM reports as succeeded left an open order, one it reports as
\* rolled back left none, though answers are lost and calls repeated.
SagaMatchesOrder ==
    \A g \in OrderIds :
        /\ saga[g].dir = "succeed" => order[g] = "confirmed"
        /\ saga[g].dir = "failed" => order[g] # "confirmed"

\* The lines that an order saga has reserved and not released: branch 1 is
\* the one over the inventory.
HeldLines(s) ==
    IF s.dir \in {"none", "failed"} THEN {}
    ELSE IF s.at > 1 THEN DOMAIN Items[s.checkout]
    ELSE IF s.dir = "forward" THEN 1..(s.item - 1)
    ELSE s.item..Len(Items[s.checkout])

\* Its units of product p, numbered by line, and those of all order sagas.
HeldUnits(s, p) ==
    UNION {{i} \X (1..Items[s.checkout][i].quantity) :
               i \in {j \in HeldLines(s) : Items[s.checkout][j].product = p}}

Holding(p) == UNION {{g} \X HeldUnits(saga[g], p) : g \in OrderIds}

\* The inventory row reserves what the orders placed and under way hold, no
\* unit more or less, through reservations, releases on the way back and
\* updates by administrators.  Exactly three things make the count drift: a
\* save over a row that has changed since it was read (from a stale cache, or
\* beside another handler), a call that DTM makes again, and a refused line,
\* which is released although it was never reserved.
ReservedIsHeld ==
    \A p \in Products \ drifted : stock[p].ReservedQuantity = Cardinality(Holding(p))

\* An announced completion gets an order, or a saga that turned round.
AnnouncedIsHandled ==
    \A c \in Checkouts :
        queue[c] > 0 ~>
            \/ Ordered(c)
            \/ \E g \in OrderIds :
                   saga[g].checkout = c /\ saga[g].dir \in {"back", "failed"}

\* roadmap.md 2.15: "with automatic compensation on failure".
FailedIsCompensated ==
    \A g \in OrderIds : saga[g].dir = "back" ~> saga[g].dir = "failed"

=============================================================================
