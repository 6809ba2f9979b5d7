------------------------------ MODULE AfterSale ------------------------------
(***************************************************************************)
(* What happens to an order once it is placed: processing, shipping,       *)
(* delivery, cancellation, return and refund, with the mandates and the    *)
(* stock these touch - the services of domain/order, domain/payment and    *)
(* domain/inventory, their repositories and the REST, admin and MCP        *)
(* handlers that call them.                                                *)
(*                                                                         *)
(* Every service call reads an aggregate (orders and stock through Redis), *)
(* changes the copy and writes the whole row back.  A refund is a handler  *)
(* that makes several such calls, each of which may fail on its own.       *)
(***************************************************************************)
EXTENDS Integers, Sequences, FiniteSets

CONSTANTS
    Orders, Mandates, Products, Refunds, None,
    Handlers,      \* request handlers, on any replica
    Items,         \* the products of an order, one unit of each
    Total,         \* GrandTotal of an order: prices are the client's, of any sign
    MaxAmount,     \* the limit of a mandate
    Counts,        \* quantities an administrator may set
    InitialRows,   \* rows the tables may hold at first
    MaxRequests,   \* bound: requests that arrive
    MaxFaults      \* bound: saves and DELs that fail, handlers that die

Rows == Orders \cup Mandates \cup Products

\* Only these have copies in Redis.
Cached == Orders \cup Products

ASSUME AfterSaleAssumption ==
    /\ Items \in [Orders -> Seq(Products)]
    /\ Total \in [Orders -> Int]
    /\ MaxAmount \in [Mandates -> Nat \ {0}]
    /\ Counts \subseteq Nat
    /\ None \notin Rows \cup Refunds
    /\ Orders \cap Mandates = {}
    /\ Orders \cap Products = {}
    /\ Mandates \cap Products = {}
    /\ Refunds \cap Rows = {}
    /\ MaxRequests \in Nat /\ MaxFaults \in Nat

Purchase == INSTANCE Order
Payment == INSTANCE Mandate
Inventory == INSTANCE InventoryItem

\* There are orders from the start; a mandate or an item may come later.
ASSUME RowsAssumption ==
    /\ None \notin Purchase!OrderStatus \cup Payment!MandateStatus \cup Inventory!Item
    /\ \A r \in InitialRows :
          /\ r = [x \in Rows |-> r[x]]
          /\ \A o \in Orders : r[o] \in Purchase!OrderStatus
          /\ \A m \in Mandates : r[m] \in Payment!MandateStatus \cup {None}
          /\ \A p \in Products : r[p] \in Inventory!Item \cup {None}

VARIABLES
    row,       \* the rows: status of an order or a mandate, an inventory item
    cache,     \* their copies in Redis, None when absent
    refund,    \* the refunds table: [status, order, mandate], None before
    proc,      \* what each handler is doing
    reversed,  \* refunds that got their mandate refunded (history)
    returns,   \* refunds that got their order returned (history)
    disturbed, \* rows two handlers were at once at, or whose write failed
    arrived, faults

vars == <<row, cache, refund, proc, reversed, returns, disturbed, arrived, faults>>

-----------------------------------------------------------------------------
(* Interfaces: the sequences of service calls the handlers make *)

Call(op, id, arg) == [op |-> op, id |-> id, arg |-> arg]

Each(op, ids, args) == {<<Call(op, x, a)>> : x \in ids, a \in args}

\* The REST handlers compare the owner after the call, for the answer only.
RestStartProcessing == Each("StartProcessing", Orders, {None})
RestShip == Each("Ship", Orders, BOOLEAN)
RestMarkDelivered == Each("MarkDelivered", Orders, {None})
RestReturnOrder == Each("Return", Orders, {None})
RestCancelOrder == Each("CancelOrder", Orders, {None})

\* Reads, which fill the cache.
RestGetOrder == Each("Get", Orders, {None})
McpGetOrder == RestGetOrder
McpGetStock == Each("Get", Products, {None})

AdminProcessOrder == RestStartProcessing
AdminShipOrder == RestShip
AdminDeliverOrder == RestMarkDelivered
AdminReturnOrder == RestReturnOrder
AdminCancelOrder == RestCancelOrder

McpProcessOrder == RestStartProcessing
McpShipOrder == RestShip
McpDeliverOrder == RestMarkDelivered
McpReturnOrder == RestReturnOrder
McpCancelOrder == RestCancelOrder

\* REST takes the id from the client, who may name a mandate there is.
RestCreateMandate == Each("RequestMandate", Mandates, BOOLEAN)
McpCreateMandate == Each("RequestMandate", {m \in Mandates : row[m] = None}, BOOLEAN)
\* args: signed or not, past the expiry or not.
RestApproveMandate == Each("Approve", Mandates, BOOLEAN \X BOOLEAN)
McpApproveMandate == RestApproveMandate
RestExecuteMandate == Each("Execute", Mandates, {None})
McpExecuteMandate == RestExecuteMandate
RestSettleMandate == Each("Settle", Mandates, {None})
McpSettleMandate == RestSettleMandate
RestCancelMandate == Each("CancelMandate", Mandates, {None})
McpCancelMandate == RestCancelMandate
\* args: the wallet's token is valid, the user owns the mandate.
McpExchangePaymentToken == Each("ExchangeWalletToken", Mandates, BOOLEAN \X BOOLEAN)

\* An insert, which the UNIQUE product refuses when there is an item.
McpSetStock == Each("SetStock", Products, Counts)
\* GetStock first: UpdateStock when there is an item.
AdminSetStock ==
    Each("UpdateStock", {p \in Products : row[p] # None}, Counts)
    \cup Each("SetStock", {p \in Products : row[p] = None}, Counts)
AdminMcpSetStock == AdminSetStock
\* Routed, called by no saga.
SagaConfirmInventory == Each("ConfirmReservation", Products, {1})

Restocks(o) == [i \in 1..Len(Items[o]) |-> Call("Restock", Items[o][i], 1)]

\* What the service does for a refund with this status.
ProcessRefund(o, m, f, status) ==
    (IF m = None THEN <<>> ELSE <<Call("RefundMandate", m, [order |-> o, refund |-> f])>>)
    \o Restocks(o)
    \o <<Call("SaveRefund", f, [status |-> Purchase!MarkProcessed(status),
                                 order |-> o, mandate |-> m])>>

\* The order is returned before the refund of its total may be refused.
RefundCalls(o, m, f) ==
    LET status == Purchase!NewRefund(Total[o])
    IN  <<Call("Return", o, f)>>
        \o (IF status = None THEN <<>> ELSE ProcessRefund(o, m, f, status))

\* Refund ids are fresh.
InUse ==
    {f \in Refunds :
        \/ refund[f] # None
        \/ \E r \in returns : r.refund = f
        \/ \E h \in Handlers : \E i \in 1..Len(proc[h].calls) :
              f \in {proc[h].calls[i].id, proc[h].calls[i].arg}}

\* The administrator names the mandate, or none.
AdminProcessRefund ==
    {RefundCalls(o, m, f) : o \in Orders, m \in Mandates \cup {None}, f \in Refunds \ InUse}

Scripts ==
    RestStartProcessing \cup RestShip \cup RestMarkDelivered \cup RestReturnOrder
    \cup RestCancelOrder \cup AdminProcessOrder \cup AdminShipOrder
    \cup AdminDeliverOrder \cup AdminReturnOrder \cup AdminCancelOrder
    \cup AdminProcessRefund \cup McpProcessOrder \cup McpShipOrder
    \cup McpDeliverOrder \cup McpReturnOrder \cup McpCancelOrder
    \cup RestCreateMandate \cup McpCreateMandate \cup RestApproveMandate
    \cup McpApproveMandate \cup RestExecuteMandate \cup McpExecuteMandate
    \cup RestSettleMandate \cup McpSettleMandate \cup RestCancelMandate
    \cup McpCancelMandate \cup McpExchangePaymentToken \cup McpSetStock
    \cup AdminSetStock \cup AdminMcpSetStock \cup SagaConfirmInventory
    \cup RestGetOrder \cup McpGetOrder \cup McpGetStock

-----------------------------------------------------------------------------
(* The service methods, between the load and the save *)

SvcStartProcessing(o) == Purchase!StartProcessing(o)
SvcShip(o, labelled) == Purchase!Ship(o, labelled)
SvcMarkDelivered(o) == Purchase!MarkDelivered(o)
SvcReturnOrder(o) == Purchase!Return(o)
SvcCancelOrder(o) == Purchase!Cancel(o)

SvcRequestMandate(m, expired) == Payment!NewMandate(MaxAmount[m], expired)
SvcApproveMandate(s, arg) == Payment!Approve(s, arg[1], arg[2])
SvcExecuteMandate(s) == Payment!Execute(s)
SvcSettleMandate(s) == Payment!Settle(s)
SvcRefundMandate(s, m, amount) == Payment!Refund(s, amount, MaxAmount[m])
SvcCancelMandate(s) == Payment!Cancel(s)

\* A token that is refused saves the mandate as it was read, to keep an event.
SvcExchangeWalletToken(s, arg) ==
    IF ~arg[1] THEN s
    ELSE IF ~arg[2] THEN None
    ELSE Payment!Execute(s)

SvcSetStock(quantity) == Inventory!NewInventoryItem(quantity)
SvcUpdateStock(i, quantity) == Inventory!SetStock(i, quantity)
SvcConfirmReservation(i, quantity) == Inventory!ConfirmReservation(i, quantity)
SvcRestock(i, quantity) == Inventory!Restock(i, quantity)

\* Inserts need no copy.
Creates == {"RequestMandate", "SetStock"}

Method(c, x) ==
    CASE c.op = "StartProcessing" -> SvcStartProcessing(x)
      [] c.op = "Ship" -> SvcShip(x, c.arg)
      [] c.op = "MarkDelivered" -> SvcMarkDelivered(x)
      [] c.op = "Return" -> SvcReturnOrder(x)
      [] c.op = "CancelOrder" -> SvcCancelOrder(x)
      [] c.op = "RequestMandate" -> SvcRequestMandate(c.id, c.arg)
      [] c.op = "Approve" -> SvcApproveMandate(x, c.arg)
      [] c.op = "Execute" -> SvcExecuteMandate(x)
      [] c.op = "Settle" -> SvcSettleMandate(x)
      [] c.op = "RefundMandate" -> SvcRefundMandate(x, c.id, Total[c.arg.order])
      [] c.op = "CancelMandate" -> SvcCancelMandate(x)
      [] c.op = "ExchangeWalletToken" -> SvcExchangeWalletToken(x, c.arg)
      [] c.op = "SetStock" -> SvcSetStock(c.arg)
      [] c.op = "UpdateStock" -> SvcUpdateStock(x, c.arg)
      [] c.op = "ConfirmReservation" -> SvcConfirmReservation(x, c.arg)
      [] c.op = "Restock" -> SvcRestock(x, c.arg)

-----------------------------------------------------------------------------
(* The steps of a handler *)

Idle == [pc |-> "idle", calls |-> <<>>, copy |-> None]

Init ==
    /\ row \in InitialRows
    /\ cache = [x \in Cached |-> None]
    /\ refund = [f \in Refunds |-> None]
    /\ proc = [h \in Handlers |-> Idle]
    /\ reversed = {}
    /\ returns = {}
    /\ disturbed = {}
    /\ arrived = 0
    /\ faults = 0

Current(h) == proc[h].calls[1]

Arrive(h) ==
    /\ proc[h].pc = "idle"
    /\ arrived < MaxRequests
    /\ \E s \in Scripts : proc' = [proc EXCEPT ![h] = [Idle EXCEPT !.pc = "call", !.calls = s]]
    /\ arrived' = arrived + 1
    /\ UNCHANGED <<row, cache, refund, reversed, returns, disturbed, faults>>

\* What the handler does next.
Proceed(h, calls) ==
    proc' = [proc EXCEPT ![h] =
        IF calls = <<>> THEN Idle ELSE [Idle EXCEPT !.pc = "call", !.calls = calls]]

Return(h) == Proceed(h, Tail(proc[h].calls))

\* Mutation: the error of RefundMandate is ignored like that of Restock.
FailIgnored(h) ==
    Proceed(h, IF Current(h).op \in {"Restock", "RefundMandate"}
               THEN Tail(proc[h].calls) ELSE <<>>)

\* Mutation: a refund whose mandate cannot be refunded leaves no trace.
FailSilently(h) ==
    Proceed(h, IF Current(h).op = "Restock" THEN Tail(proc[h].calls) ELSE <<>>)

\* ProcessRefund records the error of RefundMandate and ignores that of
\* Restock; any other error ends the handler.
Fail(h) ==
    LET calls == proc[h].calls
        last == calls[Len(calls)]
    IN  Proceed(h, IF calls[1].op = "Restock" THEN Tail(calls)
                   ELSE IF calls[1].op = "RefundMandate"
                        THEN <<[last EXCEPT !.arg.status = Purchase!MarkFailed("pending")]>>
                   ELSE <<>>)

Busy(h, x) == proc[h].pc \in {"fill", "apply", "save", "del"} /\ Current(h).id = x

Crowded(h, x) == {y \in {x} : \E g \in Handlers \ {h} : Busy(g, y)}

\* What a read may return and where it goes on: Redis, and on a miss or an
\* error the row, which is then written to Redis.
SelectRow(x, pc) == {[pc |-> pc, copy |-> r] : r \in {row[x]} \ {None}}
ReadThrough(x) ==
    SelectRow(x, "fill") \cup {[pc |-> "apply", copy |-> r] : r \in {cache[x]} \ {None}}

FindOrder(o) == ReadThrough(o)
FindStock(p) == ReadThrough(p)
FindMandate(m) == SelectRow(m, "apply")

Find(x) ==
    CASE x \in Orders -> FindOrder(x)
      [] x \in Products -> FindStock(x)
      [] x \in Mandates -> FindMandate(x)

Load(h) ==
    LET x == Current(h).id
    IN  /\ proc[h].pc = "call"
        /\ Current(h).op \notin Creates \cup {"SaveRefund"}
        /\ disturbed' = disturbed \cup Crowded(h, x)
        /\ \/ \E r \in Find(x) : proc' = [proc EXCEPT ![h].pc = r.pc, ![h].copy = r.copy]
           \/ row[x] = None /\ Fail(h)
        /\ UNCHANGED <<row, cache, refund, reversed, returns, arrived, faults>>

\* writeCache: what the SELECT returned; an error is ignored.
FillCache(h) ==
    /\ proc[h].pc = "fill"
    /\ cache' \in {cache, [cache EXCEPT ![Current(h).id] = proc[h].copy]}
    /\ proc' = [proc EXCEPT ![h].pc = "apply"]
    /\ UNCHANGED <<row, refund, reversed, returns, disturbed, arrived, faults>>

\* Mutation: the error of the method is not looked at.
ApplyUnchecked(h) ==
    /\ proc[h].pc = "apply"
    /\ proc' = [proc EXCEPT ![h].pc = "save", ![h].copy = Method(Current(h), @)]
    /\ UNCHANGED <<row, cache, refund, reversed, returns, disturbed, arrived, faults>>

\* A read ends here: it has nothing to save.
Apply(h) ==
    LET c == Current(h)
        copy == IF c.op = "Get" THEN None ELSE Method(c, proc[h].copy)
    IN  /\ \/ proc[h].pc = "apply"
           \/ proc[h].pc = "call" /\ c.op \in Creates
        /\ IF copy = None THEN Fail(h)
           ELSE proc' = [proc EXCEPT ![h].pc = "save", ![h].copy = copy]
        /\ disturbed' = disturbed \cup (IF c.op \in Creates THEN Crowded(h, c.id) ELSE {})
        /\ UNCHANGED <<row, cache, refund, reversed, returns, arrived, faults>>

\* The upserts of the whole row.  That of a second item of a product, under an
\* id of its own, is refused.
SaveOrder(o, copy) == [row EXCEPT ![o] = copy]
SaveMandate(m, copy) == [row EXCEPT ![m] = copy]
SaveStock(p, copy) == [row EXCEPT ![p] = copy]

Upsert(x, copy) ==
    CASE x \in Orders -> SaveOrder(x, copy)
      [] x \in Mandates -> SaveMandate(x, copy)
      [] x \in Products -> SaveStock(x, copy)

Save(h) ==
    LET c == Current(h)
    IN  /\ proc[h].pc = "save"
        /\ IF c.op = "SetStock" /\ row[c.id] # None THEN Fail(h) /\ UNCHANGED row
           ELSE /\ row' = Upsert(c.id, proc[h].copy)
                /\ IF c.id \in Cached THEN proc' = [proc EXCEPT ![h].pc = "del"] ELSE Return(h)
        /\ reversed' = IF c.op = "RefundMandate" THEN reversed \cup {c.arg.refund} ELSE reversed
        /\ returns' = IF c.op = "Return" /\ c.arg # None
                      THEN returns \cup {[refund |-> c.arg, order |-> c.id]} ELSE returns
        /\ UNCHANGED <<cache, refund, disturbed, arrived, faults>>

Fault == faults < MaxFaults /\ faults' = faults + 1

SaveFails(h) ==
    /\ proc[h].pc = "save"
    /\ Fault
    /\ Fail(h)
    /\ UNCHANGED <<row, cache, refund, reversed, returns, disturbed, arrived>>

invalidateCache(h) ==
    /\ proc[h].pc = "del"
    /\ \/ cache' = [cache EXCEPT ![Current(h).id] = None] /\ UNCHANGED <<disturbed, faults>>
       \/ UNCHANGED cache /\ Fault /\ disturbed' = disturbed \cup {Current(h).id}
    /\ Return(h)
    /\ UNCHANGED <<row, refund, reversed, returns, arrived>>

\* ProcessRefund's last step: the refund, processed or failed, is inserted.
SaveRefund(h) ==
    /\ proc[h].pc = "call"
    /\ Current(h).op = "SaveRefund"
    /\ \/ /\ refund' = [refund EXCEPT ![Current(h).id] = Current(h).arg]
          /\ UNCHANGED faults
       \/ UNCHANGED refund /\ Fault
    /\ Return(h)
    /\ UNCHANGED <<row, cache, reversed, returns, disturbed, arrived>>

\* The server dies; a DEL it owed is never made.  A refund that gets no id,
\* because the clock went back, ends like this too.
Crash(h) ==
    /\ proc[h].pc # "idle"
    /\ Fault
    /\ proc' = [proc EXCEPT ![h] = Idle]
    /\ disturbed' = disturbed \cup {x \in Rows : proc[h].pc = "del" /\ Busy(h, x)}
    /\ UNCHANGED <<row, cache, refund, reversed, returns, arrived>>

Step(h) ==
    Load(h) \/ FillCache(h) \/ Apply(h) \/ Save(h) \/ invalidateCache(h) \/ SaveRefund(h)

Next == \E h \in Handlers : Arrive(h) \/ Step(h) \/ SaveFails(h) \/ Crash(h)

\* A handler that was started runs to its end.
Spec == Init /\ [][Next]_vars /\ \A h \in Handlers : WF_vars(Step(h))

-----------------------------------------------------------------------------
(* Properties *)

\* Rows and copies hold aggregates, never the error of a method.
TypeOK ==
    /\ \A o \in Orders : row[o] \in Purchase!OrderStatus
    /\ \A m \in Mandates : row[m] \in Payment!MandateStatus \cup {None}
    /\ \A p \in Products : row[p] \in Inventory!Item \cup {None}
    /\ \A o \in Orders : cache[o] \in Purchase!OrderStatus \cup {None}
    /\ \A p \in Products : cache[p] \in Inventory!Item \cup {None}
    /\ \A h \in Handlers : proc[h].pc \in {"save", "del"} => proc[h].copy # None
    /\ disturbed \subseteq Rows

\* ProcessRefund: a processed refund stands for an order that this refund took
\* back and, when it names a mandate, for a mandate it got refunded - whatever
\* raced with it and whichever of its steps failed.
RefundIsBacked ==
    \A f \in Refunds :
        refund[f] # None /\ refund[f].status = "processed" =>
            /\ [refund |-> f, order |-> refund[f].order] \in returns
            /\ refund[f].mandate # None => f \in reversed

\* ReturnOrder: an order is returned by one refund only, unless two handlers
\* worked on it at once or Redis kept an old copy.
OneReturnPerOrder ==
    \A o \in Orders \ disturbed : Cardinality({r \in returns : r.order = o}) <= 1

Moves ==
    {<<"confirmed", "processing">>, <<"processing", "shipped">>,
     <<"shipped", "delivered">>, <<"delivered", "returned">>,
     <<"confirmed", "cancelled">>, <<"processing", "cancelled">>}

\* The order service and the cache before it: an order that nobody disturbs
\* moves along its life cycle, one step at a time.
OrderMovesOn ==
    [][\A o \in Orders \ disturbed :
            row'[o] # row[o] => <<row[o], row'[o]>> \in Moves]_vars

\* PaymentService: money that was settled is not lost sight of.  A settled
\* mandate is only ever refunded, unless it was disturbed or its id was given
\* to a new mandate.
SettledIsKept ==
    [][\A m \in Mandates \ disturbed :
            row[m] = "settled" => row'[m] \in {"settled", "refunded", "requested"}]_vars

\* ProcessRefund: once it has taken back an order with something to pay back, a
\* refund is recorded, processed or failed, unless a save failed or the server
\* died.  An order whose total is not positive stays returned without one: its
\* refund is refused after the return was saved.
ReturnIsAnswered ==
    \A f \in Refunds :
        (\E r \in returns : r.refund = f /\ Total[r.order] > 0)
            ~> (refund[f] # None \/ faults > 0)

=============================================================================
