--------------------------- MODULE AfterSaleProofs ---------------------------
(***************************************************************************)
(* AfterSale's safety properties for any orders, mandates, products,       *)
(* refunds and handlers and any number of faults.                          *)
(*                                                                         *)
(* RefundIsBacked speaks of a refund that is stored; what makes it         *)
(* inductive is the calls a handler still has to make (CallsOK): as long   *)
(* as they end in a processed refund, what is not among them has been      *)
(* done.  The other properties need to know what a row nobody disturbs     *)
(* looks like (Calm): one handler at most is at it, with a copy of the row *)
(* as it stands, and Redis has that copy or none.                          *)
(***************************************************************************)
EXTENDS AfterSale, FiniteSetTheorems, SequenceTheorems, TLAPS

OrderOps == {"StartProcessing", "Ship", "MarkDelivered", "Return", "CancelOrder"}

MandateOps ==
    {"RequestMandate", "Approve", "Execute", "Settle", "RefundMandate", "CancelMandate",
     "ExchangeWalletToken"}

StockOps == {"SetStock", "UpdateStock", "ConfirmReservation", "Restock"}

RefundRow ==
    [status: {"processed", "failed"}, order: Orders, mandate: Mandates \cup {None}]

Args ==
    {None} \cup BOOLEAN \cup (BOOLEAN \X BOOLEAN) \cup Nat \cup Refunds
    \cup [order: Orders, refund: Refunds] \cup RefundRow

AllCalls ==
    [op: OrderOps \cup MandateOps \cup StockOps \cup {"Get", "SaveRefund"},
     id: Rows \cup Refunds, arg: Args]

\* A call names a row of the table it is about.
CallOK(c) ==
    /\ c \in AllCalls
    /\ c.op \in OrderOps => c.id \in Orders
    /\ c.op \in MandateOps => c.id \in Mandates
    /\ c.op \in StockOps => c.id \in Products /\ c.arg \in Nat
    /\ c.op = "Get" => c.id \in Orders \cup Products
    /\ c.op = "Return" => c.arg \in Refunds \cup {None}
    /\ c.op = "RefundMandate" => c.arg.refund \in Refunds
    /\ c.op = "SaveRefund" => c.id \in Refunds /\ c.arg \in RefundRow

\* The calls cs a handler still has to make, the first one included; rt is
\* returns, rv reversed.
Backed(cs, rt, rv) ==
    LET last == cs[Len(cs)]
    IN  last.op = "SaveRefund" /\ last.arg.status = "processed" =>
          /\ \/ [refund |-> last.id, order |-> last.arg.order] \in rt
             \/ cs[1].op = "Return" /\ cs[1].arg = last.id /\ cs[1].id = last.arg.order
          /\ last.arg.mandate # None =>
                last.id \in rv \/ \E i \in 1..Len(cs) : cs[i].op = "RefundMandate"

CallsOK(cs, rt, rv) ==
    /\ cs \in Seq(AllCalls)
    /\ \A i \in 1..Len(cs) :
          /\ CallOK(cs[i])
          /\ cs[i].op \in {"Restock", "RefundMandate"} => cs[Len(cs)].op = "SaveRefund"
          /\ cs[i].op = "RefundMandate" => cs[i].arg.refund = cs[Len(cs)].id
          /\ cs[i].op = "SaveRefund" => i = Len(cs)
    /\ cs # <<>> => Backed(cs, rt, rv)

\* v may stand in row x.
Whole(x, v) ==
    /\ x \in Orders => v \in Purchase!OrderStatus
    /\ x \in Mandates => v \in Payment!MandateStatus
    /\ x \in Products => v \in Inventory!Item

Values == Purchase!OrderStatus \cup Payment!MandateStatus \cup Inventory!Item

ProcRecord ==
    [pc: {"idle", "call", "fill", "apply", "save", "del"},
     calls: Seq(AllCalls), copy: Values \cup {None}]

\* The handler has a copy in memory.
Working(q) == q.pc \in {"fill", "apply", "save", "del"}

ProcOK(q, rt, rv) ==
    /\ q \in ProcRecord
    /\ CallsOK(q.calls, rt, rv)
    /\ q.pc # "idle" => q.calls # <<>>
    /\ Working(q) =>
          /\ q.calls[1].op # "SaveRefund"
          /\ Whole(q.calls[1].id, q.copy)
    /\ q.pc \in {"fill", "del"} => q.calls[1].id \in Cached
    /\ q.pc \in {"fill", "apply"} => q.calls[1].op \notin Creates
    /\ q.pc \in {"save", "del"} => q.calls[1].op # "Get"
    /\ q.pc = "del" /\ q.calls[1].op = "Return" /\ q.calls[1].arg # None =>
          [refund |-> q.calls[1].arg, order |-> q.calls[1].id] \in rt

RowsOK ==
    /\ row \in [Rows -> Values \cup {None}]
    /\ \A x \in Rows : row[x] # None => Whole(x, row[x])
    /\ \A o \in Orders : row[o] # None
    /\ cache \in [Cached -> Values \cup {None}]
    /\ \A x \in Cached : cache[x] # None => Whole(x, cache[x])

ProcsOK ==
    /\ proc \in [Handlers -> ProcRecord]
    /\ \A h \in Handlers : ProcOK(proc[h], returns, reversed)

HistoryOK ==
    /\ refund \in [Refunds -> RefundRow \cup {None}]
    /\ \A f \in Refunds : refund[f] # None /\ refund[f].status = "processed" =>
          /\ [refund |-> f, order |-> refund[f].order] \in returns
          /\ refund[f].mandate # None => f \in reversed
    /\ disturbed \subseteq Rows

At(q, x) == Working(q) /\ q.calls[1].id = x

\* What the service may make of the row x.
Follows(x, old, new) ==
    /\ x \in Orders => <<old, new>> \in Moves
    /\ x \in Mandates /\ old = "settled" => new \in {"settled", "refunded", "requested"}

CalmProc(q, x, r) ==
    At(q, x) =>
        /\ q.pc \in {"fill", "apply"} => q.copy = r
        /\ q.pc = "save" => /\ Follows(x, r, q.copy)
                            /\ q.calls[1].op = "Return" => q.copy = "returned"

\* An order or a mandate nobody disturbed.
Calm(x) ==
    /\ \A g, h \in Handlers : At(proc[g], x) /\ At(proc[h], x) => g = h
    /\ \A h \in Handlers : CalmProc(proc[h], x, row[x])
    /\ x \in Orders =>
          /\ \/ cache[x] \in {None, row[x]}
             \/ \E h \in Handlers : At(proc[h], x) /\ proc[h].pc = "del"
          /\ \A a, b \in returns : a.order = x /\ b.order = x => a = b
          /\ \A a \in returns : a.order = x => row[x] = "returned"

IInv ==
    /\ RowsOK
    /\ ProcsOK
    /\ HistoryOK
    /\ \A x \in (Orders \cup Mandates) \ disturbed : Calm(x)

-----------------------------------------------------------------------------
(* The calls a handler has to make *)

\* Handlers that make one call.
LEMMA SingleOK ==
    ASSUME NEW c, CallOK(c), c.op \notin {"Restock", "RefundMandate", "SaveRefund"},
           NEW rt, NEW rv
    PROVE  CallsOK(<<c>>, rt, rv) /\ <<c>> # <<>>
<1>1. <<c>> \in Seq(AllCalls) /\ Len(<<c>>) = 1 /\ <<c>>[1] = c /\ <<c>> # <<>>
  BY DEF CallOK
<1>2. PICK cs : cs = <<c>>
  OBVIOUS
<1> QED BY <1>1, <1>2 DEF CallsOK, Backed

\* What has been asked for is sound when more has been done.
LEMMA CallsGrow ==
    ASSUME NEW cs, NEW rt, NEW rv, CallsOK(cs, rt, rv), NEW rt2, NEW rv2,
           rt \subseteq rt2, rv \subseteq rv2
    PROVE  CallsOK(cs, rt2, rv2)
BY DEF CallsOK, Backed

\* The first call is made.
LEMMA TailOK ==
    ASSUME NEW cs, NEW rt, NEW rv, CallsOK(cs, rt, rv), cs # <<>>,
           NEW rt2, NEW rv2, rt \subseteq rt2, rv \subseteq rv2,
           cs[1].op = "Return" /\ cs[1].arg # None =>
              [refund |-> cs[1].arg, order |-> cs[1].id] \in rt2,
           cs[1].op = "RefundMandate" => cs[1].arg.refund \in rv2
    PROVE  CallsOK(Tail(cs), rt2, rv2)
<1>1. PICK t : t = Tail(cs)
  OBVIOUS
<1>2. PICK n : n = Len(cs)
  OBVIOUS
<1>3. /\ cs \in Seq(AllCalls) /\ n \in Nat /\ n >= 1
      /\ t \in Seq(AllCalls) /\ Len(t) = n - 1
      /\ \A i \in 1..(n - 1) : t[i] = cs[i + 1]
  BY <1>1, <1>2 DEF CallsOK
<1>4. \A i \in 1..n : CallOK(cs[i])
                     /\ (cs[i].op \in {"Restock", "RefundMandate"} => cs[n].op = "SaveRefund")
                     /\ (cs[i].op = "RefundMandate" => cs[i].arg.refund = cs[n].id)
                     /\ (cs[i].op = "SaveRefund" => i = n)
  BY <1>2 DEF CallsOK
<1>5. Backed(cs, rt, rv)
  BY DEF CallsOK
<1>6. CASE n = 1
  BY <1>1, <1>3, <1>6 DEF CallsOK
<1>7. CASE n > 1
  <2>1. t[n - 1] = cs[n]
    BY <1>3, <1>7
  <2>2. \A i \in 1..(n - 1) : i + 1 \in 1..n /\ t[i] = cs[i + 1]
    BY <1>3, <1>7
  <2>3. \A i \in 1..(n - 1) :
            /\ CallOK(t[i])
            /\ t[i].op \in {"Restock", "RefundMandate"} => t[n - 1].op = "SaveRefund"
            /\ t[i].op = "RefundMandate" => t[i].arg.refund = t[n - 1].id
            /\ t[i].op = "SaveRefund" => i = n - 1
    <3>1. ASSUME NEW i \in 1..(n - 1), t[i].op = "SaveRefund" PROVE i = n - 1
      <4>1. i + 1 = n
        BY <1>4, <2>2, <3>1
      <4> QED BY <1>3, <4>1
    <3> QED BY <1>4, <2>1, <2>2, <3>1
  <2>4. Backed(t, rt2, rv2)
    <3> DEFINE last == cs[n]
    <3>0. t[Len(t)] = last
      BY <1>3, <2>1
    <3>1. ASSUME last.op = "SaveRefund", last.arg.status = "processed"
          PROVE  [refund |-> last.id, order |-> last.arg.order] \in rt2
      <4>1. last.id \in Refunds /\ last.id # None
        BY <1>3, <1>4, <3>1, AfterSaleAssumption DEF CallOK
      <4> QED BY <1>2, <1>5, <3>1, <4>1 DEF Backed
    <3>2. ASSUME last.op = "SaveRefund", last.arg.status = "processed", last.arg.mandate # None
          PROVE  last.id \in rv2 \/ \E i \in 1..Len(t) : t[i].op = "RefundMandate"
      <4>1. last.id \in rv \/ \E i \in 1..n : cs[i].op = "RefundMandate"
        BY <1>2, <1>5, <3>2 DEF Backed
      <4>2. CASE last.id \in rv
        BY <4>2
      <4>3. ASSUME NEW i \in 1..n, cs[i].op = "RefundMandate", i = 1
            PROVE  last.id \in rv2
        BY <1>4, <4>3
      <4>4. ASSUME NEW i \in 1..n, cs[i].op = "RefundMandate", i # 1
            PROVE  \E j \in 1..Len(t) : t[j].op = "RefundMandate"
        <5>1. i - 1 \in 1..(n - 1) /\ (i - 1) + 1 = i
          BY <1>3, <4>4
        <5>2. t[i - 1] = cs[i]
          BY <2>2, <5>1
        <5> QED BY <1>3, <4>4, <5>1, <5>2
      <4> QED BY <4>1, <4>2, <4>3, <4>4
    <3> HIDE DEF last
    <3> QED BY <3>0, <3>1, <3>2 DEF Backed
  <2> QED BY <1>1, <1>3, <2>3, <2>4 DEF CallsOK
<1> QED BY <1>3, <1>6, <1>7

\* What Fail leaves to do.
Rest(calls) ==
    IF calls[1].op = "Restock" THEN Tail(calls)
    ELSE IF calls[1].op = "RefundMandate"
         THEN <<[calls[Len(calls)] EXCEPT !.arg.status = Purchase!MarkFailed("pending")]>>
    ELSE <<>>

\* A refund whose mandate was refused is recorded as failed.
LEMMA RestOK ==
    ASSUME NEW cs, NEW rt, NEW rv, CallsOK(cs, rt, rv), cs # <<>>
    PROVE  CallsOK(Rest(cs), rt, rv)
<1>1. CASE cs[1].op = "Restock"
  <2>1. CallsOK(Tail(cs), rt, rv)
    BY <1>1, TailOK
  <2> QED BY <1>1, <2>1 DEF Rest
<1>2. CASE cs[1].op = "RefundMandate"
  <2>0. Len(cs) \in Nat /\ Len(cs) >= 1
    BY DEF CallsOK
  <2>1. PICK last : last = cs[Len(cs)]
    OBVIOUS
  <2>2. last.op = "SaveRefund" /\ CallOK(last) /\ last \in AllCalls
    BY <1>2, <2>0, <2>1 DEF CallsOK, CallOK
  <2>3. PICK a : a = [last.arg EXCEPT !.status = "failed"]
    OBVIOUS
  <2>4. a \in RefundRow /\ a.status = "failed" /\ last.id \in Refunds
    BY <2>2, <2>3 DEF CallOK, RefundRow
  <2>5. PICK f : f = [last EXCEPT !.arg = a]
    OBVIOUS
  <2>6. f \in AllCalls /\ f.op = "SaveRefund" /\ f.id = last.id /\ f.arg = a
    <3>1. a \in Args
      BY <2>4 DEF Args
    <3> QED BY <2>2, <2>5, <3>1 DEF AllCalls
  <2>7. CallOK(f)
    BY <2>4, <2>6 DEF CallOK, OrderOps, MandateOps, StockOps
  <2>8. Rest(cs) = <<f>>
    BY <1>2, <2>1, <2>3, <2>5 DEF Rest, Purchase!MarkFailed
  <2>9. <<f>> \in Seq(AllCalls) /\ Len(<<f>>) = 1 /\ <<f>>[1] = f
    BY <2>6
  <2> QED BY <2>4, <2>6, <2>7, <2>8, <2>9 DEF CallsOK, Backed
<1>3. CASE cs[1].op \notin {"Restock", "RefundMandate"}
  BY <1>3 DEF Rest, CallsOK
<1> QED BY <1>1, <1>2, <1>3

\* A sequence with one more element at its end.
LEMMA SnocOK ==
    ASSUME NEW S, NEW u \in Seq(S), NEW e \in S
    PROVE  /\ u \o <<e>> \in Seq(S) /\ Len(u \o <<e>>) = Len(u) + 1
           /\ \A i \in 1..Len(u \o <<e>>) :
                 (u \o <<e>>)[i] = IF i <= Len(u) THEN u[i] ELSE e
<1>1. <<e>> \in Seq(S) /\ Len(<<e>>) = 1 /\ <<e>>[1] = e /\ Len(u) \in Nat
  OBVIOUS
<1>2. /\ u \o <<e>> \in Seq(S) /\ Len(u \o <<e>>) = Len(u) + Len(<<e>>)
      /\ \A i \in 1..Len(u) + Len(<<e>>) :
            (u \o <<e>>)[i] = IF i <= Len(u) THEN u[i] ELSE <<e>>[i - Len(u)]
  BY <1>1, ConcatProperties
<1>3. ASSUME NEW i \in 1..Len(u) + 1, ~(i <= Len(u)) PROVE i - Len(u) = 1
  BY <1>1, <1>3
<1> QED BY <1>1, <1>2, <1>3

\* ProcessRefund: the order first, then the mandate, the items, the refund.
LEMMA RefundScriptOK ==
    ASSUME NEW o \in Orders, NEW m \in Mandates \cup {None}, NEW f \in Refunds,
           NEW rt, NEW rv, NEW s,
           s = <<Call("Return", o, f)>> \o ProcessRefund(o, m, f, "pending")
    PROVE  CallsOK(s, rt, rv) /\ s # <<>>
<1>1. PICK a : a = Call("Return", o, f)
  OBVIOUS
<1>2. PICK b : b = Call("RefundMandate", m, [order |-> o, refund |-> f])
  OBVIOUS
<1>3. PICK l : l = Call("SaveRefund", f, [status |-> "processed", order |-> o, mandate |-> m])
  OBVIOUS
<1>4. PICK R : R = Restocks(o)
  OBVIOUS
<1>5. PICK B : B = IF m = None THEN <<>> ELSE <<b>>
  OBVIOUS
<1>6. s = <<a>> \o (B \o R \o <<l>>)
  BY <1>1, <1>2, <1>3, <1>4, <1>5 DEF ProcessRefund, Purchase!MarkProcessed
<1>7. CallOK(a) /\ a.op = "Return" /\ a.id = o /\ a.arg = f
  BY <1>1 DEF Call, CallOK, AllCalls, OrderOps, MandateOps, StockOps, Rows, Args
<1>8. m # None => CallOK(b) /\ b.op = "RefundMandate" /\ b.arg.refund = f
  <2>1. [order |-> o, refund |-> f] \in Args
    BY DEF Args
  <2> QED BY <1>2, <2>1 DEF Call, CallOK, AllCalls, OrderOps, MandateOps, StockOps, Rows
<1>9. /\ CallOK(l) /\ l.op = "SaveRefund" /\ l.id = f
      /\ l.arg.order = o /\ l.arg.mandate = m /\ l.arg.status = "processed"
  <2>1. PICK r : r = [status |-> "processed", order |-> o, mandate |-> m]
    OBVIOUS
  <2>2. r \in RefundRow /\ r \in Args /\ r.order = o /\ r.mandate = m /\ r.status = "processed"
    BY <2>1 DEF RefundRow, Args
  <2>3. l = Call("SaveRefund", f, r)
    BY <1>3, <2>1
  <2> QED BY <2>2, <2>3 DEF Call, CallOK, AllCalls, OrderOps, MandateOps, StockOps
<1>10. R \in Seq(AllCalls) /\ \A i \in 1..Len(R) : CallOK(R[i]) /\ R[i].op = "Restock"
  <2>1. PICK it : it = Items[o]
    OBVIOUS
  <2>2. it \in Seq(Products) /\ Len(it) \in Nat
    BY <2>1, AfterSaleAssumption
  <2>3. R = [i \in 1..Len(it) |-> Call("Restock", it[i], 1)]
    BY <1>4, <2>1 DEF Restocks
  <2>4. \A i \in 1..Len(it) :
            /\ R[i] = Call("Restock", it[i], 1)
            /\ CallOK(R[i]) /\ R[i] \in AllCalls /\ R[i].op = "Restock"
    <3>1. ASSUME NEW p \in Products
          PROVE  /\ CallOK(Call("Restock", p, 1)) /\ Call("Restock", p, 1) \in AllCalls
                 /\ Call("Restock", p, 1).op = "Restock"
      BY DEF Call, CallOK, AllCalls, OrderOps, MandateOps, StockOps, Rows, Args
    <3>2. \A i \in 1..Len(it) : it[i] \in Products /\ R[i] = Call("Restock", it[i], 1)
      BY <2>2, <2>3
    <3> QED BY <3>1, <3>2
  <2>5. R \in [1..Len(it) -> AllCalls]
    BY <2>3, <2>4
  <2>6. R \in Seq(AllCalls)
    BY <2>2, <2>5, SeqDef
  <2>7. Len(R) = Len(it)
    <3>1. DOMAIN R = 1..Len(it) /\ DOMAIN R = 1..Len(R) /\ Len(R) \in Nat
      BY <2>5, <2>6, LenProperties
    <3> QED BY <2>2, <3>1
  <2> QED BY <2>4, <2>6, <2>7
<1>11. /\ <<a>> \in Seq(AllCalls) /\ <<l>> \in Seq(AllCalls)
       /\ B \in Seq(AllCalls)
       /\ Len(<<a>>) = 1 /\ <<a>>[1] = a /\ Len(<<l>>) = 1 /\ <<l>>[1] = l
       /\ m = None => Len(B) = 0
       /\ m # None => Len(B) = 1 /\ B[1] = b
  BY <1>5, <1>7, <1>8, <1>9 DEF CallOK
<1>12. PICK T : T = <<a>> \o B
  OBVIOUS
<1>13. /\ T \in Seq(AllCalls) /\ Len(T) = 1 + Len(B) /\ Len(T) \in Nat /\ Len(B) \in 0..1
       /\ T[1] = a
       /\ m = None => Len(T) = 1
       /\ m # None => Len(T) = 2 /\ T[2] = b
  BY <1>11, <1>12
<1>14. PICK U : U = T \o R
  OBVIOUS
<1>15. /\ U \in Seq(AllCalls) /\ Len(U) = Len(T) + Len(R) /\ Len(R) \in Nat
       /\ \A i \in 1..Len(U) : U[i] = IF i <= Len(T) THEN T[i] ELSE R[i - Len(T)]
  BY <1>10, <1>13, <1>14, ConcatProperties
<1>16. /\ s \in Seq(AllCalls) /\ Len(s) = Len(U) + 1
       /\ \A i \in 1..Len(s) : s[i] = IF i <= Len(U) THEN U[i] ELSE l
  <2>1. s = U \o <<l>>
    BY <1>6, <1>12, <1>14
  <2>2. l \in AllCalls
    BY <1>9 DEF CallOK
  <2>3. /\ U \o <<l>> \in Seq(AllCalls) /\ Len(U \o <<l>>) = Len(U) + 1
        /\ \A i \in 1..Len(U \o <<l>>) :
              (U \o <<l>>)[i] = IF i <= Len(U) THEN U[i] ELSE l
    BY <1>15, <2>2, SnocOK
  <2> QED BY <2>1, <2>3, Zenon
<1>17. Len(s) \in Nat /\ Len(s) >= 2 /\ s[Len(s)] = l /\ s[1] = a
  BY <1>13, <1>15, <1>16
<1>18. ASSUME NEW i \in 1..Len(s)
       PROVE  \/ s[i] = a
              \/ m # None /\ s[i] = b
              \/ CallOK(s[i]) /\ s[i].op = "Restock"
              \/ i = Len(s) /\ s[i] = l
  <2>1. CASE i > Len(U)
    BY <1>15, <1>16, <2>1
  <2>2. CASE i <= Len(U) /\ i > Len(T)
    <3>1. i - Len(T) \in 1..Len(R) /\ s[i] = R[i - Len(T)]
      BY <1>13, <1>15, <1>16, <2>2
    <3> QED BY <1>10, <3>1
  <2>3. CASE i <= Len(T)
    <3>1. s[i] = T[i] /\ i \in 1..2 /\ (m = None => i = 1)
      BY <1>13, <1>15, <1>16, <2>3
    <3> QED BY <1>13, <3>1
  <2> QED BY <1>13, <1>15, <2>1, <2>2, <2>3
<1>19. \A i \in 1..Len(s) :
          /\ CallOK(s[i])
          /\ s[i].op = "RefundMandate" => s[i].arg.refund = f
          /\ s[i].op = "SaveRefund" => i = Len(s)
  BY <1>7, <1>8, <1>9, <1>18
<1>20. m # None => \E i \in 1..Len(s) : s[i].op = "RefundMandate"
  <2>1. ASSUME m # None PROVE 2 \in 1..Len(s) /\ s[2] = b
    BY <1>13, <1>15, <1>16, <2>1
  <2> QED BY <1>8, <2>1
<1>21. s # <<>>
  BY <1>17
<1> QED BY <1>7, <1>9, <1>16, <1>17, <1>19, <1>20, <1>21 DEF CallsOK, Backed

\* A refund of a total that is not positive ends with the return.
LEMMA RefundCallsOK ==
    ASSUME NEW o \in Orders, NEW m \in Mandates \cup {None}, NEW f \in Refunds,
           NEW rt, NEW rv, NEW s, s = RefundCalls(o, m, f)
    PROVE  CallsOK(s, rt, rv) /\ s # <<>>
<1>1. CASE Purchase!NewRefund(Total[o]) = None
  <2>1. PICK c : c = Call("Return", o, f)
    OBVIOUS
  <2>2. CallOK(c) /\ c.op = "Return"
    BY <2>1 DEF Call, CallOK, AllCalls, OrderOps, MandateOps, StockOps, Rows, Args
  <2>3. <<c>> \o <<>> = <<c>>
    BY <2>2
  <2>4. s = <<c>>
    BY <1>1, <2>1, <2>3 DEF RefundCalls
  <2> QED BY <2>2, <2>4, SingleOK
<1>2. CASE Purchase!NewRefund(Total[o]) # None
  <2>1. Purchase!NewRefund(Total[o]) = "pending"
    BY <1>2 DEF Purchase!NewRefund
  <2>2. s = <<Call("Return", o, f)>> \o ProcessRefund(o, m, f, "pending")
    BY <1>2, <2>1 DEF RefundCalls
  <2> QED BY <2>2, RefundScriptOK
<1> QED BY <1>1, <1>2

\* What the handlers ask for.
LEMMA ScriptOK ==
    ASSUME NEW s \in Scripts, NEW rt, NEW rv
    PROVE  CallsOK(s, rt, rv) /\ s # <<>>
<1>1. ASSUME NEW op, NEW ids, NEW args, s \in Each(op, ids, args),
             \A x \in ids, a \in args : CallOK(Call(op, x, a)),
             op \notin {"Restock", "RefundMandate", "SaveRefund"}
      PROVE  CallsOK(s, rt, rv) /\ s # <<>>
  <2>1. PICK x \in ids, a \in args : s = <<Call(op, x, a)>>
    BY <1>1 DEF Each
  <2>2. Call(op, x, a).op = op
    BY DEF Call
  <2> QED BY <1>1, <2>1, <2>2, SingleOK
<1>2. ASSUME NEW op \in OrderOps, NEW x \in Orders, NEW a \in {None} \cup BOOLEAN,
             op = "Return" => a = None
      PROVE  CallOK(Call(op, x, a))
  BY <1>2 DEF Call, CallOK, AllCalls, OrderOps, MandateOps, StockOps, Rows, Args
<1>3. ASSUME NEW op \in MandateOps \ {"RefundMandate"}, NEW x \in Mandates,
             NEW a \in {None} \cup BOOLEAN \cup (BOOLEAN \X BOOLEAN)
      PROVE  CallOK(Call(op, x, a))
  BY <1>3 DEF Call, CallOK, AllCalls, OrderOps, MandateOps, StockOps, Rows, Args
<1>4. ASSUME NEW op \in StockOps, NEW x \in Products, NEW a \in Nat
      PROVE  CallOK(Call(op, x, a))
  BY <1>4 DEF Call, CallOK, AllCalls, OrderOps, MandateOps, StockOps, Rows, Args
<1>5. ASSUME NEW x \in Orders \cup Products
      PROVE  CallOK(Call("Get", x, None))
  BY <1>5 DEF Call, CallOK, AllCalls, OrderOps, MandateOps, StockOps, Rows, Args
<1>6. CASE s \in RestStartProcessing \cup RestMarkDelivered \cup RestReturnOrder
              \cup RestCancelOrder \cup RestShip
  <2>1. ASSUME NEW op \in OrderOps, NEW args, s \in Each(op, Orders, args),
               args = {None} \/ (op = "Ship" /\ args = BOOLEAN)
        PROVE  CallsOK(s, rt, rv) /\ s # <<>>
    <3>1. \A x \in Orders, a \in args : CallOK(Call(op, x, a))
      BY <1>2, <2>1
    <3>2. op \notin {"Restock", "RefundMandate", "SaveRefund"}
      BY DEF OrderOps
    <3> QED BY <1>1, <2>1, <3>1, <3>2
  <2>2. {"StartProcessing", "MarkDelivered", "Return", "CancelOrder", "Ship"} \subseteq OrderOps
    BY DEF OrderOps
  <2> QED BY <1>6, <2>1, <2>2 DEF RestStartProcessing, RestMarkDelivered, RestReturnOrder,
             RestCancelOrder, RestShip
<1>7. CASE s \in RestCreateMandate \cup McpCreateMandate \cup RestApproveMandate
              \cup RestExecuteMandate \cup RestSettleMandate \cup RestCancelMandate
              \cup McpExchangePaymentToken
  <2>1. ASSUME NEW op \in MandateOps \ {"RefundMandate"}, NEW ids \in SUBSET Mandates,
               NEW args, s \in Each(op, ids, args),
               args \in {{None}, BOOLEAN, BOOLEAN \X BOOLEAN}
        PROVE  CallsOK(s, rt, rv) /\ s # <<>>
    <3>1. \A x \in ids, a \in args : CallOK(Call(op, x, a))
      BY <1>3, <2>1
    <3>2. op \notin {"Restock", "RefundMandate", "SaveRefund"}
      BY DEF MandateOps
    <3> QED BY <1>1, <2>1, <3>1, <3>2
  <2>2. {"RequestMandate", "Approve", "Execute", "Settle", "CancelMandate",
         "ExchangeWalletToken"} \subseteq MandateOps \ {"RefundMandate"}
    BY DEF MandateOps
  <2>3. {m \in Mandates : row[m] = None} \in SUBSET Mandates /\ Mandates \in SUBSET Mandates
    OBVIOUS
  <2> QED BY <1>7, <2>1, <2>2, <2>3 DEF RestCreateMandate, McpCreateMandate, RestApproveMandate,
             RestExecuteMandate, RestSettleMandate, RestCancelMandate, McpExchangePaymentToken
<1>8. CASE s \in McpSetStock \cup AdminSetStock \cup SagaConfirmInventory
  <2>1. ASSUME NEW op \in StockOps \ {"Restock"}, NEW ids \in SUBSET Products,
               NEW args \in SUBSET Nat, s \in Each(op, ids, args)
        PROVE  CallsOK(s, rt, rv) /\ s # <<>>
    <3>1. \A x \in ids, a \in args : CallOK(Call(op, x, a))
      BY <1>4, <2>1
    <3>2. op \notin {"Restock", "RefundMandate", "SaveRefund"}
      BY DEF StockOps
    <3> QED BY <1>1, <2>1, <3>1, <3>2
  <2>2. {"SetStock", "UpdateStock", "ConfirmReservation"} \subseteq StockOps \ {"Restock"}
    BY DEF StockOps
  <2>3. /\ {p \in Products : row[p] = None} \in SUBSET Products
        /\ {p \in Products : row[p] # None} \in SUBSET Products
        /\ Products \in SUBSET Products
        /\ Counts \in SUBSET Nat /\ {1} \in SUBSET Nat
    BY AfterSaleAssumption
  <2>4. \/ s \in Each("SetStock", Products, Counts)
        \/ s \in Each("UpdateStock", {p \in Products : row[p] # None}, Counts)
        \/ s \in Each("SetStock", {p \in Products : row[p] = None}, Counts)
        \/ s \in Each("ConfirmReservation", Products, {1})
    BY <1>8 DEF McpSetStock, AdminSetStock, SagaConfirmInventory
  <2> HIDE DEF Each
  <2> QED BY <2>1, <2>2, <2>3, <2>4
<1>9. CASE s \in RestGetOrder \cup McpGetStock
  BY <1>1, <1>5, <1>9 DEF RestGetOrder, McpGetStock
<1>10. CASE s \in AdminProcessRefund
  <2>1. PICK o \in Orders, m \in Mandates \cup {None}, f \in Refunds : s = RefundCalls(o, m, f)
    BY <1>10 DEF AdminProcessRefund, InUse
  <2> QED BY <2>1, RefundCallsOK
<1> QED BY <1>6, <1>7, <1>8, <1>9, <1>10 DEF Scripts, AdminProcessOrder, AdminShipOrder,
        AdminDeliverOrder, AdminReturnOrder, AdminCancelOrder, McpProcessOrder, McpShipOrder,
        McpDeliverOrder, McpReturnOrder, McpCancelOrder, McpApproveMandate, McpExecuteMandate,
        McpSettleMandate, McpCancelMandate, AdminMcpSetStock, McpGetOrder

-----------------------------------------------------------------------------
(* What a step leaves alone *)

\* A handler at rest has no calls left and owes nothing.
LEMMA IdleOK ==
    ASSUME NEW rt, NEW rv
    PROVE  ProcOK(Idle, rt, rv) /\ Idle \in ProcRecord /\ ~Working(Idle) /\ Idle.calls = <<>>
<1>1. Idle \in ProcRecord /\ Idle.pc = "idle" /\ Idle.calls = <<>> /\ Idle.copy = None
  BY DEF Idle, ProcRecord
<1>2. CallsOK(<<>>, rt, rv)
  BY DEF CallsOK
<1> HIDE DEF Idle
<1> QED BY <1>1, <1>2 DEF ProcOK, Working

\* The handler goes on to its next call.
LEMMA ProceedOK ==
    ASSUME NEW h \in Handlers, NEW calls, NEW rt, NEW rv, CallsOK(calls, rt, rv),
           Proceed(h, calls)
    PROVE  \E q : proc' = [proc EXCEPT ![h] = q] /\ ProcOK(q, rt, rv) /\ ~Working(q)
<1>1. CASE calls = <<>>
  BY <1>1, IdleOK DEF Proceed
<1>2. CASE calls # <<>>
  <2>1. PICK q : q = [Idle EXCEPT !.pc = "call", !.calls = calls]
    OBVIOUS
  <2>2. q \in ProcRecord /\ q.pc = "call" /\ q.calls = calls
    BY <2>1 DEF Idle, ProcRecord, CallsOK
  <2>3. ProcOK(q, rt, rv) /\ ~Working(q)
    BY <1>2, <2>2 DEF ProcOK, Working
  <2> QED BY <1>2, <2>1, <2>3 DEF Proceed
<1> QED BY <1>1, <1>2

\* The handler's call has failed.
LEMMA FailOK ==
    ASSUME NEW h \in Handlers, NEW rt, NEW rv, CallsOK(proc[h].calls, rt, rv),
           proc[h].calls # <<>>, Fail(h)
    PROVE  \E q : proc' = [proc EXCEPT ![h] = q] /\ ProcOK(q, rt, rv) /\ ~Working(q)
<1>1. Proceed(h, Rest(proc[h].calls))
  BY DEF Fail, Rest
<1>2. CallsOK(Rest(proc[h].calls), rt, rv)
  BY RestOK
<1> QED BY <1>1, <1>2, ProceedOK

\* One handler takes a step.
LEMMA ProcStep ==
    ASSUME ProcsOK, NEW h \in Handlers, NEW q, proc' = [proc EXCEPT ![h] = q],
           ProcOK(q, returns', reversed'), returns \subseteq returns',
           reversed \subseteq reversed'
    PROVE  ProcsOK'
<1>1. proc' \in [Handlers -> ProcRecord]
  BY DEF ProcsOK, ProcOK
<1>2. ASSUME NEW g \in Handlers PROVE ProcOK(proc'[g], returns', reversed')
  <2>1. CASE g = h
    BY <2>1 DEF ProcsOK
  <2>2. CASE g # h
    <3>1. proc'[g] = proc[g] /\ ProcOK(proc[g], returns, reversed)
      BY <2>2 DEF ProcsOK
    <3>2. CallsOK(proc[g].calls, returns', reversed')
      BY <3>1, CallsGrow DEF ProcOK
    <3> QED BY <3>1, <3>2 DEF ProcOK
  <2> QED BY <2>1, <2>2
<1> QED BY <1>1, <1>2 DEF ProcsOK

\* The refunds when none is stored.
LEMMA HistoryKept ==
    ASSUME HistoryOK, refund' = refund, returns \subseteq returns',
           reversed \subseteq reversed', disturbed' \subseteq Rows
    PROVE  HistoryOK'
BY DEF HistoryOK

\* One handler takes a step that does not write row x.
LEMMA CalmStep ==
    ASSUME ProcsOK, NEW x, Calm(x), NEW h \in Handlers, NEW q,
           proc' = [proc EXCEPT ![h] = q], row'[x] = row[x],
           x \in Orders => cache'[x] \in {None, row[x], cache[x]},
           \A a \in returns' : a.order = x => a \in returns,
           CalmProc(q, x, row[x]),
           At(q, x) => At(proc[h], x) \/ \A g \in Handlers \ {h} : ~At(proc[g], x),
           x \in Orders /\ At(proc[h], x) /\ proc[h].pc = "del" => cache'[x] = None
    PROVE  Calm(x)'
<1>1. \A g \in Handlers : proc'[g] = IF g = h THEN q ELSE proc[g]
  BY DEF ProcsOK
<1>2. ASSUME NEW f \in Handlers, NEW g \in Handlers, At(proc'[f], x), At(proc'[g], x)
      PROVE  f = g
  <2>1. CASE f = h /\ g # h
    BY <1>1, <1>2, <2>1 DEF Calm
  <2>2. CASE f # h /\ g = h
    BY <1>1, <1>2, <2>2 DEF Calm
  <2>3. CASE f # h /\ g # h
    BY <1>1, <1>2, <2>3 DEF Calm
  <2> QED BY <2>1, <2>2, <2>3
<1>3. \A g \in Handlers : CalmProc(proc'[g], x, row'[x])
  BY <1>1 DEF Calm
<1>4. x \in Orders => \/ cache'[x] \in {None, row[x]}
                      \/ \E g \in Handlers : At(proc'[g], x) /\ proc'[g].pc = "del"
  BY <1>1 DEF Calm
<1>5. x \in Orders => /\ \A a, b \in returns' : a.order = x /\ b.order = x => a = b
                      /\ \A a \in returns' : a.order = x => row[x] = "returned"
  BY DEF Calm
<1> QED BY <1>2, <1>3, <1>4, <1>5 DEF Calm

\* The call is over, or failed, and no row was written.
LEMMA LeftOK ==
    ASSUME IInv, NEW h \in Handlers, NEW q, proc' = [proc EXCEPT ![h] = q],
           ProcOK(q, returns, reversed), ~Working(q), row' = row, cache' = cache,
           returns' = returns, reversed' = reversed, refund' = refund,
           disturbed \subseteq disturbed', disturbed' \subseteq Rows,
           proc[h].pc = "del" => proc[h].calls[1].id \in disturbed'
    PROVE  IInv'
<1>1. ProcsOK' /\ RowsOK' /\ HistoryOK'
  BY ProcStep, HistoryKept DEF IInv, RowsOK
<1>2. ASSUME NEW x \in (Orders \cup Mandates) \ disturbed' PROVE Calm(x)'
  <2>1. Calm(x) /\ ~At(q, x) /\ CalmProc(q, x, row[x])
    BY DEF IInv, At, CalmProc
  <2>2. ~(At(proc[h], x) /\ proc[h].pc = "del")
    BY DEF At
  <2> QED BY <2>1, <2>2, CalmStep DEF IInv
<1> QED BY <1>1, <1>2 DEF IInv

-----------------------------------------------------------------------------
(* The steps *)

\* A request arrives.
LEMMA ArriveOK ==
    ASSUME IInv, NEW h \in Handlers, Arrive(h) PROVE IInv'
<1>1. PICK s \in Scripts :
          proc' = [proc EXCEPT ![h] = [Idle EXCEPT !.pc = "call", !.calls = s]]
  BY DEF Arrive
<1>2. CallsOK(s, returns, reversed) /\ s # <<>>
  BY ScriptOK
<1>3. PICK q : q = [Idle EXCEPT !.pc = "call", !.calls = s]
  OBVIOUS
<1>4. q \in ProcRecord /\ q.pc = "call" /\ q.calls = s
  BY <1>2, <1>3 DEF Idle, ProcRecord, CallsOK
<1>5. ProcOK(q, returns, reversed) /\ ~Working(q)
  BY <1>2, <1>4 DEF ProcOK, Working
<1>6. /\ UNCHANGED <<row, cache, refund, reversed, returns, disturbed>>
      /\ proc[h].pc = "idle" /\ disturbed \subseteq Rows
  BY DEF Arrive, IInv, HistoryOK
<1> QED BY <1>1, <1>3, <1>5, <1>6, LeftOK

\* Redis or the table: what a read returns is an aggregate of that table.
LEMMA FindOK ==
    ASSUME RowsOK, NEW x \in Rows, NEW r \in Find(x)
    PROVE  /\ r.copy # None /\ Whole(x, r.copy) /\ r.copy \in Values
           /\ \/ r.pc = "fill" /\ r.copy = row[x] /\ x \in Cached
              \/ r.pc = "apply" /\ r.copy = cache[x] /\ x \in Cached
              \/ r.pc = "apply" /\ r.copy = row[x] /\ x \in Mandates
<1>1. CASE x \in Cached
  <2>1. Find(x) = ReadThrough(x)
    BY <1>1, AfterSaleAssumption DEF Find, FindOrder, FindStock, Cached
  <2> QED BY <1>1, <2>1 DEF ReadThrough, SelectRow, RowsOK
<1>2. CASE x \in Mandates
  <2>1. Find(x) = SelectRow(x, "apply")
    BY <1>2, AfterSaleAssumption DEF Find, FindMandate
  <2> QED BY <1>2, <2>1 DEF SelectRow, RowsOK
<1> QED BY <1>1, <1>2 DEF Rows, Cached

\* The facts about the handler at its call.
LEMMA Facts ==
    ASSUME IInv, NEW h \in Handlers, proc[h].pc # "idle"
    PROVE  /\ proc \in [Handlers -> ProcRecord] /\ proc[h] \in ProcRecord
           /\ ProcOK(proc[h], returns, reversed)
           /\ CallsOK(proc[h].calls, returns, reversed) /\ proc[h].calls # <<>>
           /\ CallOK(proc[h].calls[1]) /\ Current(h) = proc[h].calls[1]
           /\ proc[h].calls[1].op # "SaveRefund" => proc[h].calls[1].id \in Rows
<1>1. /\ proc \in [Handlers -> ProcRecord] /\ proc[h] \in ProcRecord
      /\ ProcOK(proc[h], returns, reversed)
      /\ CallsOK(proc[h].calls, returns, reversed) /\ proc[h].calls # <<>>
  BY DEF IInv, ProcsOK, ProcOK
<1>2. 1 \in 1..Len(proc[h].calls)
  BY <1>1 DEF CallsOK
<1>3. CallOK(proc[h].calls[1])
  BY <1>1, <1>2 DEF CallsOK
<1>4. proc[h].calls[1].op # "SaveRefund" => proc[h].calls[1].id \in Rows
  BY <1>3 DEF CallOK, AllCalls, Rows
<1> QED BY <1>1, <1>3, <1>4 DEF Current

\* A row is read: whoever else is at it, it is disturbed.
LEMMA LoadOK ==
    ASSUME IInv, NEW h \in Handlers, Load(h) PROVE IInv'
<1>0. proc[h].pc = "call"
  BY DEF Load
<1>1. PICK c : c = proc[h].calls[1]
  OBVIOUS
<1>2. /\ proc \in [Handlers -> ProcRecord] /\ proc[h] \in ProcRecord
      /\ ProcOK(proc[h], returns, reversed)
      /\ CallsOK(proc[h].calls, returns, reversed) /\ proc[h].calls # <<>>
      /\ CallOK(c) /\ Current(h) = c
  BY <1>0, <1>1, Facts
<1>3. /\ c.op \notin Creates \cup {"SaveRefund"} /\ c.id \in Rows
      /\ disturbed' = disturbed \cup Crowded(h, c.id)
      /\ UNCHANGED <<row, cache, refund, reversed, returns>>
  BY <1>0, <1>1, <1>2, Facts DEF Load
<1>4. disturbed \subseteq disturbed' /\ disturbed' \subseteq Rows
  BY <1>3 DEF IInv, HistoryOK, Crowded
<1>5. CASE Fail(h)
  <2>1. PICK q : proc' = [proc EXCEPT ![h] = q] /\ ProcOK(q, returns, reversed) /\ ~Working(q)
    BY <1>2, <1>5, FailOK
  <2> QED BY <1>0, <1>3, <1>4, <2>1, LeftOK
<1>6. ASSUME NEW r \in Find(c.id),
             proc' = [proc EXCEPT ![h].pc = r.pc, ![h].copy = r.copy]
      PROVE  IInv'
  <2>1. /\ r.copy # None /\ Whole(c.id, r.copy) /\ r.copy \in Values
        /\ \/ r.pc = "fill" /\ r.copy = row[c.id] /\ c.id \in Cached
           \/ r.pc = "apply" /\ r.copy = cache[c.id] /\ c.id \in Cached
           \/ r.pc = "apply" /\ r.copy = row[c.id] /\ c.id \in Mandates
    BY <1>3, FindOK DEF IInv
  <2>2. PICK q : q = [proc[h] EXCEPT !.pc = r.pc, !.copy = r.copy]
    OBVIOUS
  <2>3. proc' = [proc EXCEPT ![h] = q]
    BY <1>2, <1>6, <2>2
  <2>4. /\ q \in ProcRecord /\ q.pc = r.pc /\ q.copy = r.copy /\ q.calls = proc[h].calls
        /\ q.calls[1] = c
    BY <1>1, <1>2, <2>1, <2>2 DEF ProcRecord
  <2>5. ProcOK(q, returns, reversed)
    BY <1>2, <1>3, <2>1, <2>4 DEF ProcOK
  <2>6. ProcsOK' /\ RowsOK' /\ HistoryOK'
    BY <1>3, <1>4, <2>3, <2>5, ProcStep, HistoryKept DEF IInv, RowsOK
  <2>7. ASSUME NEW x \in (Orders \cup Mandates) \ disturbed' PROVE Calm(x)'
    <3>1. Calm(x) /\ ~At(proc[h], x)
      BY <1>0, <1>4 DEF IInv, At, Working
    <3>2. CASE c.id = x
      <4>1. \A g \in Handlers \ {h} : ~At(proc[g], x)
        BY <1>3, <3>2 DEF Crowded, Busy, At, Working, Current
      <4>2. x \in Orders => cache[x] \in {None, row[x]}
        BY <3>1, <4>1 DEF Calm
      <4>3. q.copy = row[x]
        BY <2>1, <2>4, <3>2, <4>2, AfterSaleAssumption DEF Cached
      <4>4. CalmProc(q, x, row[x])
        BY <2>1, <2>4, <4>3 DEF CalmProc
      <4> QED BY <1>3, <2>3, <3>1, <4>1, <4>4, CalmStep DEF IInv
    <3>3. CASE c.id # x
      <4>1. ~At(q, x) /\ CalmProc(q, x, row[x])
        BY <2>4, <3>3 DEF At, CalmProc
      <4> QED BY <1>3, <2>3, <3>1, <4>1, CalmStep DEF IInv
    <3> QED BY <3>2, <3>3
  <2> QED BY <2>6, <2>7 DEF IInv
<1> QED BY <1>2, <1>5, <1>6 DEF Load

\* writeCache: of an undisturbed order, a copy of the row as it stands.
LEMMA FillCacheOK ==
    ASSUME IInv, NEW h \in Handlers, FillCache(h) PROVE IInv'
<1>0. proc[h].pc = "fill"
  BY DEF FillCache
<1>1. PICK c : c = proc[h].calls[1]
  OBVIOUS
<1>2. /\ proc \in [Handlers -> ProcRecord] /\ proc[h] \in ProcRecord
      /\ ProcOK(proc[h], returns, reversed)
      /\ CallOK(c) /\ Current(h) = c
  BY <1>0, <1>1, Facts
<1>3. /\ c.id \in Cached /\ Whole(c.id, proc[h].copy) /\ c.op # "SaveRefund"
      /\ c.op \notin Creates
  BY <1>0, <1>1, <1>2 DEF ProcOK, Working
<1>4. /\ UNCHANGED <<row, refund, reversed, returns, disturbed>>
      /\ cache' \in {cache, [cache EXCEPT ![c.id] = proc[h].copy]}
      /\ proc' = [proc EXCEPT ![h].pc = "apply"]
  BY <1>2 DEF FillCache
<1>5. PICK q : q = [proc[h] EXCEPT !.pc = "apply"]
  OBVIOUS
<1>6. /\ proc' = [proc EXCEPT ![h] = q]
      /\ q \in ProcRecord /\ q.pc = "apply" /\ q.copy = proc[h].copy
      /\ q.calls = proc[h].calls /\ q.calls[1] = c
  BY <1>1, <1>2, <1>4, <1>5 DEF ProcRecord
<1>7. ProcOK(q, returns, reversed)
  BY <1>0, <1>2, <1>3, <1>6 DEF ProcOK, Working
<1>8. /\ cache' \in [Cached -> Values \cup {None}]
      /\ \A y \in Cached : y # c.id => cache'[y] = cache[y]
      /\ cache'[c.id] \in {cache[c.id], proc[h].copy}
  <2>1. proc[h].copy \in Values \cup {None}
    BY <1>2 DEF ProcRecord
  <2> QED BY <1>3, <1>4, <2>1 DEF IInv, RowsOK
<1>9. RowsOK'
  BY <1>3, <1>4, <1>8 DEF IInv, RowsOK
<1>10. ProcsOK' /\ HistoryOK'
  BY <1>4, <1>6, <1>7, ProcStep, HistoryKept DEF IInv, HistoryOK
<1>11. ASSUME NEW x \in (Orders \cup Mandates) \ disturbed PROVE Calm(x)'
  <2>1. Calm(x) /\ CalmProc(proc[h], x, row[x])
    BY DEF IInv, Calm
  <2>2. CalmProc(q, x, row[x]) /\ (At(q, x) <=> At(proc[h], x))
    BY <1>0, <1>1, <1>6, <2>1 DEF CalmProc, At, Working
  <2>3. ASSUME x \in Orders PROVE cache'[x] \in {None, row[x], cache[x]}
    <3>1. CASE c.id = x
      BY <1>0, <1>1, <1>8, <2>1, <3>1 DEF CalmProc, At, Working
    <3>2. CASE c.id # x
      BY <1>8, <2>3, <3>2 DEF Cached
    <3> QED BY <3>1, <3>2
  <2> QED BY <1>0, <1>4, <1>6, <2>1, <2>2, <2>3, CalmStep DEF IInv
<1> QED BY <1>4, <1>9, <1>10, <1>11 DEF IInv

\* The service methods: what they leave is an aggregate of the same table
\* that may follow the copy they were given.
LEMMA MethodOK ==
    ASSUME NEW c, CallOK(c), c.op \notin {"Get", "SaveRefund"}, NEW v,
           c.op \notin Creates => Whole(c.id, v), Method(c, v) # None,
           NEW r, c.op \notin Creates => r = v
    PROVE  /\ Whole(c.id, Method(c, v)) /\ Method(c, v) \in Values
           /\ Follows(c.id, r, Method(c, v))
           /\ c.op = "Return" => Method(c, v) = "returned"
<1>1. PICK n : n = Method(c, v)
  OBVIOUS
<1>2. CASE c.op \in OrderOps
  <2>1. /\ c.id \in Orders /\ c.id \notin Mandates /\ c.id \notin Products
        /\ c.op \notin Creates
    BY <1>2, AfterSaleAssumption DEF CallOK, OrderOps, Creates
  <2>2. n \in Purchase!OrderStatus /\ <<v, n>> \in Moves /\ (c.op = "Return" => n = "returned")
    <3>1. CASE c.op = "StartProcessing"
      BY <1>1, <3>1 DEF Method, SvcStartProcessing, Purchase!StartProcessing,
         Purchase!OrderStatus, Moves
    <3>2. CASE c.op = "Ship"
      BY <1>1, <3>2 DEF Method, SvcShip, Purchase!Ship, Purchase!OrderStatus, Moves
    <3>3. CASE c.op = "MarkDelivered"
      BY <1>1, <3>3 DEF Method, SvcMarkDelivered, Purchase!MarkDelivered,
         Purchase!OrderStatus, Moves
    <3>4. CASE c.op = "Return"
      BY <1>1, <3>4 DEF Method, SvcReturnOrder, Purchase!Return, Purchase!OrderStatus, Moves
    <3>5. CASE c.op = "CancelOrder"
      BY <1>1, <3>5 DEF Method, SvcCancelOrder, Purchase!Cancel, Purchase!OrderStatus, Moves
    <3> QED BY <1>2, <3>1, <3>2, <3>3, <3>4, <3>5 DEF OrderOps
  <2> QED BY <1>1, <2>1, <2>2 DEF Whole, Follows, Values
<1>3. CASE c.op \in MandateOps
  <2>1. c.id \in Mandates /\ c.id \notin Orders /\ c.id \notin Products /\ c.op # "Return"
    BY <1>3, AfterSaleAssumption DEF CallOK, MandateOps
  <2>2. /\ n \in Payment!MandateStatus
        /\ r = "settled" => n \in {"settled", "refunded", "requested"}
    <3>1. CASE c.op = "RequestMandate"
      BY <1>1, <3>1 DEF Method, SvcRequestMandate, Payment!NewMandate, Payment!MandateStatus
    <3> DEFINE old == c.op # "RequestMandate"
    <3>2. old => r = v /\ v \in Payment!MandateStatus
      BY <1>3, <2>1 DEF Creates, MandateOps, Whole
    <3>3. CASE c.op = "Approve"
      BY <1>1, <3>2, <3>3 DEF Method, SvcApproveMandate, Payment!Approve, Payment!MandateStatus
    <3>4. CASE c.op = "Execute"
      BY <1>1, <3>2, <3>4 DEF Method, SvcExecuteMandate, Payment!Execute, Payment!MandateStatus
    <3>5. CASE c.op = "Settle"
      BY <1>1, <3>2, <3>5 DEF Method, SvcSettleMandate, Payment!Settle, Payment!MandateStatus
    <3>6. CASE c.op = "RefundMandate"
      BY <1>1, <3>2, <3>6 DEF Method, SvcRefundMandate, Payment!Refund, Payment!MandateStatus
    <3>7. CASE c.op = "CancelMandate"
      BY <1>1, <3>2, <3>7 DEF Method, SvcCancelMandate, Payment!Cancel, Payment!MandateStatus
    <3>8. CASE c.op = "ExchangeWalletToken"
      <4>1. n = SvcExchangeWalletToken(v, c.arg)
        BY <1>1, <3>8 DEF Method
      <4>2. n = v \/ n = Payment!Execute(v)
        BY <1>1, <4>1 DEF SvcExchangeWalletToken
      <4> QED BY <1>1, <3>2, <3>8, <4>2 DEF Payment!Execute, Payment!MandateStatus
    <3> QED BY <1>3, <3>1, <3>3, <3>4, <3>5, <3>6, <3>7, <3>8 DEF MandateOps
  <2> QED BY <1>1, <2>1, <2>2 DEF Whole, Follows, Values
<1>4. CASE c.op \in StockOps
  <2>1. /\ c.id \in Products /\ c.id \notin Orders /\ c.id \notin Mandates /\ c.op # "Return"
        /\ c.arg \in Nat
    BY <1>4, AfterSaleAssumption DEF CallOK, StockOps
  <2>2. n \in Inventory!Item
    <3>1. CASE c.op = "SetStock"
      BY <1>1, <2>1, <3>1 DEF Method, SvcSetStock, Inventory!NewInventoryItem, Inventory!Item
    <3>2. c.op # "SetStock" => v \in Inventory!Item
      BY <1>4, <2>1 DEF Creates, StockOps, Whole
    <3>3. CASE c.op = "UpdateStock"
      BY <1>1, <2>1, <3>2, <3>3 DEF Method, SvcUpdateStock, Inventory!SetStock, Inventory!Item
    <3>4. CASE c.op = "ConfirmReservation"
      BY <1>1, <2>1, <3>2, <3>4 DEF Method, SvcConfirmReservation,
         Inventory!ConfirmReservation, Inventory!Item
    <3>5. CASE c.op = "Restock"
      BY <1>1, <2>1, <3>2, <3>5 DEF Method, SvcRestock, Inventory!Restock, Inventory!Item
    <3> QED BY <1>4, <3>1, <3>3, <3>4, <3>5 DEF StockOps
  <2> QED BY <1>1, <2>1, <2>2 DEF Whole, Follows, Values
<1> QED BY <1>2, <1>3, <1>4 DEF CallOK, AllCalls

\* The method: its error ends the call, what it leaves is to be saved.
LEMMA ApplyOK ==
    ASSUME IInv, NEW h \in Handlers, Apply(h) PROVE IInv'
<1>0. proc[h].pc \in {"apply", "call"}
  BY DEF Apply
<1>1. PICK c : c = proc[h].calls[1]
  OBVIOUS
<1>2. /\ proc \in [Handlers -> ProcRecord] /\ proc[h] \in ProcRecord
      /\ ProcOK(proc[h], returns, reversed)
      /\ CallsOK(proc[h].calls, returns, reversed) /\ proc[h].calls # <<>>
      /\ CallOK(c) /\ Current(h) = c
  BY <1>0, <1>1, Facts
<1>3. PICK n : n = IF c.op = "Get" THEN None ELSE Method(c, proc[h].copy)
  OBVIOUS
<1>4. /\ UNCHANGED <<row, cache, refund, reversed, returns>>
      /\ proc[h].pc = "call" => c.op \in Creates
      /\ disturbed' = disturbed \cup (IF c.op \in Creates THEN Crowded(h, c.id) ELSE {})
      /\ IF n = None THEN Fail(h)
         ELSE proc' = [proc EXCEPT ![h].pc = "save", ![h].copy = n]
  BY <1>2, <1>3 DEF Apply
<1>5. /\ c.op # "SaveRefund" /\ c.id \in Rows
      /\ proc[h].pc = "apply" => Whole(c.id, proc[h].copy) /\ c.op \notin Creates
  <2>1. c.op # "SaveRefund"
    BY <1>0, <1>1, <1>2, <1>4 DEF ProcOK, Working, Creates
  <2> QED BY <1>0, <1>1, <1>2, <2>1, Facts DEF ProcOK, Working
<1>6. disturbed \subseteq disturbed' /\ disturbed' \subseteq Rows
  BY <1>4, <1>5 DEF IInv, HistoryOK, Crowded
<1>7. CASE n = None
  <2>1. PICK q : proc' = [proc EXCEPT ![h] = q] /\ ProcOK(q, returns, reversed) /\ ~Working(q)
    BY <1>2, <1>4, <1>7, FailOK
  <2> QED BY <1>0, <1>4, <1>6, <2>1, LeftOK
<1>8. CASE n # None
  <2>1. /\ n = Method(c, proc[h].copy) /\ c.op # "Get"
        /\ c.op \notin Creates => Whole(c.id, proc[h].copy)
    BY <1>0, <1>3, <1>4, <1>5, <1>8
  <2>2. /\ Whole(c.id, n) /\ n \in Values
        /\ c.op = "Return" => n = "returned"
        /\ \A r : (c.op \notin Creates => r = proc[h].copy) => Follows(c.id, r, n)
    BY <1>2, <1>5, <1>8, <2>1, MethodOK
  <2>3. PICK q : q = [proc[h] EXCEPT !.pc = "save", !.copy = n]
    OBVIOUS
  <2>4. /\ proc' = [proc EXCEPT ![h] = q]
        /\ q \in ProcRecord /\ q.pc = "save" /\ q.copy = n
        /\ q.calls = proc[h].calls /\ q.calls[1] = c
    BY <1>1, <1>2, <1>4, <1>8, <2>2, <2>3 DEF ProcRecord
  <2>5. ProcOK(q, returns, reversed)
    BY <1>2, <1>5, <2>1, <2>2, <2>4 DEF ProcOK
  <2>6. ProcsOK' /\ RowsOK' /\ HistoryOK'
    BY <1>4, <1>6, <2>4, <2>5, ProcStep, HistoryKept DEF IInv, RowsOK
  <2>7. ASSUME NEW x \in (Orders \cup Mandates) \ disturbed' PROVE Calm(x)'
    <3>1. Calm(x) /\ CalmProc(proc[h], x, row[x])
      BY <1>6 DEF IInv, Calm
    <3>2. ~(At(proc[h], x) /\ proc[h].pc = "del")
      BY <1>0
    <3>3. CASE c.id = x
      <4>1. c.op \notin Creates => proc[h].copy = row[x] /\ At(proc[h], x)
        BY <1>0, <1>1, <1>4, <3>1, <3>3 DEF CalmProc, At, Working
      <4>2. c.op \in Creates => \A g \in Handlers \ {h} : ~At(proc[g], x)
        BY <1>4, <3>3 DEF Crowded, Busy, At, Working, Current
      <4>3. Follows(x, row[x], n)
        BY <2>2, <3>3, <4>1
      <4>4. CalmProc(q, x, row[x])
        BY <2>2, <2>4, <4>3 DEF CalmProc
      <4> QED BY <1>4, <2>4, <3>1, <3>2, <4>1, <4>2, <4>4, CalmStep DEF IInv
    <3>4. CASE c.id # x
      <4>1. ~At(q, x) /\ CalmProc(q, x, row[x])
        BY <2>4, <3>4 DEF At, CalmProc
      <4> QED BY <1>4, <2>4, <3>1, <3>2, <4>1, CalmStep DEF IInv
    <3> QED BY <3>3, <3>4
  <2> QED BY <2>6, <2>7 DEF IInv
<1> QED BY <1>7, <1>8

\* The upsert writes one row.
LEMMA UpsertOK ==
    ASSUME NEW x \in Rows, NEW v PROVE Upsert(x, v) = [row EXCEPT ![x] = v]
<1>1. CASE x \in Orders
  BY <1>1, AfterSaleAssumption DEF Upsert, SaveOrder
<1>2. CASE x \in Mandates
  BY <1>2, AfterSaleAssumption DEF Upsert, SaveMandate
<1>3. CASE x \in Products
  BY <1>3, AfterSaleAssumption DEF Upsert, SaveStock
<1> QED BY <1>1, <1>2, <1>3 DEF Rows

\* The save: of an undisturbed row, a copy that may follow it; the first
\* return of an order is its only one, as nothing follows "returned".
LEMMA SaveOK ==
    ASSUME IInv, NEW h \in Handlers, Save(h) PROVE IInv'
<1>0. proc[h].pc = "save"
  BY DEF Save
<1>1. PICK c, copy : c = proc[h].calls[1] /\ copy = proc[h].copy
  OBVIOUS
<1>2. /\ proc \in [Handlers -> ProcRecord] /\ proc[h] \in ProcRecord
      /\ ProcOK(proc[h], returns, reversed)
      /\ CallsOK(proc[h].calls, returns, reversed) /\ proc[h].calls # <<>>
      /\ CallOK(c) /\ Current(h) = c
  BY <1>0, <1>1, Facts
<1>3. /\ c.op # "SaveRefund" /\ c.op # "Get" /\ Whole(c.id, copy) /\ c.id \in Rows
  <2>1. c.op # "SaveRefund" /\ c.op # "Get" /\ Whole(c.id, copy)
    BY <1>0, <1>1, <1>2 DEF ProcOK, Working
  <2> QED BY <1>0, <1>1, <2>1, Facts
<1>4. /\ UNCHANGED <<cache, refund, disturbed>>
      /\ reversed' = IF c.op = "RefundMandate" THEN reversed \cup {c.arg.refund} ELSE reversed
      /\ returns' = IF c.op = "Return" /\ c.arg # None
                    THEN returns \cup {[refund |-> c.arg, order |-> c.id]} ELSE returns
      /\ IF c.op = "SetStock" /\ row[c.id] # None THEN Fail(h) /\ UNCHANGED row
         ELSE /\ row' = Upsert(c.id, copy)
              /\ IF c.id \in Cached THEN proc' = [proc EXCEPT ![h].pc = "del"] ELSE Return(h)
  BY <1>1, <1>2 DEF Save
<1>5. CASE c.op = "SetStock" /\ row[c.id] # None
  <2>1. Fail(h) /\ UNCHANGED <<row, cache, refund, disturbed, reversed, returns>>
    BY <1>4, <1>5
  <2>2. PICK q : proc' = [proc EXCEPT ![h] = q] /\ ProcOK(q, returns, reversed) /\ ~Working(q)
    BY <1>2, <2>1, FailOK
  <2> QED BY <1>0, <2>1, <2>2, LeftOK DEF IInv, HistoryOK
<1>6. CASE ~(c.op = "SetStock" /\ row[c.id] # None)
  <2>1. /\ row' = [row EXCEPT ![c.id] = copy]
        /\ c.id \in Cached => proc' = [proc EXCEPT ![h].pc = "del"]
        /\ c.id \notin Cached => Return(h)
    BY <1>3, <1>4, <1>6, UpsertOK
  <2>2. /\ copy \in Values /\ copy # None
    BY <1>3, RowsAssumption DEF Whole, Values, Rows
  <2>3. /\ row' \in [Rows -> Values \cup {None}]
        /\ row'[c.id] = copy
        /\ \A x \in Rows : x # c.id => row'[x] = row[x]
    BY <1>3, <2>1, <2>2 DEF IInv, RowsOK
  <2>4. RowsOK'
    BY <1>3, <1>4, <2>2, <2>3 DEF IInv, RowsOK, Rows
  <2>5. /\ returns \subseteq returns' /\ reversed \subseteq reversed'
        /\ c.op = "Return" /\ c.arg # None => [refund |-> c.arg, order |-> c.id] \in returns'
        /\ c.op = "RefundMandate" => c.arg.refund \in reversed'
        /\ \A a \in returns' : a.order # c.id => a \in returns
        /\ \A a \in returns' : \/ a \in returns
                               \/ c.op = "Return" /\ a = [refund |-> c.arg, order |-> c.id]
    BY <1>4
  <2>6. PICK q : /\ proc' = [proc EXCEPT ![h] = q]
                 /\ ProcOK(q, returns', reversed')
                 /\ \/ ~Working(q) /\ c.id \notin Cached
                    \/ q.pc = "del" /\ q.calls[1] = c /\ c.id \in Cached
    <3>1. CASE c.id \in Cached
      <4>1. PICK q : q = [proc[h] EXCEPT !.pc = "del"]
        OBVIOUS
      <4>2. /\ proc' = [proc EXCEPT ![h] = q]
            /\ q \in ProcRecord /\ q.pc = "del" /\ q.copy = copy
            /\ q.calls = proc[h].calls /\ q.calls[1] = c
        BY <1>1, <1>2, <2>1, <3>1, <4>1 DEF ProcRecord
      <4>3. CallsOK(q.calls, returns', reversed')
        BY <1>2, <2>5, <4>2, CallsGrow
      <4>4. ProcOK(q, returns', reversed')
        BY <1>2, <1>3, <2>5, <3>1, <4>2, <4>3 DEF ProcOK
      <4> QED BY <3>1, <4>2, <4>4
    <3>2. CASE c.id \notin Cached
      <4>1. Proceed(h, Tail(proc[h].calls))
        BY <2>1, <3>2 DEF Return
      <4>2. CallsOK(Tail(proc[h].calls), returns', reversed')
        BY <1>1, <1>2, <2>5, TailOK
      <4> QED BY <3>2, <4>1, <4>2, ProceedOK
    <3> QED BY <3>1, <3>2
  <2>7. ProcsOK' /\ HistoryOK'
    BY <1>4, <2>5, <2>6, ProcStep, HistoryKept DEF IInv, HistoryOK
  <2>8. ASSUME NEW x \in (Orders \cup Mandates) \ disturbed PROVE Calm(x)'
    <3>1. Calm(x) /\ CalmProc(proc[h], x, row[x]) /\ x \in Rows
      BY DEF IInv, Calm, Rows
    <3>2. CASE c.id = x
      <4>1. At(proc[h], x) /\ Follows(x, row[x], copy) /\ (c.op = "Return" => copy = "returned")
        BY <1>0, <1>1, <3>1, <3>2 DEF At, Working, CalmProc
      <4>2. \A g \in Handlers \ {h} : ~At(proc[g], x)
        BY <3>1, <4>1 DEF Calm
      <4>3. \A g \in Handlers : proc'[g] = IF g = h THEN q ELSE proc[g]
        BY <1>2, <2>6
      <4>4. CalmProc(q, x, copy)
        BY <2>6 DEF CalmProc, At, Working
      <4>5. \A g \in Handlers : CalmProc(proc'[g], x, row'[x])
        BY <2>3, <3>2, <4>2, <4>3, <4>4 DEF CalmProc
      <4>6. \A f, g \in Handlers : At(proc'[f], x) /\ At(proc'[g], x) => f = g
        BY <4>2, <4>3
      <4>7. ASSUME x \in Orders
            PROVE  /\ At(proc'[h], x) /\ proc'[h].pc = "del"
                   /\ \A a, b \in returns' : a.order = x /\ b.order = x => a = b
                   /\ \A a \in returns' : a.order = x => row'[x] = "returned"
        <5>1. At(proc'[h], x) /\ proc'[h].pc = "del"
          BY <2>6, <3>2, <4>3, <4>7 DEF Cached, At, Working
        <5>2. row[x] # "returned"
          BY <4>1, <4>7 DEF Follows, Moves
        <5>3. \A a \in returns : a.order # x
          BY <3>1, <4>7, <5>2 DEF Calm
        <5>4. \A a \in returns' : a.order = x =>
                 c.op = "Return" /\ a = [refund |-> c.arg, order |-> c.id]
          BY <2>5, <5>3
        <5> QED BY <2>3, <3>2, <4>1, <5>1, <5>4
      <4> QED BY <4>5, <4>6, <4>7 DEF Calm
    <3>3. CASE c.id # x
      <4>1. ~At(q, x) /\ ~At(proc[h], x) /\ CalmProc(q, x, row[x])
        BY <1>1, <2>6, <3>3 DEF At, CalmProc, Working
      <4>2. row'[x] = row[x]
        BY <2>3, <3>1, <3>3
      <4>3. \A a \in returns' : a.order = x => a \in returns
        BY <2>5, <3>3
      <4> QED BY <1>4, <2>6, <3>1, <4>1, <4>2, <4>3, CalmStep DEF IInv
    <3> QED BY <3>2, <3>3
  <2> QED BY <1>4, <2>4, <2>7, <2>8 DEF IInv
<1> QED BY <1>5, <1>6

\* The save fails: the row is as it was.
LEMMA SaveFailsOK ==
    ASSUME IInv, NEW h \in Handlers, SaveFails(h) PROVE IInv'
<1>1. /\ proc[h].pc = "save" /\ Fail(h)
      /\ UNCHANGED <<row, cache, refund, reversed, returns, disturbed>>
  BY DEF SaveFails
<1>2. CallsOK(proc[h].calls, returns, reversed) /\ proc[h].calls # <<>>
  BY <1>1, Facts
<1>3. PICK q : proc' = [proc EXCEPT ![h] = q] /\ ProcOK(q, returns, reversed) /\ ~Working(q)
  BY <1>1, <1>2, FailOK
<1> QED BY <1>1, <1>3, LeftOK DEF IInv, HistoryOK

\* The DEL after a save, or its loss.
LEMMA invalidateCacheOK ==
    ASSUME IInv, NEW h \in Handlers, invalidateCache(h) PROVE IInv'
<1>0. proc[h].pc = "del"
  BY DEF invalidateCache
<1>1. PICK c : c = proc[h].calls[1]
  OBVIOUS
<1>2. /\ proc \in [Handlers -> ProcRecord] /\ proc[h] \in ProcRecord
      /\ ProcOK(proc[h], returns, reversed)
      /\ CallsOK(proc[h].calls, returns, reversed) /\ proc[h].calls # <<>>
      /\ CallOK(c) /\ Current(h) = c
  BY <1>0, <1>1, Facts
<1>3. /\ c.id \in Cached /\ c.id \notin Mandates /\ c.id \in Rows /\ c.op # "RefundMandate"
      /\ c.op = "Return" /\ c.arg # None => [refund |-> c.arg, order |-> c.id] \in returns
  <2>1. c.id \in Cached
    BY <1>0, <1>1, <1>2 DEF ProcOK
  <2>2. c.id \notin Mandates /\ c.id \in Rows
    BY <2>1, AfterSaleAssumption DEF Cached, Rows
  <2> QED BY <1>0, <1>1, <1>2, <2>1, <2>2 DEF ProcOK, CallOK, MandateOps
<1>4. /\ UNCHANGED <<row, refund, reversed, returns>> /\ Return(h)
      /\ \/ cache' = [cache EXCEPT ![c.id] = None] /\ UNCHANGED disturbed
         \/ UNCHANGED cache /\ disturbed' = disturbed \cup {c.id}
  BY <1>2 DEF invalidateCache
<1>5. PICK q : proc' = [proc EXCEPT ![h] = q] /\ ProcOK(q, returns, reversed) /\ ~Working(q)
  <2>1. CallsOK(Tail(proc[h].calls), returns, reversed)
    BY <1>1, <1>2, <1>3, TailOK
  <2> QED BY <1>4, <2>1, ProceedOK DEF Return
<1>6. CASE UNCHANGED cache /\ disturbed' = disturbed \cup {c.id}
  BY <1>1, <1>3, <1>4, <1>5, <1>6, LeftOK DEF IInv, HistoryOK
<1>7. CASE cache' = [cache EXCEPT ![c.id] = None] /\ UNCHANGED disturbed
  <2>1. /\ cache' \in [Cached -> Values \cup {None}]
        /\ \A y \in Cached : cache'[y] = IF y = c.id THEN None ELSE cache[y]
    BY <1>3, <1>7 DEF IInv, RowsOK
  <2>2. RowsOK'
    BY <1>4, <2>1 DEF IInv, RowsOK
  <2>3. ProcsOK' /\ HistoryOK'
    BY <1>4, <1>5, <1>7, ProcStep, HistoryKept DEF IInv, HistoryOK
  <2>4. ASSUME NEW x \in (Orders \cup Mandates) \ disturbed PROVE Calm(x)'
    <3>1. Calm(x) /\ ~At(q, x) /\ CalmProc(q, x, row[x])
      BY <1>5 DEF IInv, At, CalmProc
    <3>2. x \in Orders => cache'[x] \in {None, cache[x]} /\ (At(proc[h], x) => cache'[x] = None)
      BY <1>1, <2>1 DEF Cached, At
    <3> QED BY <1>4, <1>5, <3>1, <3>2, CalmStep DEF IInv
  <2> QED BY <1>7, <2>2, <2>3, <2>4 DEF IInv
<1> QED BY <1>4, <1>6, <1>7

\* The refund is stored: when it is processed, all it stands for was done.
LEMMA SaveRefundOK ==
    ASSUME IInv, NEW h \in Handlers, SaveRefund(h) PROVE IInv'
<1>0. proc[h].pc = "call"
  BY DEF SaveRefund
<1>1. PICK c, cs : c = proc[h].calls[1] /\ cs = proc[h].calls
  OBVIOUS
<1>2. /\ proc \in [Handlers -> ProcRecord] /\ CallsOK(cs, returns, reversed) /\ cs # <<>>
      /\ CallOK(c) /\ Current(h) = c
  BY <1>0, <1>1, Facts
<1>3. /\ c.op = "SaveRefund" /\ Return(h)
      /\ UNCHANGED <<row, cache, reversed, returns, disturbed>>
      /\ refund' = [refund EXCEPT ![c.id] = c.arg] \/ refund' = refund
  BY <1>2 DEF SaveRefund
<1>4. c.id \in Refunds /\ c.arg \in RefundRow
  BY <1>2, <1>3 DEF CallOK
<1>5. Len(cs) = 1 /\ cs[Len(cs)] = c
  <2>1. Len(cs) \in Nat /\ Len(cs) >= 1 /\ cs[1] = c
    BY <1>1, <1>2 DEF CallsOK
  <2>2. 1 \in 1..Len(cs)
    BY <2>1
  <2>3. cs[1].op = "SaveRefund" => 1 = Len(cs)
    BY <1>2, <2>2 DEF CallsOK
  <2> QED BY <1>3, <2>1, <2>3
<1>6. c.arg.status = "processed" =>
          /\ [refund |-> c.id, order |-> c.arg.order] \in returns
          /\ c.arg.mandate # None => c.id \in reversed
  <2>1. Backed(cs, returns, reversed) /\ cs[1] = c
    BY <1>1, <1>2 DEF CallsOK
  <2>2. \A i \in 1..Len(cs) : cs[i].op # "RefundMandate"
    BY <1>3, <1>5
  <2> QED BY <1>3, <1>5, <2>1, <2>2 DEF Backed
<1>7. PICK q : proc' = [proc EXCEPT ![h] = q] /\ ProcOK(q, returns, reversed) /\ ~Working(q)
  <2>1. CallsOK(Tail(cs), returns, reversed)
    BY <1>1, <1>2, <1>3, TailOK
  <2> QED BY <1>1, <1>3, <2>1, ProceedOK DEF Return
<1>8. HistoryOK'
  <2>1. CASE refund' = refund
    BY <1>3, <2>1, HistoryKept DEF IInv, HistoryOK
  <2>2. CASE refund' = [refund EXCEPT ![c.id] = c.arg]
    <3>1. /\ refund' \in [Refunds -> RefundRow \cup {None}]
          /\ \A f \in Refunds : refund'[f] = IF f = c.id THEN c.arg ELSE refund[f]
      BY <1>4, <2>2 DEF IInv, HistoryOK
    <3> QED BY <1>3, <1>6, <3>1 DEF IInv, HistoryOK
  <2> QED BY <1>3, <2>1, <2>2
<1>9. ProcsOK' /\ RowsOK'
  BY <1>3, <1>7, ProcStep DEF IInv, RowsOK
<1>10. ASSUME NEW x \in (Orders \cup Mandates) \ disturbed PROVE Calm(x)'
  <2>1. Calm(x) /\ ~At(q, x) /\ CalmProc(q, x, row[x]) /\ ~At(proc[h], x)
    BY <1>0, <1>7 DEF IInv, At, CalmProc, Working
  <2> QED BY <1>3, <1>7, <2>1, CalmStep DEF IInv
<1> QED BY <1>3, <1>8, <1>9, <1>10 DEF IInv

\* The server dies; of an undisturbed row, before or after all its writes.
LEMMA CrashOK ==
    ASSUME IInv, NEW h \in Handlers, Crash(h) PROVE IInv'
<1>1. /\ proc[h].pc # "idle"
      /\ UNCHANGED <<row, cache, refund, reversed, returns>>
      /\ proc' = [proc EXCEPT ![h] = Idle]
      /\ disturbed' = disturbed \cup {x \in Rows : proc[h].pc = "del" /\ Busy(h, x)}
  BY DEF Crash
<1>2. proc[h].pc = "del" => proc[h].calls[1].id \in disturbed'
  <2>1. ASSUME proc[h].pc = "del" PROVE proc[h].calls[1].id \in Rows
    BY <1>1, <2>1, Facts DEF ProcOK, Cached, Rows
  <2> QED BY <1>1, <2>1 DEF Busy, Current
<1>3. ProcOK(Idle, returns, reversed) /\ ~Working(Idle)
  BY IdleOK
<1>4. disturbed \subseteq disturbed' /\ disturbed' \subseteq Rows
  BY <1>1 DEF IInv, HistoryOK
<1> HIDE DEF Idle
<1> QED BY <1>1, <1>2, <1>3, <1>4, LeftOK

-----------------------------------------------------------------------------
(* The inductive invariant *)

\* Nobody is at work, Redis is empty and nothing was returned.
LEMMA InitOK ==
    ASSUME Init PROVE IInv
<1>1. /\ row \in InitialRows /\ cache = [x \in Cached |-> None]
      /\ refund = [f \in Refunds |-> None] /\ proc = [h \in Handlers |-> Idle]
      /\ returns = {} /\ disturbed = {}
  BY DEF Init
<1>2. /\ row = [x \in Rows |-> row[x]]
      /\ \A o \in Orders : row[o] \in Purchase!OrderStatus
      /\ \A m \in Mandates : row[m] \in Payment!MandateStatus \cup {None}
      /\ \A p \in Products : row[p] \in Inventory!Item \cup {None}
  BY <1>1, RowsAssumption
<1>3. \A x \in Rows : row[x] \in Values \cup {None} /\ (row[x] # None => Whole(x, row[x]))
  BY <1>2, AfterSaleAssumption DEF Rows, Values, Whole
<1>4. row \in [Rows -> Values \cup {None}]
  BY <1>2, <1>3
<1>5. RowsOK
  BY <1>1, <1>2, <1>3, <1>4, RowsAssumption DEF RowsOK
<1>6. ProcsOK
  BY <1>1, IdleOK DEF ProcsOK
<1>7. HistoryOK
  BY <1>1 DEF HistoryOK
<1>8. ASSUME NEW x \in Orders \cup Mandates PROVE Calm(x)
  <2>1. \A h \in Handlers : ~At(proc[h], x)
    BY <1>1, IdleOK DEF At
  <2> QED BY <1>1, <2>1 DEF Calm, CalmProc, Cached
<1> QED BY <1>5, <1>6, <1>7, <1>8 DEF IInv

\* Every step keeps the invariant.
LEMMA NextOK ==
    ASSUME IInv, [Next]_vars PROVE IInv'
<1>1. ASSUME NEW h \in Handlers, Arrive(h) \/ Step(h) \/ SaveFails(h) \/ Crash(h) PROVE IInv'
  BY <1>1, ArriveOK, LoadOK, FillCacheOK, ApplyOK, SaveOK, invalidateCacheOK, SaveRefundOK,
     SaveFailsOK, CrashOK DEF Step
<1>2. CASE UNCHANGED vars
  BY <1>2 DEF vars, IInv, RowsOK, ProcsOK, HistoryOK, Calm
<1> QED BY <1>1, <1>2 DEF Next

\* The invariant of every reachable state.
LEMMA Inductive == Spec => []IInv
BY InitOK, NextOK, PTL DEF Spec

-----------------------------------------------------------------------------
(* What it gives *)

\* No error of an aggregate's method is ever saved or cached: rows and copies
\* hold whole aggregates, whatever raced and whatever failed.
THEOREM TypeCorrect == Spec => []TypeOK
<1>1. ASSUME IInv PROVE TypeOK
  <2>1. /\ \A o \in Orders : row[o] \in Purchase!OrderStatus
        /\ \A m \in Mandates : row[m] \in Payment!MandateStatus \cup {None}
        /\ \A p \in Products : row[p] \in Inventory!Item \cup {None}
    BY <1>1 DEF IInv, RowsOK, Whole, Rows
  <2>2. /\ \A o \in Orders : cache[o] \in Purchase!OrderStatus \cup {None}
        /\ \A p \in Products : cache[p] \in Inventory!Item \cup {None}
    BY <1>1 DEF IInv, RowsOK, Whole, Cached
  <2>3. ASSUME NEW h \in Handlers, proc[h].pc \in {"save", "del"} PROVE proc[h].copy # None
    <3>1. PICK c : c = proc[h].calls[1]
      OBVIOUS
    <3>2. CallOK(c) /\ c.op # "SaveRefund" /\ c.op # "Get" /\ Whole(c.id, proc[h].copy)
      BY <1>1, <2>3, <3>1, Facts DEF ProcOK, Working
    <3>3. c.id \in Orders \/ c.id \in Mandates \/ c.id \in Products
      BY <3>2 DEF CallOK, AllCalls
    <3> QED BY <3>2, <3>3, RowsAssumption DEF Whole
  <2> QED BY <1>1, <2>1, <2>2, <2>3 DEF TypeOK, IInv, HistoryOK
<1> QED BY <1>1, Inductive, PTL

\* ProcessRefund: a processed refund stands for the return it made and the
\* mandate it reversed, for any interleaving and any faults.
THEOREM RefundsAreBacked == Spec => []RefundIsBacked
<1>1. ASSUME IInv PROVE RefundIsBacked
  BY <1>1 DEF IInv, HistoryOK, RefundIsBacked
<1> QED BY <1>1, Inductive, PTL

\* ReturnOrder: one refund returns an order, unless two handlers were at it at
\* once or Redis kept an old copy.
THEOREM ReturnedOnce == Spec => []OneReturnPerOrder
<1>1. ASSUME NEW S, \A a, b \in S : a = b PROVE Cardinality(S) <= 1
  <2>1. CASE S = {}
    BY <2>1, FS_EmptySet
  <2>2. ASSUME NEW a \in S PROVE Cardinality(S) <= 1
    <3>1. S = {a}
      BY <1>1, <2>2
    <3>2. Cardinality({a}) = 1
      BY FS_Singleton
    <3> QED BY <3>1, <3>2
  <2> QED BY <2>1, <2>2
<1>2. ASSUME IInv PROVE OneReturnPerOrder
  <2>1. ASSUME NEW o \in Orders \ disturbed
        PROVE  Cardinality({r \in returns : r.order = o}) <= 1
    <3>1. \A a, b \in {r \in returns : r.order = o} : a = b
      BY <1>2 DEF IInv, Calm
    <3> QED BY <1>1, <3>1
  <2> QED BY <2>1 DEF OneReturnPerOrder
<1> QED BY <1>2, Inductive, PTL

\* A row nobody disturbed is changed only by the handler at it, to what the
\* service makes of it.
LEMMA RowFollows ==
    ASSUME IInv, [Next]_vars, NEW x \in (Orders \cup Mandates) \ disturbed, row'[x] # row[x]
    PROVE  Follows(x, row[x], row'[x])
<1>1. PICK h \in Handlers : Save(h)
  BY DEF Next, Arrive, Step, Load, FillCache, Apply, invalidateCache, SaveRefund, SaveFails,
     Crash, vars
<1>2. PICK c : c = proc[h].calls[1]
  OBVIOUS
<1>3. proc[h].pc = "save" /\ Current(h) = c /\ CallOK(c) /\ c.op # "SaveRefund" /\ c.op # "Get"
  BY <1>1, <1>2, Facts DEF Save, ProcOK, Working
<1>4. c.id \in Orders \/ c.id \in Mandates \/ c.id \in Products
  BY <1>3 DEF CallOK, AllCalls
<1>5. row' = [row EXCEPT ![c.id] = proc[h].copy]
  BY <1>1, <1>3, <1>4 DEF Save, Upsert, SaveOrder, SaveMandate, SaveStock
<1>6. c.id = x /\ row'[x] = proc[h].copy
  BY <1>5 DEF IInv, RowsOK, Rows
<1>7. CalmProc(proc[h], x, row[x]) /\ At(proc[h], x)
  BY <1>2, <1>3, <1>6 DEF IInv, Calm, At, Working
<1> QED BY <1>3, <1>6, <1>7 DEF CalmProc

\* OrderService and its cache: an order nobody disturbs moves along its life
\* cycle, one step at a time.
THEOREM OrdersMoveOn == Spec => OrderMovesOn
<1> DEFINE Moved == \A o \in Orders \ disturbed :
              row'[o] # row[o] => <<row[o], row'[o]>> \in Moves
<1>1. IInv /\ [Next]_vars => [Moved]_vars
  BY RowFollows DEF Follows
<1>2. OrderMovesOn <=> [][Moved]_vars
  BY DEF OrderMovesOn
<1> HIDE DEF Moved
<1> QED BY <1>1, <1>2, Inductive, PTL DEF Spec

\* PaymentService: a settled mandate nobody disturbs is only ever refunded or
\* given to a new request.
THEOREM SettledStays == Spec => SettledIsKept
<1> DEFINE Kept == \A m \in Mandates \ disturbed :
              row[m] = "settled" => row'[m] \in {"settled", "refunded", "requested"}
<1>1. IInv /\ [Next]_vars => [Kept]_vars
  BY RowFollows DEF Follows
<1>2. SettledIsKept <=> [][Kept]_vars
  BY DEF SettledIsKept
<1> HIDE DEF Kept
<1> QED BY <1>1, <1>2, Inductive, PTL DEF Spec

=============================================================================
