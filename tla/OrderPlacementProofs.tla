------------------------ MODULE OrderPlacementProofs ------------------------
(***************************************************************************)
(* OrderPlacement's invariants for every set of checkouts, products,       *)
(* mandates, order ids and servers and any number of faults.               *)
(*                                                                         *)
(* DTM's position in a saga says what the branches behind it have done: an *)
(* order saga past "verify" was paid, one that has not come to "create"    *)
(* has no order, one that has left "create" backwards has no open order.   *)
(* That, and what a handler holds between its two steps, is the inductive  *)
(* invariant; a lost answer leaves the position alone, so it survives.     *)
(*                                                                         *)
(* LedgerOK is the balance of the inventory: the units the sagas hold are  *)
(* a finite set, a save adds or takes away those of one line, and the      *)
(* library's facts on cardinalities turn that into the row's arithmetic.   *)
(***************************************************************************)
EXTENDS OrderPlacement, FiniteSetTheorems, TLAPS

Copy == Inventory!Item \cup Payment!MandateStatus \cup {"confirmed", None}

SagaRecord ==
    [dir: {"none", "forward", "back", "succeed", "failed"},
     checkout: Checkouts \cup {None}, at: Nat, item: Nat, copy: Copy]

\* The number of branches of the order saga of checkout c.
Steps(c) == IF MandateOf[c] = None THEN 2 ELSE 3

Paid(c, ch) == MandateOf[c] # None => MandateOf[c] \in ch

\* An order saga s with its order o; ch are the mandates charged so far.
OrderSagaOK(s, o, ch) ==
    /\ s.dir = "none" => s = NoSaga /\ o = None
    /\ s.dir # "none" => s.checkout \in Checkouts
    /\ s.dir \in {"forward", "back"} =>
          s.at \in 1..Steps(s.checkout) /\ s.item \in DOMAIN Items[s.checkout]
    /\ s.copy # None =>
          /\ s.dir \in {"forward", "back"}
          /\ s.at = 1 => s.copy \in Inventory!Item
          /\ s.at = 2 /\ Steps(s.checkout) = 3 => s.copy = "cancelled"
          /\ s.at = Steps(s.checkout) => s.dir = "forward" /\ s.copy = "confirmed"
    /\ s.dir = "forward" /\ s.at < Steps(s.checkout) => o = None
    /\ s.dir = "back" /\ s.at < Steps(s.checkout) => o # "confirmed"
    /\ s.dir = "succeed" => o = "confirmed"
    /\ s.dir = "failed" => o # "confirmed"
    /\ o # None \/ (s.dir = "forward" /\ s.at = 3) => Paid(s.checkout, ch)

\* The saga s of mandate m.
MandateSagaOK(s, m, ch) ==
    /\ s.dir = "none" => s = NoSaga
    /\ s.checkout = None
    /\ s.dir \in {"forward", "back"} => s.at \in 1..2
    /\ s.copy # None =>
          /\ s.dir \in {"forward", "back"}
          /\ s.copy \in Payment!MandateStatus
          /\ s.copy = "settled" => m \in ch

SagasOK ==
    /\ saga \in [Gids -> SagaRecord]
    /\ \A g \in OrderIds : OrderSagaOK(saga[g], order[g], charged)
    /\ \A m \in Mandates : MandateSagaOK(saga[m], m, charged)

MandatesOK ==
    /\ mandate \in [Mandates -> Payment!MandateStatus]
    /\ charged \subseteq Mandates
    /\ \A m \in Mandates : Payment!Charged(mandate[m]) => m \in charged

StockOK ==
    /\ stock \in [Products -> Inventory!Item]
    /\ stockCache \in [Products -> Inventory!Item \cup {None}]
    /\ admin # None =>
          /\ admin.product \in Products
          /\ admin.row \in Inventory!Item /\ admin.copy \in Inventory!Item
          /\ admin.copy.ReservedQuantity = admin.row.ReservedQuantity
    /\ drifted \subseteq Products
    /\ updates \in 0..MaxUpdates

LedgerOK ==
    \A p \in Products \ drifted :
        /\ IsFiniteSet(Holding(p))
        /\ stock[p].ReservedQuantity = Cardinality(Holding(p))

\* A message being handled is not acknowledged yet.
QueueOK ==
    /\ checkout \in [Checkouts -> {"open", "charged", "completed", "cancelled"}]
    /\ queue \in [Checkouts -> 0..2]
    /\ consumer \in [Servers -> Checkouts \cup {None}]
    /\ \A c \in Checkouts :
          /\ Cardinality(Handling(c)) <= queue[c]
          /\ checkout[c] \in {"open", "charged"} => queue[c] = 0

OrdersOK ==
    /\ order \in [OrderIds -> {"confirmed", "cancelled", None}]
    /\ AtMostOneOrder

IInv ==
    /\ SagasOK
    /\ MandatesOK
    /\ StockOK
    /\ LedgerOK
    /\ QueueOK
    /\ OrdersOK
    /\ faults \in 0..MaxFaults

-----------------------------------------------------------------------------
(* Where a saga is, and what DTM's answers make of it *)

\* The branches of an order saga, by position.
LEMMA OrderBranches ==
    ASSUME NEW g \in OrderIds
    PROVE  /\ Len(Branches(g)) = Steps(saga[g].checkout)
           /\ Branches(g)[1] = "reserve"
           /\ Steps(saga[g].checkout) = 2 => Branches(g)[2] = "create"
           /\ Steps(saga[g].checkout) = 3 => /\ Branches(g)[2] = "verify"
                                             /\ Branches(g)[3] = "create"
           /\ Steps(saga[g].checkout) \in {2, 3}
           /\ Steps(saga[g].checkout) = 3 <=> MandateOf[saga[g].checkout] # None
<1>1. g \notin Mandates
  BY PlacementIdsAssumption
<1> QED BY <1>1 DEF Branches, Steps

\* The branches of a mandate's saga.
LEMMA MandateBranches ==
    ASSUME NEW g \in Mandates
    PROVE  /\ Len(Branches(g)) = 2
           /\ Branches(g)[1] = "execute"
           /\ Branches(g)[2] = "settle"
BY DEF Branches

\* What takes back what.
LEMMA Compensations ==
    /\ Compensation["reserve"] = "release"
    /\ Compensation["verify"] = "cancelPayment"
    /\ Compensation["create"] = "cancelOrder"
    /\ Compensation["execute"] = "cancelPayment"
    /\ Compensation["settle"] = "rollback"
BY DEF Compensation

\* The position of an order saga that calls a handler.
LEMMA OrderCalls ==
    ASSUME SagasOK, NEW g \in OrderIds
    PROVE  LET s == saga[g]
               n == Steps(s.checkout)
           IN  /\ Calling(g, "reserve") <=> s.dir = "forward" /\ s.at = 1
               /\ Calling(g, "release") <=> s.dir = "back" /\ s.at = 1
               /\ Calling(g, "verify") <=> s.dir = "forward" /\ s.at = 2 /\ n = 3
               /\ Calling(g, "cancelPayment") <=> s.dir = "back" /\ s.at = 2 /\ n = 3
               /\ Calling(g, "create") <=> s.dir = "forward" /\ s.at = n
               /\ Calling(g, "cancelOrder") <=> s.dir = "back" /\ s.at = n
               /\ ~Calling(g, "execute")
               /\ ~Calling(g, "settle")
               /\ ~Calling(g, "rollback")
<1> DEFINE s == saga[g]
           n == Steps(s.checkout)
           B == Branches(g)
<1>1. Running(g) => s.at \in 1..n
  BY DEF SagasOK, OrderSagaOK, Running
<1>2. /\ n \in {2, 3}
      /\ B[1] = "reserve"
      /\ n = 2 => B[2] = "create"
      /\ n = 3 => B[2] = "verify" /\ B[3] = "create"
  BY OrderBranches
<1>3. \A h : Calling(g, h) <=> /\ s.dir \in {"forward", "back"}
                               /\ h = IF s.dir = "forward" THEN B[s.at]
                                      ELSE Compensation[B[s.at]]
  BY DEF Calling, Running
<1>4. Running(g) <=> s.dir \in {"forward", "back"}
  BY DEF Running
<1> HIDE DEF s, n, B
<1>5. \/ s.dir \notin {"forward", "back"}
      \/ s.at = 1 /\ B[s.at] = "reserve"
      \/ s.at = 2 /\ n = 3 /\ B[s.at] = "verify"
      \/ s.at = n /\ s.at # 1 /\ B[s.at] = "create"
  BY <1>1, <1>2, <1>4
<1>6. n # 1
  BY <1>2
<1> QED BY <1>3, <1>5, <1>6, Compensations DEF s, n

\* The position of a mandate saga that calls a handler.
LEMMA MandateCalls ==
    ASSUME SagasOK, NEW g \in Mandates
    PROVE  LET s == saga[g]
           IN  /\ Calling(g, "execute") <=> s.dir = "forward" /\ s.at = 1
               /\ Calling(g, "settle") <=> s.dir = "forward" /\ s.at = 2
               /\ Calling(g, "cancelPayment") <=> s.dir = "back" /\ s.at = 1
               /\ Calling(g, "rollback") <=> s.dir = "back" /\ s.at = 2
               /\ ~Calling(g, "reserve")
               /\ ~Calling(g, "release")
               /\ ~Calling(g, "verify")
               /\ ~Calling(g, "create")
               /\ ~Calling(g, "cancelOrder")
<1> DEFINE s == saga[g]
           B == Branches(g)
<1>1. Running(g) => s.at \in 1..2
  BY DEF SagasOK, MandateSagaOK, Running
<1>2. B[1] = "execute" /\ B[2] = "settle"
  BY MandateBranches
<1>3. \A h : Calling(g, h) <=> /\ s.dir \in {"forward", "back"}
                               /\ h = IF s.dir = "forward" THEN B[s.at]
                                      ELSE Compensation[B[s.at]]
  BY DEF Calling, Running
<1>4. Running(g) <=> s.dir \in {"forward", "back"}
  BY DEF Running
<1> HIDE DEF s, B
<1>5. \/ s.dir \notin {"forward", "back"}
      \/ s.at = 1 /\ B[s.at] = "execute"
      \/ s.at = 2 /\ B[s.at] = "settle"
  BY <1>1, <1>2, <1>4
<1> QED BY <1>3, <1>5, Compensations DEF s

\* Again, Conflict and OK in terms of the position they leave the saga at.
LEMMA AnswerFields ==
    ASSUME SagasOK, NEW g \in Gids, Running(g)
    PROVE  LET s == saga[g]
               n == Len(Branches(g))
           IN  /\ \A a \in {Again(g), Conflict(g), OK(g)} :
                     /\ a \in SagaRecord
                     /\ a.checkout = s.checkout
                     /\ a.item = 1
                     /\ a.copy = None
               /\ Again(g).dir = s.dir /\ Again(g).at = s.at
               /\ Conflict(g).dir = "back" /\ Conflict(g).at = s.at
               /\ s.dir = "forward" /\ s.at < n =>
                     OK(g).dir = "forward" /\ OK(g).at = s.at + 1
               /\ s.dir = "forward" /\ s.at = n => OK(g).dir = "succeed"
               /\ s.dir = "back" /\ s.at > 1 => OK(g).dir = "back" /\ OK(g).at = s.at - 1
               /\ s.dir = "back" /\ s.at = 1 => OK(g).dir = "failed"
<1> DEFINE s == saga[g]
           n == Len(Branches(g))
<1>1. s \in SagaRecord /\ s.dir \in {"forward", "back"}
  BY DEF SagasOK, Running
<1>2. /\ s.at \in 1..n
      /\ n \in Nat
  <2>1. CASE g \in OrderIds
    BY <2>1, OrderBranches DEF SagasOK, OrderSagaOK, Running
  <2>2. CASE g \in Mandates
    BY <2>2, MandateBranches DEF SagasOK, MandateSagaOK, Running
  <2> QED BY <2>1, <2>2 DEF Gids
<1>3. None \in Copy
  BY DEF Copy
<1> DEFINE a == Again(g)
           x == IF s.dir = "forward" THEN s.at + 1 ELSE s.at - 1
<1>4. a = [s EXCEPT !.item = 1, !.copy = None]
  BY DEF Again
<1>5. /\ a \in SagaRecord
      /\ a.checkout = s.checkout /\ a.item = 1 /\ a.copy = None
      /\ a.dir = s.dir /\ a.at = s.at
  <2> HIDE DEF s, a
  <2> QED BY <1>1, <1>3, <1>4 DEF SagaRecord
<1>6. Conflict(g) = [a EXCEPT !.dir = "back"]
  BY DEF Conflict
<1>7. OK(g) = IF x = 0 THEN [a EXCEPT !.dir = "failed"]
              ELSE IF x > n THEN [a EXCEPT !.dir = "succeed"]
              ELSE [a EXCEPT !.at = x]
  BY DEF OK
<1> HIDE DEF s, n, a
<1>8. x \in Nat
  BY <1>1, <1>2
<1>9. /\ s.dir = "forward" => x = s.at + 1
      /\ s.dir = "back" => x = s.at - 1
  BY <1>1
<1> HIDE DEF x
<1>10. /\ Conflict(g) \in SagaRecord
       /\ Conflict(g).checkout = s.checkout /\ Conflict(g).item = 1
       /\ Conflict(g).copy = None
       /\ Conflict(g).dir = "back" /\ Conflict(g).at = s.at
  BY <1>5, <1>6 DEF SagaRecord
<1>11. /\ OK(g) \in SagaRecord
       /\ OK(g).checkout = s.checkout /\ OK(g).item = 1 /\ OK(g).copy = None
       /\ x = 0 => OK(g).dir = "failed"
       /\ x > n => OK(g).dir = "succeed"
       /\ x # 0 /\ x <= n => OK(g).dir = s.dir /\ OK(g).at = x
  BY <1>1, <1>2, <1>5, <1>7, <1>8, <1>9 DEF SagaRecord
<1>12. /\ s.dir = "forward" /\ s.at < n => x # 0 /\ x <= n
       /\ s.dir = "forward" /\ s.at = n => x > n
       /\ s.dir = "back" /\ s.at > 1 => x # 0 /\ x <= n
       /\ s.dir = "back" /\ s.at = 1 => x = 0
  BY <1>2, <1>9
<1>13. /\ s.dir = "forward" /\ s.at < n => OK(g).dir = "forward" /\ OK(g).at = s.at + 1
       /\ s.dir = "forward" /\ s.at = n => OK(g).dir = "succeed"
       /\ s.dir = "back" /\ s.at > 1 => OK(g).dir = "back" /\ OK(g).at = s.at - 1
       /\ s.dir = "back" /\ s.at = 1 => OK(g).dir = "failed"
  BY <1>9, <1>11, <1>12
<1> QED BY <1>5, <1>10, <1>11, <1>13 DEF s, n, a

\* A checkout has a first line item.
LEMMA FirstItem ==
    ASSUME NEW c \in Checkouts
    PROVE  1 \in DOMAIN Items[c] /\ Items[c] \in Seq(LineItem)
BY CartsAssumption

\* A mandate saga may be answered anything, anywhere.
LEMMA MandateAnswers ==
    ASSUME SagasOK, NEW g \in Mandates, Running(g),
           NEW a \in {Again(g), Conflict(g), OK(g)}
    PROVE  MandateSagaOK(a, g, charged)
<1>1. /\ Len(Branches(g)) = 2
      /\ MandateSagaOK(saga[g], g, charged)
      /\ g \in Gids
      /\ saga[g].dir \in {"forward", "back"}
  BY MandateBranches DEF SagasOK, Gids, Running
<1>2. a.dir # "none"
  BY <1>1, AnswerFields DEF MandateSagaOK
<1>3. a.dir \in {"forward", "back"} => a.at \in 1..2
  <2>1. saga[g].at \in 1..2
    BY <1>1 DEF MandateSagaOK
  <2>2. CASE a = OK(g)
    <3>1. /\ saga[g].dir = "forward" /\ saga[g].at < 2 => a.at = saga[g].at + 1
          /\ saga[g].dir = "forward" /\ saga[g].at = 2 => a.dir = "succeed"
          /\ saga[g].dir = "back" /\ saga[g].at > 1 => a.at = saga[g].at - 1
          /\ saga[g].dir = "back" /\ saga[g].at = 1 => a.dir = "failed"
      BY <1>1, <2>2, AnswerFields
    <3> QED BY <1>1, <2>1, <3>1
  <2>3. CASE a \in {Again(g), Conflict(g)}
    BY <1>1, <2>1, <2>3, AnswerFields
  <2> QED BY <2>2, <2>3
<1> QED BY <1>1, <1>2, <1>3, AnswerFields DEF MandateSagaOK

\* A call of an order saga may be repeated, and a branch may fail: what was
\* known of the order before "create" is enough on the way back.
LEMMA OrderTurnsRound ==
    ASSUME SagasOK, NEW g \in OrderIds, Running(g), NEW a \in {Again(g), Conflict(g)}
    PROVE  OrderSagaOK(a, order[g], charged)
<1>1. /\ OrderSagaOK(saga[g], order[g], charged)
      /\ g \in Gids
      /\ saga[g].dir \in {"forward", "back"}
  BY DEF SagasOK, Gids, Running
<1>2. /\ a.checkout = saga[g].checkout /\ a.item = 1 /\ a.copy = None
      /\ a.at = saga[g].at
      /\ a.dir \in {saga[g].dir, "back"}
  BY <1>1, AnswerFields
<1>3. 1 \in DOMAIN Items[saga[g].checkout]
  BY <1>1, FirstItem DEF OrderSagaOK
<1> QED BY <1>1, <1>2, <1>3, PlacementIdsAssumption DEF OrderSagaOK

\* A branch or compensation of an order saga succeeds and leaves order o.
LEMMA OrderMovesOn ==
    ASSUME SagasOK, NEW g \in OrderIds, Running(g), NEW o,
           LET s == saga[g]
               n == Steps(s.checkout)
           IN  /\ s.at < n => o = order[g]
               /\ s.dir = "forward" /\ s.at = n => o = "confirmed"
               /\ s.dir = "back" /\ s.at = n => o # "confirmed"
               /\ s.dir = "forward" /\ s.at = 2 /\ n = 3 => Paid(s.checkout, charged)
               /\ o # None => Paid(s.checkout, charged)
    PROVE  OrderSagaOK(OK(g), o, charged)
<1> DEFINE s == saga[g]
           n == Steps(s.checkout)
           a == OK(g)
<1>1. /\ OrderSagaOK(s, order[g], charged)
      /\ g \in Gids
      /\ s.dir \in {"forward", "back"}
      /\ n = Len(Branches(g)) /\ n \in {2, 3}
  BY OrderBranches DEF SagasOK, Gids, Running
<1>2. /\ a.checkout = s.checkout /\ a.item = 1 /\ a.copy = None
      /\ s.dir = "forward" /\ s.at < n => a.dir = "forward" /\ a.at = s.at + 1
      /\ s.dir = "forward" /\ s.at = n => a.dir = "succeed"
      /\ s.dir = "back" /\ s.at > 1 => a.dir = "back" /\ a.at = s.at - 1
      /\ s.dir = "back" /\ s.at = 1 => a.dir = "failed"
  BY <1>1, AnswerFields
<1>3. /\ 1 \in DOMAIN Items[s.checkout]
      /\ s.checkout \in Checkouts
      /\ s.at \in 1..n
  BY <1>1, FirstItem DEF OrderSagaOK
<1>4. /\ s.dir = "forward" /\ s.at < n => order[g] = None
      /\ s.dir = "back" /\ s.at < n => order[g] # "confirmed"
  BY <1>1 DEF OrderSagaOK
<1>5. /\ s.at < n => o = order[g]
      /\ s.dir = "forward" /\ s.at = n => o = "confirmed"
      /\ s.dir = "back" /\ s.at = n => o # "confirmed"
      /\ s.dir = "forward" /\ s.at = 2 /\ n = 3 => Paid(s.checkout, charged)
      /\ o # None => Paid(s.checkout, charged)
  OBVIOUS
<1> HIDE DEF s, a
<1>6. a.dir # "none"
  BY <1>1, <1>2, <1>3
<1>7. a.dir \in {"forward", "back"} => a.at \in 1..n
  BY <1>1, <1>2, <1>3
<1>8. /\ a.dir = "forward" /\ a.at < n => o = None
      /\ a.dir = "back" /\ a.at < n => o # "confirmed"
      /\ a.dir = "succeed" => o = "confirmed"
      /\ a.dir = "failed" => o # "confirmed"
  BY <1>1, <1>2, <1>3, <1>4, <1>5
<1>9. o # None \/ (a.dir = "forward" /\ a.at = 3) => Paid(a.checkout, charged)
  BY <1>1, <1>2, <1>3, <1>5
<1>10. Steps(a.checkout) = n
  BY <1>2
<1> HIDE DEF n
<1>11. OrderSagaOK(a, o, charged)
  BY <1>2, <1>3, <1>6, <1>7, <1>8, <1>9, <1>10 DEF OrderSagaOK
<1> QED BY <1>11 DEF a

-----------------------------------------------------------------------------
(* What a step leaves alone *)

\* More charges do no harm.
LEMMA ChargesGrow ==
    ASSUME NEW s, NEW o, NEW m, NEW ch, NEW ch2, ch \subseteq ch2
    PROVE  /\ OrderSagaOK(s, o, ch) => OrderSagaOK(s, o, ch2)
           /\ MandateSagaOK(s, m, ch) => MandateSagaOK(s, m, ch2)
BY DEF OrderSagaOK, MandateSagaOK, Paid

\* One saga is changed, and at most its own order.
LEMMA SagaStep ==
    ASSUME SagasOK, NEW g \in Gids, NEW s \in SagaRecord,
           saga' = [saga EXCEPT ![g] = s], charged \subseteq charged',
           \A h \in OrderIds \ {g} : order'[h] = order[h],
           g \in OrderIds => OrderSagaOK(s, order'[g], charged'),
           g \in Mandates => MandateSagaOK(s, g, charged')
    PROVE  SagasOK'
<1>1. saga' \in [Gids -> SagaRecord]
  BY DEF SagasOK
<1>2. \A h \in Gids : saga'[h] = IF h = g THEN s ELSE saga[h]
  BY DEF SagasOK
<1>3. ASSUME NEW h \in OrderIds PROVE OrderSagaOK(saga'[h], order'[h], charged')
  <2>1. CASE h = g
    BY <1>2, <2>1
  <2>2. CASE h # g
    BY <1>2, <2>2, ChargesGrow DEF SagasOK, Gids
  <2> QED BY <2>1, <2>2
<1>4. ASSUME NEW m \in Mandates PROVE MandateSagaOK(saga'[m], m, charged')
  <2>1. CASE m = g
    BY <1>2, <2>1
  <2>2. CASE m # g
    BY <1>2, <2>2, ChargesGrow DEF SagasOK, Gids
  <2> QED BY <2>1, <2>2
<1> QED BY <1>1, <1>3, <1>4 DEF SagasOK

\* One saga is changed, but not its checkout, and no order.
LEMMA OrdersKept ==
    ASSUME SagasOK, OrdersOK, NEW g \in Gids, NEW s \in SagaRecord,
           saga' = [saga EXCEPT ![g] = s], s.checkout = saga[g].checkout,
           order' = order
    PROVE  OrdersOK'
<1>1. \A h \in OrderIds : saga'[h].checkout = saga[h].checkout
  BY DEF SagasOK, Gids
<1> QED BY <1>1 DEF OrdersOK, AtMostOneOrder

\* What holds of the sagas, of the orders and of the count of faults.
SagaSide == SagasOK /\ OrdersOK /\ faults \in 0..MaxFaults

\* Faults stay within their bound.
LEMMA FaultsBounded ==
    ASSUME faults \in 0..MaxFaults, Fault \/ UNCHANGED faults
    PROVE  faults' \in 0..MaxFaults
BY PlacementIdsAssumption DEF Fault

\* A handler answers DTM, or the answer is lost, and writes no order.
LEMMA Answered ==
    ASSUME SagaSide, NEW g \in Gids, Running(g), NEW a \in {Conflict(g), OK(g)},
           Answer(g, a), order' = order, charged \subseteq charged',
           g \in OrderIds => OrderSagaOK(a, order[g], charged)
    PROVE  SagaSide'
<1>1. PICK s \in {a, Again(g)} : saga' = [saga EXCEPT ![g] = s]
  BY DEF Answer
<1>2. s \in SagaRecord /\ s.checkout = saga[g].checkout
  BY <1>1, AnswerFields DEF SagaSide
<1>3. g \in OrderIds => OrderSagaOK(s, order'[g], charged')
  BY <1>1, OrderTurnsRound, ChargesGrow DEF SagaSide
<1>4. g \in Mandates => MandateSagaOK(s, g, charged')
  BY <1>1, MandateAnswers, ChargesGrow DEF SagaSide
<1>5. SagasOK'
  BY <1>1, <1>2, <1>3, <1>4, SagaStep DEF SagaSide
<1>6. OrdersOK'
  BY <1>1, <1>2, OrdersKept DEF SagaSide
<1>7. faults' \in 0..MaxFaults
  BY FaultsBounded DEF SagaSide, Answer
<1> QED BY <1>5, <1>6, <1>7 DEF SagaSide

\* A handler keeps what it will save.
LEMMA Kept ==
    ASSUME SagaSide, NEW g \in Gids, NEW x \in Copy,
           saga' = [saga EXCEPT ![g].copy = x],
           UNCHANGED <<order, charged, faults>>,
           g \in OrderIds => OrderSagaOK([saga[g] EXCEPT !.copy = x], order[g], charged),
           g \in Mandates => MandateSagaOK([saga[g] EXCEPT !.copy = x], g, charged)
    PROVE  SagaSide'
<1> DEFINE s == [saga[g] EXCEPT !.copy = x]
<1>1. saga[g] \in SagaRecord
  BY DEF SagaSide, SagasOK
<1>2. saga' = [saga EXCEPT ![g] = s]
  OBVIOUS
<1>3. s \in SagaRecord /\ s.checkout = saga[g].checkout
  BY <1>1 DEF SagaRecord
<1>4. /\ g \in OrderIds => OrderSagaOK(s, order'[g], charged')
      /\ g \in Mandates => MandateSagaOK(s, g, charged')
      /\ charged \subseteq charged'
      /\ \A h \in OrderIds \ {g} : order'[h] = order[h]
  OBVIOUS
<1> HIDE DEF s
<1>5. SagasOK'
  BY <1>2, <1>3, <1>4, SagaStep DEF SagaSide
<1>6. OrdersOK'
  BY <1>2, <1>3, OrdersKept DEF SagaSide
<1> QED BY <1>5, <1>6 DEF SagaSide

-----------------------------------------------------------------------------
(* What the sagas hold *)

\* A saga whose units do not change changes nothing in what all hold.
LEMMA HoldingSame ==
    ASSUME saga \in [Gids -> SagaRecord], NEW g \in Gids, NEW s,
           saga' = [saga EXCEPT ![g] = s], NEW p,
           g \in OrderIds => HeldUnits(s, p) = HeldUnits(saga[g], p)
    PROVE  Holding(p)' = Holding(p)
<1>1. \A h \in OrderIds : HeldUnits(saga'[h], p) = HeldUnits(saga[h], p)
  BY DEF Gids
<1> QED BY <1>1 DEF Holding

\* The units of a product depend on the lines of that product only.
LEMMA SameUnits ==
    ASSUME NEW s, NEW t, NEW p, s.checkout = t.checkout,
           \A i : Items[s.checkout][i].product = p =>
                     (i \in HeldLines(s) <=> i \in HeldLines(t))
    PROVE  HeldUnits(s, p) = HeldUnits(t, p)
<1>1. {j \in HeldLines(s) : Items[s.checkout][j].product = p}
        = {j \in HeldLines(t) : Items[t.checkout][j].product = p}
  OBVIOUS
<1> QED BY <1>1 DEF HeldUnits

\* A saga is changed and no row: the products that have not drifted keep
\* their lines.
LEMMA LedgerSame ==
    ASSUME LedgerOK, SagasOK, NEW g \in Gids, NEW s,
           saga' = [saga EXCEPT ![g] = s], s.checkout = saga[g].checkout,
           \A p \in Products \ drifted' : stock'[p] = stock[p], drifted \subseteq drifted',
           g \in OrderIds =>
               \A i : Items[s.checkout][i].product \notin drifted' =>
                         (i \in HeldLines(s) <=> i \in HeldLines(saga[g]))
    PROVE  LedgerOK'
<1> SUFFICES ASSUME NEW p \in Products \ drifted'
             PROVE  /\ IsFiniteSet(Holding(p)')
                    /\ stock'[p].ReservedQuantity = Cardinality(Holding(p)')
  BY DEF LedgerOK
<1>1. g \in OrderIds => HeldUnits(s, p) = HeldUnits(saga[g], p)
  BY SameUnits
<1>2. Holding(p)' = Holding(p)
  BY <1>1, HoldingSame DEF SagasOK
<1>3. p \in Products \ drifted
  OBVIOUS
<1> QED BY <1>2, <1>3 DEF LedgerOK

\* Neither a saga nor a row is changed.
LEMMA LedgerIdle ==
    ASSUME LedgerOK, saga' = saga, stock' = stock, drifted' = drifted
    PROVE  LedgerOK'
<1>1. \A p : Holding(p)' = Holding(p)
  BY DEF Holding
<1> QED BY <1>1 DEF LedgerOK

\* Where DTM's answers leave a saga that is past its reservations: it holds
\* its whole cart until it is called to release it.
LEMMA AnswerHolds ==
    ASSUME SagasOK, NEW g \in OrderIds, Running(g), saga[g].at # 1,
           NEW a \in {Again(g), Conflict(g), OK(g)}
    PROVE  HeldLines(a) = HeldLines(saga[g])
<1> DEFINE s == saga[g]
           n == Len(Branches(g))
<1>1. /\ g \in Gids
      /\ s.dir \in {"forward", "back"}
      /\ s.checkout \in Checkouts
      /\ n = Steps(s.checkout) /\ n \in {2, 3}
      /\ s.at \in 2..n
  <2>1. /\ g \in Gids
        /\ s.dir \in {"forward", "back"}
        /\ s.checkout \in Checkouts
        /\ s.at \in 1..Steps(s.checkout)
    BY DEF SagasOK, OrderSagaOK, Running, Gids
  <2>2. n = Steps(s.checkout) /\ n \in {2, 3}
    BY OrderBranches
  <2> QED BY <2>1, <2>2
<1>2. /\ a.checkout = s.checkout /\ a.item = 1
      /\ a \in {Again(g), Conflict(g)} => a.dir \in {"forward", "back"} /\ a.at = s.at
      /\ a = OK(g) /\ s.dir = "forward" /\ s.at < n => a.dir = "forward" /\ a.at = s.at + 1
      /\ a = OK(g) /\ s.dir = "forward" /\ s.at = n => a.dir = "succeed"
      /\ a = OK(g) /\ s.dir = "back" => a.dir = "back" /\ a.at = s.at - 1
  BY <1>1, AnswerFields
<1>3. DOMAIN Items[s.checkout] = 1..Len(Items[s.checkout])
  BY <1>1, FirstItem
<1>4. a = OK(g) /\ s.dir = "forward" /\ s.at = n => a.at = s.at
  BY <1>1 DEF OK, Again, SagasOK, SagaRecord
<1> HIDE DEF s, n
<1>5. HeldLines(s) = DOMAIN Items[s.checkout]
  BY <1>1 DEF HeldLines
<1>6. \/ a.dir \notin {"none", "failed"} /\ a.at > 1
      \/ a.dir = "back" /\ a.at = 1
  BY <1>1, <1>2, <1>4
<1> QED BY <1>2, <1>3, <1>5, <1>6 DEF HeldLines, s

\* A handler that is not about the inventory answers.
LEMMA LedgerAnswered ==
    ASSUME LedgerOK, SagasOK, NEW g \in Gids, Running(g), g \in OrderIds => saga[g].at # 1,
           NEW a \in {Conflict(g), OK(g)}, Answer(g, a), UNCHANGED stockVars
    PROVE  LedgerOK'
<1>1. PICK s \in {a, Again(g)} : saga' = [saga EXCEPT ![g] = s]
  BY DEF Answer
<1>2. s.checkout = saga[g].checkout
  BY <1>1, AnswerFields
<1>3. g \in OrderIds => HeldLines(s) = HeldLines(saga[g])
  BY <1>1, AnswerHolds
<1> QED BY <1>1, <1>2, <1>3, LedgerSame DEF stockVars

\* A handler keeps what it will save.
LEMMA LedgerCopy ==
    ASSUME LedgerOK, SagasOK, NEW g \in Gids, NEW x,
           saga' = [saga EXCEPT ![g].copy = x], stock' = stock, drifted' = drifted
    PROVE  LedgerOK'
<1> DEFINE s == [saga[g] EXCEPT !.copy = x]
<1>1. saga[g] \in SagaRecord
  BY DEF SagasOK
<1>2. /\ saga' = [saga EXCEPT ![g] = s]
      /\ s.dir = saga[g].dir /\ s.checkout = saga[g].checkout
      /\ s.at = saga[g].at /\ s.item = saga[g].item
  BY <1>1 DEF SagaRecord
<1> HIDE DEF s
<1>3. HeldLines(s) = HeldLines(saga[g])
  BY <1>2 DEF HeldLines
<1> QED BY <1>2, <1>3, LedgerSame

-----------------------------------------------------------------------------
(* The checkout side and the consumer *)

\* A server takes, drops or finishes a message: the others keep theirs.
LEMMA HandlingCount ==
    ASSUME consumer \in [Servers -> Checkouts \cup {None}], NEW v \in Servers,
           NEW x \in Checkouts \cup {None}, consumer' = [consumer EXCEPT ![v] = x],
           NEW c \in Checkouts
    PROVE  /\ Cardinality(Handling(c)) \in Nat
           /\ Cardinality(Handling(c)') \in Nat
           /\ x = c /\ consumer[v] # c =>
                 Cardinality(Handling(c)') = Cardinality(Handling(c)) + 1
           /\ x # c /\ consumer[v] = c =>
                 Cardinality(Handling(c)') = Cardinality(Handling(c)) - 1
           /\ (x = c <=> consumer[v] = c) => Handling(c)' = Handling(c)
<1>1. Handling(c) \subseteq Servers /\ Handling(c)' \subseteq Servers
  BY DEF Handling
<1>2. IsFiniteSet(Handling(c)) /\ IsFiniteSet(Handling(c)')
  BY <1>1, FS_Subset, PlacementIdsAssumption
<1>3. /\ Cardinality(Handling(c)) \in Nat
      /\ Cardinality(Handling(c)') \in Nat
  BY <1>2, FS_CardinalityType
<1>4. ASSUME x = c, consumer[v] # c
      PROVE  Cardinality(Handling(c)') = Cardinality(Handling(c)) + 1
  <2>1. Handling(c)' = Handling(c) \cup {v} /\ v \notin Handling(c)
    BY <1>4 DEF Handling
  <2> QED BY <1>2, <2>1, FS_AddElement
<1>5. ASSUME x # c, consumer[v] = c
      PROVE  Cardinality(Handling(c)') = Cardinality(Handling(c)) - 1
  <2>1. Handling(c)' = Handling(c) \ {v} /\ v \in Handling(c)
    BY <1>5 DEF Handling
  <2> QED BY <1>2, <2>1, FS_RemoveElement
<1>6. (x = c <=> consumer[v] = c) => Handling(c)' = Handling(c)
  BY DEF Handling
<1> QED BY <1>3, <1>4, <1>5, <1>6

\* The messages in flight bound the servers that handle them.
LEMMA HandlingBound ==
    ASSUME QueueOK, NEW c \in Checkouts
    PROVE  Cardinality(Handling(c)) \in Nat
<1>1. IsFiniteSet(Handling(c))
  BY FS_Subset, PlacementIdsAssumption DEF Handling
<1> QED BY <1>1, FS_CardinalityType

\* A mandate's saga is submitted.
LEMMA ChargeOK ==
    ASSUME IInv, NEW c \in Checkouts, Charge(c)
    PROVE  IInv'
<1> DEFINE m == MandateOf[c]
           s == IF saga[m] = NoSaga THEN Submitted(None) ELSE saga[m]
<1>1. m \in Mandates /\ m \in Gids /\ m \notin OrderIds
  BY CartsAssumption, PlacementIdsAssumption DEF Charge, Gids
<1>2. saga' = [saga EXCEPT ![m] = s]
  BY DEF Charge
<1>3. s \in SagaRecord /\ MandateSagaOK(s, m, charged) /\ s.checkout = saga[m].checkout
  <2>1. saga[m] \in SagaRecord /\ MandateSagaOK(saga[m], m, charged)
    BY <1>1 DEF IInv, SagasOK
  <2>2. /\ Submitted(None) \in SagaRecord
        /\ MandateSagaOK(Submitted(None), m, charged)
        /\ Submitted(None).checkout = None
    <3> DEFINE t == Submitted(None)
    <3>1. /\ t \in SagaRecord
          /\ t.dir = "forward" /\ t.checkout = None /\ t.at = 1 /\ t.copy = None
      BY DEF Submitted, NoSaga, SagaRecord, Copy
    <3> HIDE DEF t
    <3>2. MandateSagaOK(t, m, charged)
      BY <3>1 DEF MandateSagaOK
    <3> QED BY <3>1, <3>2 DEF t
  <2>3. saga[m] = NoSaga => saga[m].checkout = None
    BY DEF NoSaga
  <2> QED BY <2>1, <2>2, <2>3
<1>4. charged' = charged /\ order' = order
  BY DEF Charge
<1> HIDE DEF m, s
<1>5. SagasOK'
  BY <1>1, <1>2, <1>3, <1>4, SagaStep DEF IInv
<1>6. OrdersOK'
  BY <1>1, <1>2, <1>3, <1>4, OrdersKept DEF IInv
<1>7. QueueOK'
  BY DEF IInv, Charge, QueueOK, Handling
<1>8. LedgerOK'
  BY <1>1, <1>2, <1>3, LedgerSame DEF IInv, Charge, stockVars
<1> QED BY <1>5, <1>6, <1>7, <1>8
        DEF IInv, Charge, MandatesOK, StockOK, stockVars

\* A checkout completes and is announced.
LEMMA CompleteCheckoutOK ==
    ASSUME IInv, NEW c \in Checkouts, CompleteCheckout(c)
    PROVE  IInv'
<1>1. QueueOK'
  <2>1. /\ checkout' = [checkout EXCEPT ![c] = "completed"]
        /\ consumer' = consumer
        /\ queue' = queue \/ \E n \in 1..2 : queue' = [queue EXCEPT ![c] = n]
        /\ queue[c] = 0
    BY DEF IInv, CompleteCheckout, QueueOK
  <2>2. \A d \in Checkouts : Handling(d)' = Handling(d) /\ Cardinality(Handling(d)) \in Nat
    BY <2>1, HandlingBound DEF IInv, Handling
  <2>3. queue' \in [Checkouts -> 0..2]
    BY <2>1 DEF IInv, QueueOK
  <2>4. \A d \in Checkouts : queue'[d] >= queue[d] /\ (d # c => queue'[d] = queue[d])
    BY <2>1 DEF IInv, QueueOK
  <2>5. \A d \in Checkouts : Cardinality(Handling(d)') <= queue'[d]
    BY <2>2, <2>3, <2>4 DEF IInv, QueueOK
  <2> QED BY <2>1, <2>3, <2>4, <2>5 DEF IInv, QueueOK
<1>2. faults' \in 0..MaxFaults
  BY FaultsBounded DEF IInv, CompleteCheckout
<1>3. LedgerOK'
  BY LedgerIdle DEF IInv, CompleteCheckout, stockVars
<1> QED BY <1>1, <1>2, <1>3 DEF IInv, CompleteCheckout, SagasOK, MandatesOK, StockOK,
        stockVars, OrdersOK, AtMostOneOrder

\* A stale save takes the completion back.
LEMMA OverwriteCheckoutOK ==
    ASSUME IInv, NEW c \in Checkouts, OverwriteCheckout(c)
    PROVE  IInv'
<1>1. QueueOK'
  BY DEF IInv, OverwriteCheckout, QueueOK, Handling
<1>2. faults' \in 0..MaxFaults
  BY FaultsBounded DEF IInv, OverwriteCheckout
<1>3. LedgerOK'
  BY LedgerIdle DEF IInv, OverwriteCheckout, stockVars
<1> QED BY <1>1, <1>2, <1>3 DEF IInv, OverwriteCheckout, SagasOK, MandatesOK, StockOK,
        stockVars, OrdersOK, AtMostOneOrder

\* A server takes an announcement.
LEMMA ReceiveOK ==
    ASSUME IInv, NEW v \in Servers, NEW c \in Checkouts, Receive(v, c)
    PROVE  IInv'
<1>1. QueueOK'
  <2>0. /\ QueueOK
        /\ consumer \in [Servers -> Checkouts \cup {None}]
        /\ queue \in [Checkouts -> 0..2]
        /\ c # None
        /\ checkout' = checkout
        /\ consumer[v] = None
        /\ queue[c] > Cardinality(Handling(c))
    BY PlacementIdsAssumption DEF IInv, QueueOK, Receive
  <2>1. CASE queue' = [queue EXCEPT ![c] = @ - 1] /\ consumer' = consumer
    <3>1. \A d \in Checkouts : Handling(d)' = Handling(d) /\ Cardinality(Handling(d)) \in Nat
      BY <2>0, <2>1, HandlingBound DEF Handling
    <3>2. queue' \in [Checkouts -> 0..2]
      BY <2>0, <2>1, <3>1
    <3>3. \A d \in Checkouts : Cardinality(Handling(d)') <= queue'[d]
      BY <2>0, <2>1, <3>1 DEF QueueOK
    <3>4. checkout[c] \notin {"open", "charged"}
      BY <2>0, <3>1 DEF QueueOK
    <3> QED BY <2>0, <2>1, <3>2, <3>3, <3>4 DEF QueueOK
  <2>2. CASE queue' = queue /\ consumer' = [consumer EXCEPT ![v] = c]
    <3>1. \A d \in Checkouts : Cardinality(Handling(d)') <= queue[d]
      <4> SUFFICES ASSUME NEW d \in Checkouts
                   PROVE  Cardinality(Handling(d)') <= queue[d]
        OBVIOUS
      <4>1. CASE d = c
        <5>1. /\ Cardinality(Handling(c)) \in Nat
              /\ Cardinality(Handling(c)') = Cardinality(Handling(c)) + 1
          BY <2>0, <2>2, HandlingCount
        <5> QED BY <2>0, <4>1, <5>1
      <4>2. CASE d # c
        <5>1. Handling(d)' = Handling(d)
          BY <2>0, <2>2, <4>2, PlacementIdsAssumption, HandlingCount
        <5> QED BY <2>0, <5>1 DEF QueueOK
      <4> QED BY <4>1, <4>2
    <3>2. consumer' \in [Servers -> Checkouts \cup {None}]
      BY <2>0, <2>2
    <3> QED BY <2>0, <2>2, <3>1, <3>2 DEF QueueOK
  <2> QED BY <2>1, <2>2 DEF Receive
<1>2. faults' \in 0..MaxFaults
  BY FaultsBounded DEF IInv, Receive
<1>3. LedgerOK'
  BY LedgerIdle DEF IInv, Receive, stockVars
<1> QED BY <1>1, <1>2, <1>3 DEF IInv, Receive, SagasOK, MandatesOK, StockOK,
        stockVars, OrdersOK, AtMostOneOrder

\* A server submits the saga of a new order id.
LEMMA SubmitOK ==
    ASSUME IInv, NEW v \in Servers, NEW g \in OrderIds, Submit(v, g)
    PROVE  IInv'
<1>0. PICK c \in Checkouts : consumer[v] = c
  BY DEF IInv, QueueOK, Submit
<1> DEFINE s == Submitted(c)
<1>1. /\ c \in Checkouts
      /\ g \in Gids /\ g \notin Mandates
      /\ saga' = [saga EXCEPT ![g] = s]
      /\ order' = order /\ charged' = charged
      /\ order[g] = None
  BY <1>0, PlacementIdsAssumption DEF IInv, SagasOK, OrderSagaOK, Submit, Gids
<1>2. /\ s \in SagaRecord
      /\ s.dir = "forward" /\ s.checkout = c /\ s.at = 1 /\ s.item = 1 /\ s.copy = None
  BY <1>1 DEF Submitted, NoSaga, SagaRecord, Copy
<1>3. OrderSagaOK(s, None, charged)
  BY <1>1, <1>2, FirstItem DEF OrderSagaOK, Steps
<1> HIDE DEF s
<1>4. SagasOK'
  BY <1>1, <1>2, <1>3, SagaStep DEF IInv
<1>5. OrdersOK'
  BY <1>1 DEF IInv, SagasOK, OrdersOK, AtMostOneOrder
<1>6. QueueOK'
  <2>0. /\ QueueOK
        /\ consumer \in [Servers -> Checkouts \cup {None}]
        /\ consumer' = [consumer EXCEPT ![v] = None]
        /\ queue \in [Checkouts -> 0..2]
        /\ checkout' = checkout
        /\ queue' = queue \/ queue' = [queue EXCEPT ![c] = @ - 1]
        /\ c # None
    BY <1>0, PlacementIdsAssumption DEF IInv, QueueOK, Submit
  <2>1. /\ Cardinality(Handling(c)) \in Nat
        /\ Cardinality(Handling(c)') = Cardinality(Handling(c)) - 1
        /\ Cardinality(Handling(c)') \in Nat
    BY <1>0, <2>0, HandlingCount
  <2>2. queue[c] \in 1..2 /\ Cardinality(Handling(c)') <= queue[c] - 1
    BY <1>1, <2>0, <2>1 DEF QueueOK
  <2>3. ASSUME NEW d \in Checkouts, d # c PROVE Handling(d)' = Handling(d)
    <3>1. d # None /\ consumer[v] # d
      BY <1>0, <2>3, PlacementIdsAssumption
    <3>2. (None = d <=> consumer[v] = d) => Handling(d)' = Handling(d)
      BY <2>0, HandlingCount
    <3> QED BY <3>1, <3>2
  <2>4. queue' \in [Checkouts -> 0..2]
    BY <1>1, <2>0, <2>2
  <2>5. ASSUME NEW d \in Checkouts
        PROVE  /\ Cardinality(Handling(d)') <= queue'[d]
               /\ checkout[d] \in {"open", "charged"} => queue'[d] = 0
    <3>1. CASE d = c
      BY <1>1, <2>0, <2>1, <2>2, <3>1 DEF QueueOK
    <3>2. CASE d # c
      BY <1>1, <2>0, <2>3, <3>2 DEF QueueOK
    <3> QED BY <3>1, <3>2
  <2>6. consumer' \in [Servers -> Checkouts \cup {None}]
    BY <2>0
  <2> QED BY <2>0, <2>4, <2>5, <2>6 DEF QueueOK
<1>7. faults' \in 0..MaxFaults
  BY FaultsBounded DEF IInv, Submit
<1>8. LedgerOK'
  <2>1. HeldLines(s) = {} /\ HeldLines(saga[g]) = {}
    <3>1. saga[g].dir = "none" /\ s.item - 1 = 0 /\ ~(s.at > 1)
      BY <1>2 DEF Submit
    <3>2. 1..0 = {}
      OBVIOUS
    <3> QED BY <1>2, <3>1, <3>2 DEF HeldLines
  <2>2. \A p : HeldUnits(s, p) = {} /\ HeldUnits(saga[g], p) = {}
    BY <2>1 DEF HeldUnits
  <2>3. \A p : Holding(p)' = Holding(p)
    BY <1>1, <2>2, HoldingSame DEF IInv, SagasOK
  <2> QED BY <2>3 DEF IInv, Submit, stockVars, LedgerOK
<1> QED BY <1>4, <1>5, <1>6, <1>7, <1>8 DEF IInv, Submit, MandatesOK, StockOK, stockVars

\* A server gives the announcement back.
LEMMA NakOK ==
    ASSUME IInv, NEW v \in Servers, Nak(v)
    PROVE  IInv'
<1>1. QueueOK'
  <2>0. /\ QueueOK
        /\ consumer \in [Servers -> Checkouts \cup {None}]
        /\ consumer' = [consumer EXCEPT ![v] = None]
        /\ queue \in [Checkouts -> 0..2]
        /\ checkout' = checkout /\ queue' = queue
    BY DEF IInv, QueueOK, Nak
  <2>1. ASSUME NEW d \in Checkouts PROVE Cardinality(Handling(d)') <= queue[d]
    <3>1. d # None
      BY PlacementIdsAssumption
    <3>2. CASE consumer[v] = d
      <4>1. /\ Cardinality(Handling(d)) \in Nat
            /\ Cardinality(Handling(d)') = Cardinality(Handling(d)) - 1
        BY <2>0, <3>1, <3>2, HandlingCount
      <4>2. Cardinality(Handling(d)) <= queue[d] /\ queue[d] \in 0..2
        BY <2>0 DEF QueueOK
      <4> QED BY <4>1, <4>2
    <3>3. CASE consumer[v] # d
      BY <2>0, <3>1, <3>3, HandlingCount DEF QueueOK
    <3> QED BY <3>2, <3>3
  <2> QED BY <2>0, <2>1 DEF QueueOK
<1>2. faults' \in 0..MaxFaults
  BY FaultsBounded DEF IInv, Nak
<1>3. LedgerOK'
  BY LedgerIdle DEF IInv, Nak, stockVars
<1> QED BY <1>1, <1>2, <1>3 DEF IInv, Nak, SagasOK, MandatesOK, StockOK,
        stockVars, OrdersOK, AtMostOneOrder

-----------------------------------------------------------------------------
(* The saga handlers *)

\* A handler is called only by a running saga.
LEMMA CallingRuns ==
    ASSUME NEW g, NEW h, Calling(g, h)
    PROVE  Running(g) /\ saga[g].dir \in {"forward", "back"}
BY DEF Calling, Running

\* A line item of an order saga that runs.
LEMMA LineFields ==
    ASSUME SagasOK, NEW g \in OrderIds, Running(g)
    PROVE  /\ saga[g].checkout \in Checkouts
           /\ Line(g).product \in Products
           /\ Line(g).quantity \in Nat \ {0}
           /\ saga[g].item \in 1..Len(Items[saga[g].checkout])
<1>1. saga[g].checkout \in Checkouts /\ saga[g].item \in DOMAIN Items[saga[g].checkout]
  BY DEF SagasOK, OrderSagaOK, Running
<1>2. Items[saga[g].checkout] \in Seq(LineItem)
  BY <1>1, FirstItem
<1>3. Line(g) \in LineItem
  BY <1>1, <1>2 DEF Line
<1> QED BY <1>1, <1>2, <1>3 DEF LineItem

\* The products of a cart are products.
LEMMA CartProducts ==
    ASSUME SagasOK, NEW g \in OrderIds, Running(g)
    PROVE  Done(g) \subseteq Products /\ Left(g) \subseteq Products
<1>1. saga[g].checkout \in Checkouts /\ saga[g].item \in DOMAIN Items[saga[g].checkout]
  BY DEF SagasOK, OrderSagaOK, Running
<1>2. Items[saga[g].checkout] \in Seq(LineItem)
  BY <1>1, FirstItem
<1>3. \A i \in 1..Len(Items[saga[g].checkout]) : Items[saga[g].checkout][i].product \in Products
  <2>1. \A i \in 1..Len(Items[saga[g].checkout]) : Items[saga[g].checkout][i] \in LineItem
    BY <1>2
  <2> QED BY <2>1 DEF LineItem
<1> QED BY <1>1, <1>2, <1>3 DEF Done, Left, Cart

\* A call over the line items is made again: the lines done are reserved, or
\* released, twice.
LEMMA RepeatHolds ==
    ASSUME SagasOK, NEW g \in OrderIds, Running(g), saga[g].at = 1,
           NEW i, Items[saga[g].checkout][i].product \notin Done(g)
    PROVE  i \in HeldLines(Again(g)) <=> i \in HeldLines(saga[g])
<1> DEFINE s == saga[g]
           a == Again(g)
<1>1. /\ s.dir \in {"forward", "back"}
      /\ s.item \in 1..Len(Items[s.checkout])
      /\ Len(Items[s.checkout]) \in Nat
  BY LineFields, FirstItem DEF Running
<1>2. a.dir = s.dir /\ a.at = 1 /\ a.item = 1 /\ a.checkout = s.checkout
  BY AnswerFields DEF Gids
<1>3. i \notin 1..(s.item - 1)
  BY DEF Done, Cart
<1> HIDE DEF s, a
<1>4. CASE s.dir = "forward"
  <2>1. HeldLines(a) = 1..0 /\ HeldLines(s) = 1..(s.item - 1)
    BY <1>2, <1>4 DEF HeldLines, s
  <2> QED BY <1>3, <2>1 DEF s, a
<1>5. CASE s.dir = "back"
  <2>1. /\ HeldLines(a) = 1..Len(Items[s.checkout])
        /\ HeldLines(s) = s.item..Len(Items[s.checkout])
    BY <1>2, <1>5 DEF HeldLines, s
  <2>2. i \in 1..Len(Items[s.checkout]) <=> i \in s.item..Len(Items[s.checkout])
    BY <1>1, <1>3
  <2> QED BY <2>1, <2>2 DEF s, a
<1> QED BY <1>1, <1>4, <1>5

\* A line is refused: those left are released though they were not reserved.
LEMMA RefusalHolds ==
    ASSUME SagasOK, NEW g \in OrderIds, Running(g), saga[g].at = 1, saga[g].dir = "forward",
           NEW i, Items[saga[g].checkout][i].product \notin Left(g)
    PROVE  i \in HeldLines(Conflict(g)) <=> i \in HeldLines(saga[g])
<1> DEFINE s == saga[g]
           a == Conflict(g)
<1>1. /\ s.item \in 1..Len(Items[s.checkout])
      /\ Len(Items[s.checkout]) \in Nat
  BY LineFields, FirstItem
<1>2. a.dir = "back" /\ a.at = 1 /\ a.item = 1 /\ a.checkout = s.checkout
  BY AnswerFields DEF Gids
<1>3. i \notin s.item..Len(Items[s.checkout])
  BY DEF Left, Cart
<1> HIDE DEF s, a
<1>4. /\ HeldLines(a) = 1..Len(Items[s.checkout])
      /\ HeldLines(s) = 1..(s.item - 1)
  BY <1>2 DEF HeldLines, s
<1>5. i \in 1..Len(Items[s.checkout]) <=> i \in 1..(s.item - 1)
  BY <1>1, <1>3
<1> QED BY <1>4, <1>5 DEF s, a

\* A compensation that is refused is repeated.
LEMMA RefusedBack ==
    ASSUME SagasOK, NEW g \in OrderIds, Running(g), saga[g].dir = "back"
    PROVE  HeldLines(Conflict(g)) = HeldLines(Again(g))
<1>1. /\ Conflict(g).dir = Again(g).dir /\ Conflict(g).at = Again(g).at
      /\ Conflict(g).item = Again(g).item /\ Conflict(g).checkout = Again(g).checkout
  BY AnswerFields DEF Gids
<1> HIDE DEF Conflict, Again
<1> QED BY <1>1 DEF HeldLines

\* Reserving and releasing count.
LEMMA InventoryMethods ==
    ASSUME NEW i \in Inventory!Item, NEW n \in Nat \ {0}
    PROVE  /\ Inventory!Reserve(i, n) # None =>
                 /\ Inventory!Reserve(i, n) \in Inventory!Item
                 /\ Inventory!Reserve(i, n).ReservedQuantity = i.ReservedQuantity + n
           /\ Inventory!ReleaseReservation(i, n) # None =>
                 /\ Inventory!ReleaseReservation(i, n) \in Inventory!Item
                 /\ Inventory!ReleaseReservation(i, n).ReservedQuantity
                        = i.ReservedQuantity - n
<1>1. ASSUME Inventory!Reserve(i, n) # None
      PROVE  /\ Inventory!Reserve(i, n) \in Inventory!Item
             /\ Inventory!Reserve(i, n).ReservedQuantity = i.ReservedQuantity + n
  BY <1>1 DEF Inventory!Item, Inventory!Reserve, Inventory!AvailableQuantity
<1>2. ASSUME Inventory!ReleaseReservation(i, n) # None
      PROVE  /\ Inventory!ReleaseReservation(i, n) \in Inventory!Item
             /\ Inventory!ReleaseReservation(i, n).ReservedQuantity = i.ReservedQuantity - n
  BY <1>2 DEF Inventory!Item, Inventory!ReleaseReservation
<1> QED BY <1>1, <1>2

\* What FindByProductID returns is an item, and so is what it caches.
LEMMA LookupOK ==
    ASSUME stock \in [Products -> Inventory!Item],
           stockCache \in [Products -> Inventory!Item \cup {None}],
           NEW p \in Products, NEW item, Lookup(p, item)
    PROVE  /\ item \in Inventory!Item
           /\ stockCache' \in [Products -> Inventory!Item \cup {None}]
<1>1. CASE item = stockCache[p] /\ item # None /\ UNCHANGED stockCache
  BY <1>1
<1>2. CASE item = stock[p] /\ stockCache' \in {[stockCache EXCEPT ![p] = item], stockCache}
  BY <1>2
<1> QED BY <1>1, <1>2 DEF Lookup

\* The two loops over the line items, up to the save.
LEMMA InventoryLoadOK ==
    ASSUME IInv, NEW g \in Gids, ReserveInventory(g) \/ ReleaseInventory(g)
    PROVE  IInv'
<1>1. /\ Running(g)
      /\ g \in OrderIds
      /\ saga[g].at = 1
  BY OrderCalls, MandateCalls, CallingRuns
     DEF IInv, ReserveInventory, ReleaseInventory, Gids
<1>2. Line(g).product \in Products /\ Line(g).quantity \in Nat \ {0}
  BY <1>1, LineFields DEF IInv
<1>3. PICK item, new :
          /\ Lookup(Line(g).product, item)
          /\ new \in {Inventory!Reserve(item, Line(g).quantity),
                      Inventory!ReleaseReservation(item, Line(g).quantity)}
          /\ IF new = None
             THEN /\ Answer(g, Conflict(g))
                  /\ Drift(IF saga[g].dir = "forward" /\ faults' = faults
                           THEN Left(g) ELSE Done(g))
             ELSE /\ saga' = [saga EXCEPT ![g].copy = new]
                  /\ UNCHANGED <<faults, drifted>>
  BY <1>1, OrderCalls DEF IInv, ReserveInventory, ReleaseInventory
<1>4. UNCHANGED <<checkout, queue, consumer, stock, admin, updates, mandate, order, charged>>
  BY DEF ReserveInventory, ReleaseInventory
<1>5. item \in Inventory!Item /\ StockOK'
  <2>1. /\ item \in Inventory!Item
        /\ stockCache' \in [Products -> Inventory!Item \cup {None}]
    BY <1>2, <1>3, LookupOK DEF IInv, StockOK
  <2>2. Done(g) \subseteq Products /\ Left(g) \subseteq Products
    BY <1>1, CartProducts DEF IInv
  <2>3. drifted' \subseteq Products
    BY <1>3, <2>2 DEF IInv, StockOK, Drift
  <2> QED BY <1>4, <2>1, <2>3 DEF IInv, StockOK
<1>6. new # None => new \in Inventory!Item
  BY <1>2, <1>3, <1>5, InventoryMethods
<1>7. SagaSide'
  <2>0. SagaSide
    BY DEF IInv, SagaSide
  <2>1. CASE new = None
    BY <1>1, <1>3, <1>4, <2>0, <2>1, Answered, OrderTurnsRound DEF SagaSide
  <2>2. CASE new # None
    <3> DEFINE s == [saga[g] EXCEPT !.copy = new]
    <3>1. /\ saga[g] \in SagaRecord
          /\ OrderSagaOK(saga[g], order[g], charged)
          /\ saga[g].dir \in {"forward", "back"}
          /\ g \notin Mandates
          /\ Steps(saga[g].checkout) # 1
      BY <1>1, PlacementIdsAssumption
         DEF IInv, SagasOK, Running, Gids, Steps
    <3>2. /\ s.dir = saga[g].dir /\ s.checkout = saga[g].checkout
          /\ s.at = 1 /\ s.item = saga[g].item /\ s.copy = new
      BY <1>1, <3>1 DEF SagaRecord
    <3> HIDE DEF s
    <3>3. OrderSagaOK(s, order[g], charged)
      BY <1>1, <1>6, <2>2, <3>1, <3>2 DEF OrderSagaOK
    <3>4. new \in Copy
      BY <1>6, <2>2 DEF Copy
    <3> QED BY <1>1, <1>3, <1>4, <2>0, <2>2, <3>1, <3>3, <3>4, Kept DEF s
  <2> QED BY <2>1, <2>2
<1>8. LedgerOK'
  <2>1. CASE new # None
    BY <1>3, <1>4, <2>1, LedgerCopy DEF IInv
  <2>2. CASE new = None
    <3>1. PICK s \in {Conflict(g), Again(g)} :
              /\ saga' = [saga EXCEPT ![g] = s]
              /\ \/ s = Conflict(g) /\ faults' = faults
                 \/ s = Again(g) /\ faults' # faults
      BY <1>3, <2>2 DEF Answer, Fault, IInv
    <3>3. drifted' = drifted \cup IF saga[g].dir = "forward" /\ faults' = faults
                                  THEN Left(g) ELSE Done(g)
      BY <1>3, <2>2 DEF Drift
    <3>4. s.checkout = saga[g].checkout
      BY <1>1, <3>1, AnswerFields DEF IInv, Gids
    <3>5. ASSUME NEW i, Items[s.checkout][i].product \notin drifted'
          PROVE  i \in HeldLines(s) <=> i \in HeldLines(saga[g])
      <4>1. CASE saga[g].dir = "forward" /\ faults' = faults
        BY <1>1, <3>1, <3>3, <3>4, <3>5, <4>1, RefusalHolds DEF IInv
      <4>2. CASE saga[g].dir = "forward" /\ faults' # faults
        BY <1>1, <3>1, <3>3, <3>4, <3>5, <4>2, RepeatHolds DEF IInv
      <4>3. CASE saga[g].dir = "back"
        BY <1>1, <3>1, <3>3, <3>4, <3>5, <4>3, RepeatHolds, RefusedBack DEF IInv
      <4> QED BY <1>1, <4>1, <4>2, <4>3 DEF Running
    <3> QED BY <1>4, <3>1, <3>3, <3>4, <3>5, LedgerSame DEF IInv
  <2> QED BY <2>1, <2>2
<1> QED BY <1>4, <1>5, <1>7, <1>8 DEF IInv, SagaSide, MandatesOK, QueueOK, Handling

\* What the sagas f hold, and what one more line adds to it.
Holds(f, p) == UNION {{h} \X HeldUnits(f[h], p) : h \in OrderIds}

LineUnits(g, k, n) == {g} \X ({k} \X (1..n))

\* A line holds as many units as it says.
LEMMA LineCount ==
    ASSUME NEW g, NEW k, NEW n \in Nat
    PROVE  IsFiniteSet(LineUnits(g, k, n)) /\ Cardinality(LineUnits(g, k, n)) = n
<1>1. IsFiniteSet(1..n) /\ Cardinality(1..n) = n
  BY FS_Interval
<1>2. \A x : IsFiniteSet({x}) /\ Cardinality({x}) = 1
  BY FS_Singleton
<1>3. IsFiniteSet({k} \X (1..n)) /\ Cardinality({k} \X (1..n)) = 1 * n
  <2> DEFINE S == {k}
             T == 1..n
  <2>1. IsFiniteSet(S) /\ IsFiniteSet(T) /\ Cardinality(S) = 1 /\ Cardinality(T) = n
    BY <1>1, <1>2
  <2> HIDE DEF S, T
  <2>2. IsFiniteSet(S \X T) /\ Cardinality(S \X T) = 1 * n
    BY <2>1, FS_Product
  <2> QED BY <2>2 DEF S, T
<1>4. IsFiniteSet(LineUnits(g, k, n)) /\ Cardinality(LineUnits(g, k, n)) = 1 * (1 * n)
  <2> DEFINE S == {g}
             T == {k} \X (1..n)
  <2>1. IsFiniteSet(S) /\ IsFiniteSet(T) /\ Cardinality(S) = 1 /\ Cardinality(T) = 1 * n
    BY <1>2, <1>3
  <2> HIDE DEF S, T
  <2>2. IsFiniteSet(S \X T) /\ Cardinality(S \X T) = 1 * (1 * n)
    BY <2>1, FS_Product
  <2> QED BY <2>2 DEF S, T, LineUnits
<1> QED BY <1>4

\* Disjoint sets add up.
LEMMA CountsAdd ==
    ASSUME NEW S, NEW D, IsFiniteSet(S), IsFiniteSet(D), S \cap D = {}
    PROVE  /\ IsFiniteSet(S \cup D)
           /\ Cardinality(S \cup D) = Cardinality(S) + Cardinality(D)
<1>1. /\ IsFiniteSet(S \cup D)
      /\ Cardinality(S \cup D) = Cardinality(S) + Cardinality(D) - Cardinality(S \cap D)
  BY FS_Union
<1>2. /\ Cardinality(S \cap D) = 0
      /\ Cardinality(S) \in Nat /\ Cardinality(D) \in Nat
  BY FS_EmptySet, FS_CardinalityType
<1> QED BY <1>1, <1>2

\* One more line of one saga.
LEMMA OneLineMore ==
    ASSUME NEW f, NEW f2, NEW g \in OrderIds, NEW k,
           \A h \in OrderIds \ {g} : f2[h] = f[h], f2[g].checkout = f[g].checkout,
           k \notin HeldLines(f[g]), HeldLines(f2[g]) = HeldLines(f[g]) \cup {k}
    PROVE  LET line == Items[f[g].checkout][k]
               D == LineUnits(g, k, line.quantity)
           IN  Holds(f2, line.product) = Holds(f, line.product) \cup D
               /\ Holds(f, line.product) \cap D = {}
<1> DEFINE c == f[g].checkout
           line == Items[c][k]
           p == line.product
           D == LineUnits(g, k, line.quantity)
           I == {j \in HeldLines(f[g]) : Items[c][j].product = p}
           I2 == {j \in HeldLines(f2[g]) : Items[c][j].product = p}
           U(i) == {i} \X (1..Items[c][i].quantity)
<1>1. I2 = I \cup {k} /\ k \notin I
  OBVIOUS
<1>2. /\ HeldUnits(f[g], p) = UNION {U(i) : i \in I}
      /\ HeldUnits(f2[g], p) = UNION {U(i) : i \in I2}
  BY DEF HeldUnits
<1>3. HeldUnits(f2[g], p) = HeldUnits(f[g], p) \cup U(k)
  <2> HIDE DEF U, I, I2
  <2> QED BY <1>1, <1>2
<1>4. HeldUnits(f[g], p) \cap U(k) = {}
  <2> HIDE DEF I, I2
  <2> QED BY <1>1, <1>2
<1>5. D = {g} \X U(k)
  BY DEF LineUnits
<1>6. \A h \in OrderIds \ {g} : HeldUnits(f2[h], p) = HeldUnits(f[h], p)
  OBVIOUS
<1> HIDE DEF U, p, D
<1>7. ASSUME NEW x PROVE x \in Holds(f2, p) <=> x \in Holds(f, p) \cup D
  <2>1. x \in Holds(f2, p) <=> \E h \in OrderIds : x \in {h} \X HeldUnits(f2[h], p)
    BY DEF Holds
  <2>2. x \in Holds(f, p) <=> \E h \in OrderIds : x \in {h} \X HeldUnits(f[h], p)
    BY DEF Holds
  <2>3. \A h \in OrderIds \ {g} : {h} \X HeldUnits(f2[h], p) = {h} \X HeldUnits(f[h], p)
    BY <1>6
  <2>4. x \in {g} \X HeldUnits(f2[g], p) <=> x \in {g} \X HeldUnits(f[g], p) \/ x \in D
    BY <1>3, <1>5
  <2> HIDE DEF HeldUnits
  <2> QED BY <2>1, <2>2, <2>3, <2>4
<1>8. Holds(f2, p) = Holds(f, p) \cup D
  BY <1>7
<1>9. Holds(f, p) \cap D = {}
  <2> SUFFICES ASSUME NEW x \in Holds(f, p), x \in D PROVE FALSE
    OBVIOUS
  <2>1. PICK h \in OrderIds : x \in {h} \X HeldUnits(f[h], p)
    BY DEF Holds
  <2>2. x[1] = h /\ x[2] \in HeldUnits(f[h], p)
    BY <2>1
  <2>3. x[1] = g /\ x[2] \in U(k)
    BY <1>5
  <2> QED BY <1>4, <2>2, <2>3
<1> QED BY <1>8, <1>9 DEF p, D

\* A save moves one line, and the row by as many units, unless the row has
\* changed since it was read or the answer is lost.
LEMMA SaveInventoryBalances ==
    ASSUME IInv, NEW g \in Gids, SaveInventory(g)
    PROVE  LedgerOK'
<1>0. PICK k, c, p, q : /\ k = saga[g].item /\ c = saga[g].checkout
                        /\ p = Line(g).product /\ q = Line(g).quantity
  OBVIOUS
<1> DEFINE n == Len(Items[c])
<1>1. /\ Running(g) /\ g \in OrderIds
      /\ saga[g].at = 1
      /\ saga[g].dir = "forward" <=> Calling(g, "reserve")
  BY OrderCalls, MandateCalls, CallingRuns DEF IInv, SaveInventory, Gids
<1>2. /\ SagasOK /\ LedgerOK
      /\ saga \in [Gids -> SagaRecord] /\ saga[g] \in SagaRecord
      /\ saga[g].dir \in {"forward", "back"}
      /\ stock \in [Products -> Inventory!Item]
      /\ drifted \subseteq drifted'
      /\ stock' = [stock EXCEPT ![p] = saga[g].copy]
      /\ saga[g].copy # None
  BY <1>0, <1>1 DEF IInv, SagasOK, StockOK, SaveInventory, SaveDrifts, Drift, Running
<1>3. /\ c \in Checkouts /\ k \in 1..n /\ n \in Nat
      /\ p \in Products /\ q \in Nat \ {0}
      /\ DOMAIN Items[c] = 1..n
      /\ Line(g) = Items[c][k]
      /\ Steps(c) \in {2, 3} /\ Len(Branches(g)) = Steps(c)
  BY <1>0, <1>1, <1>2, LineFields, FirstItem, OrderBranches DEF Line
<1>4. CASE saga' = [saga EXCEPT ![g] = Again(g)] /\ faults' # faults
  <2>1. drifted' = drifted \cup (Overwritten(g) \cup (Done(g) \cup Left(g)))
    BY <1>4 DEF SaveInventory, SaveDrifts, Drift
  <2>2. p \in drifted'
    BY <1>0, <1>3, <2>1 DEF Left, Cart
  <2>3. \A r \in Products \ drifted' : stock'[r] = stock[r]
    BY <1>2, <2>2
  <2>4. Again(g).checkout = c
    BY <1>0, <1>1, <1>2, AnswerFields
  <2>5. ASSUME NEW i, Items[c][i].product \notin drifted'
        PROVE  i \in HeldLines(Again(g)) <=> i \in HeldLines(saga[g])
    BY <1>0, <1>1, <1>2, <2>1, <2>5, RepeatHolds
  <2> QED BY <1>0, <1>2, <1>4, <2>3, <2>4, <2>5, LedgerSame
<1>5. ASSUME NEW s, saga' = [saga EXCEPT ![g] = s], s.checkout = c,
             IF saga[g].dir = "forward" THEN HeldLines(s) = 1..k
             ELSE HeldLines(s) = (k + 1)..n
      PROVE  LedgerOK'
  <2>1. IF saga[g].dir = "forward" THEN HeldLines(saga[g]) = 1..(k - 1)
        ELSE HeldLines(saga[g]) = k..n
    BY <1>0, <1>1, <1>2 DEF HeldLines
  <2>2. \A i : i # k => (i \in HeldLines(s) <=> i \in HeldLines(saga[g]))
    BY <1>3, <1>5, <2>1
  <2>3. ASSUME NEW r \in Products \ drifted', r # p
        PROVE  /\ IsFiniteSet(Holding(r)')
               /\ stock'[r].ReservedQuantity = Cardinality(Holding(r)')
    <3>1. \A i : Items[s.checkout][i].product = r =>
                    (i \in HeldLines(s) <=> i \in HeldLines(saga[g]))
      BY <1>0, <1>3, <1>5, <2>2, <2>3
    <3>2. HeldUnits(s, r) = HeldUnits(saga[g], r)
      <4>1. PICK t : t = saga[g]
        OBVIOUS
      <4>2. /\ s.checkout = t.checkout
            /\ \A i : Items[s.checkout][i].product = r =>
                         (i \in HeldLines(s) <=> i \in HeldLines(t))
        BY <1>0, <1>5, <3>1, <4>1
      <4>3. HeldUnits(s, r) = HeldUnits(t, r)
        BY <4>2, SameUnits
      <4> QED BY <4>1, <4>3
    <3>3. Holding(r)' = Holding(r)
      BY <1>2, <1>5, <3>2, HoldingSame
    <3> QED BY <1>2, <2>3, <3>3 DEF LedgerOK
  <2>4. ASSUME p \notin drifted'
        PROVE  /\ IsFiniteSet(Holding(p)')
               /\ stock'[p].ReservedQuantity = Cardinality(Holding(p)')
    <3> DEFINE D == LineUnits(g, k, q)
    <3>1. IsFiniteSet(D) /\ Cardinality(D) = q
      BY <1>3, LineCount
    <3>2. Holding(p) = Holds(saga, p) /\ Holding(p)' = Holds(saga', p)
      BY DEF Holding, Holds
    <3>3. /\ saga'[g] = s /\ \A h \in OrderIds \ {g} : saga'[h] = saga[h]
      BY <1>2, <1>5 DEF Gids
    <3>4. /\ IsFiniteSet(Holding(p))
          /\ stock[p].ReservedQuantity = Cardinality(Holding(p))
      BY <1>2, <1>3, <2>4 DEF LedgerOK
    <3>5. /\ stock'[p] = saga[g].copy
          /\ saga[g].copy = IF saga[g].dir = "forward"
                            THEN Inventory!Reserve(stock[p], q)
                            ELSE Inventory!ReleaseReservation(stock[p], q)
      <4>1. Overwritten(g) = {}
        BY <1>0, <2>4 DEF SaveInventory, SaveDrifts, Drift, Overwritten
      <4> QED BY <1>0, <1>1, <1>2, <1>3, <4>1 DEF Overwritten
    <3> HIDE DEF D
    <3>6. CASE saga[g].dir = "forward"
      <4>1. HeldLines(s) = HeldLines(saga[g]) \cup {k} /\ k \notin HeldLines(saga[g])
        BY <1>3, <1>5, <2>1, <3>6
      <4>2. Holding(p)' = Holding(p) \cup D /\ Holding(p) \cap D = {}
        <5>1. PICK f, f2 : f = saga /\ f2 = saga'
          OBVIOUS
        <5>2. /\ \A h \in OrderIds \ {g} : f2[h] = f[h]
              /\ f2[g].checkout = f[g].checkout
              /\ k \notin HeldLines(f[g])
              /\ HeldLines(f2[g]) = HeldLines(f[g]) \cup {k}
          BY <1>0, <1>5, <3>3, <4>1, <5>1
        <5>3. Items[f[g].checkout][k] = Line(g)
          BY <1>0, <1>3, <5>1
        <5>4. Holds(f2, p) = Holds(f, p) \cup D /\ Holds(f, p) \cap D = {}
          BY <1>0, <1>1, <5>2, <5>3, OneLineMore DEF D
        <5> QED BY <3>2, <5>1, <5>4
      <4>3. /\ IsFiniteSet(Holding(p)')
            /\ Cardinality(Holding(p)') = Cardinality(Holding(p)) + q
        <5>1. PICK S : S = Holding(p)
          OBVIOUS
        <5>2. /\ IsFiniteSet(S \cup D)
              /\ Cardinality(S \cup D) = Cardinality(S) + Cardinality(D)
          BY <3>1, <3>4, <4>2, <5>1, CountsAdd
        <5> QED BY <3>1, <4>2, <5>1, <5>2
      <4>4. stock'[p].ReservedQuantity = stock[p].ReservedQuantity + q
        BY <1>2, <1>3, <3>5, <3>6, InventoryMethods
      <4> QED BY <3>4, <4>3, <4>4
    <3>7. CASE saga[g].dir = "back"
      <4>1. HeldLines(saga[g]) = HeldLines(s) \cup {k} /\ k \notin HeldLines(s)
        BY <1>3, <1>5, <2>1, <3>7
      <4>2. Holding(p) = Holding(p)' \cup D /\ Holding(p)' \cap D = {}
        <5>1. PICK f, f2 : f = saga /\ f2 = saga'
          OBVIOUS
        <5>2. /\ \A h \in OrderIds \ {g} : f[h] = f2[h]
              /\ f[g].checkout = f2[g].checkout
              /\ k \notin HeldLines(f2[g])
              /\ HeldLines(f[g]) = HeldLines(f2[g]) \cup {k}
          BY <1>0, <1>5, <3>3, <4>1, <5>1
        <5>3. Items[f2[g].checkout][k] = Line(g)
          BY <1>0, <1>3, <1>5, <3>3, <5>1
        <5>4. Holds(f, p) = Holds(f2, p) \cup D /\ Holds(f2, p) \cap D = {}
          BY <1>0, <1>1, <5>2, <5>3, OneLineMore DEF D
        <5> QED BY <3>2, <5>1, <5>4
      <4>3. /\ IsFiniteSet(Holding(p)')
            /\ Cardinality(Holding(p)) = Cardinality(Holding(p)') + q
        <5>1. IsFiniteSet(Holding(p)')
          BY <3>4, <4>2, FS_Subset
        <5>2. PICK S : S = Holding(p)'
          OBVIOUS
        <5>3. /\ IsFiniteSet(S \cup D)
              /\ Cardinality(S \cup D) = Cardinality(S) + Cardinality(D)
          BY <3>1, <4>2, <5>1, <5>2, CountsAdd
        <5> QED BY <3>1, <4>2, <5>1, <5>2, <5>3
      <4>4. stock'[p].ReservedQuantity = stock[p].ReservedQuantity - q
        BY <1>2, <1>3, <3>5, <3>7, InventoryMethods
      <4>5. Cardinality(Holding(p)') \in Nat
        BY <4>3, FS_CardinalityType
      <4> QED BY <1>3, <3>4, <4>3, <4>4, <4>5
    <3> QED BY <1>2, <3>6, <3>7
  <2> QED BY <2>3, <2>4 DEF LedgerOK
<1>6. CASE /\ k < n
           /\ saga' = [saga EXCEPT ![g].item = @ + 1, ![g].copy = None]
  <2> DEFINE s == [saga[g] EXCEPT !.item = k + 1, !.copy = None]
  <2>1. saga' = [saga EXCEPT ![g] = s]
    BY <1>0, <1>6
  <2>2. s.checkout = c /\ s.dir = saga[g].dir /\ s.at = 1 /\ s.item = k + 1
    BY <1>0, <1>1, <1>2 DEF SagaRecord
  <2> HIDE DEF s
  <2>3. IF saga[g].dir = "forward" THEN HeldLines(s) = 1..k ELSE HeldLines(s) = (k + 1)..n
    <3>1. (k + 1) - 1 = k
      BY <1>3
    <3> QED BY <1>2, <2>2, <3>1 DEF HeldLines
  <2> QED BY <1>5, <2>1, <2>2, <2>3
<1>7. CASE ~(k < n) /\ saga' = [saga EXCEPT ![g] = OK(g)]
  <2>1. /\ OK(g).checkout = c
        /\ saga[g].dir = "forward" => OK(g).dir = "forward" /\ OK(g).at = 2
        /\ saga[g].dir = "back" => OK(g).dir = "failed"
    BY <1>0, <1>1, <1>2, <1>3, AnswerFields
  <2>2. k = n /\ (k + 1)..n = {}
    BY <1>3, <1>7
  <2> HIDE DEF OK
  <2>3. IF saga[g].dir = "forward" THEN HeldLines(OK(g)) = 1..k
        ELSE HeldLines(OK(g)) = (k + 1)..n
    BY <1>2, <1>3, <2>1, <2>2 DEF HeldLines
  <2> QED BY <1>5, <1>7, <2>1, <2>3
<1>8. \/ k < n /\ saga' = [saga EXCEPT ![g].item = @ + 1, ![g].copy = None]
      \/ ~(k < n) /\ saga' = [saga EXCEPT ![g] = OK(g)]
      \/ saga' = [saga EXCEPT ![g] = Again(g)] /\ faults' # faults
  BY <1>0 DEF SaveInventory, Answer, Fault, IInv
<1> QED BY <1>4, <1>6, <1>7, <1>8

\* The second step of reserve and release.
LEMMA SaveInventoryOK ==
    ASSUME IInv, NEW g \in Gids, SaveInventory(g)
    PROVE  IInv'
<1>1. /\ Running(g)
      /\ g \in OrderIds /\ g \notin Mandates
      /\ saga[g].at = 1
  BY OrderCalls, MandateCalls, CallingRuns, PlacementIdsAssumption
     DEF IInv, SaveInventory, Gids
<1>2. Line(g).product \in Products
  BY <1>1, LineFields DEF IInv
<1>3. /\ saga[g] \in SagaRecord
      /\ OrderSagaOK(saga[g], order[g], charged)
      /\ saga[g].dir \in {"forward", "back"}
      /\ Steps(saga[g].checkout) \in {2, 3}
  BY <1>1 DEF IInv, SagasOK, Running, Steps
<1>4. saga[g].copy \in Inventory!Item
  BY <1>1, <1>3 DEF SaveInventory, OrderSagaOK
<1>5. StockOK'
  <2>1. /\ stock' \in [Products -> Inventory!Item]
        /\ stockCache' \in [Products -> Inventory!Item \cup {None}]
    BY <1>4 DEF IInv, StockOK, SaveInventory
  <2>2. Done(g) \cup Left(g) \subseteq Products /\ Overwritten(g) \subseteq Products
    BY <1>1, <1>2, CartProducts DEF IInv, Overwritten
  <2>3. drifted' \subseteq Products
    BY <2>2 DEF IInv, StockOK, SaveInventory, SaveDrifts, Drift
  <2>4. UNCHANGED <<admin, updates>>
    BY DEF SaveInventory
  <2> QED BY <2>1, <2>3, <2>4 DEF IInv, StockOK
<1>6. SagaSide'
  <2>0. SagaSide /\ UNCHANGED <<order, charged>>
    BY DEF IInv, SagaSide, SaveInventory
  <2>1. CASE /\ saga[g].item < Len(Items[saga[g].checkout])
             /\ saga' = [saga EXCEPT ![g].item = @ + 1, ![g].copy = None]
             /\ UNCHANGED faults
    <3> DEFINE s == [saga[g] EXCEPT !.item = @ + 1, !.copy = None]
    <3>1. saga' = [saga EXCEPT ![g] = s]
      BY <2>1
    <3>2. saga[g].item + 1 \in Nat /\ saga[g].item + 1 \in DOMAIN Items[saga[g].checkout]
      BY <1>1, <2>1, LineFields, FirstItem DEF IInv
    <3>3. /\ s \in SagaRecord
          /\ s.dir = saga[g].dir /\ s.checkout = saga[g].checkout /\ s.at = 1
          /\ s.item = saga[g].item + 1 /\ s.copy = None
      BY <1>1, <1>3, <3>2 DEF SagaRecord, Copy
    <3> HIDE DEF s
    <3>4. OrderSagaOK(s, order[g], charged)
      BY <1>1, <1>3, <3>2, <3>3 DEF OrderSagaOK
    <3>5. SagasOK'
      BY <1>1, <2>0, <3>1, <3>3, <3>4, SagaStep DEF SagaSide
    <3>6. OrdersOK'
      BY <2>0, <3>1, <3>3, OrdersKept DEF SagaSide
    <3> QED BY <2>0, <2>1, <3>5, <3>6 DEF SagaSide
  <2>2. CASE Answer(g, OK(g))
    <3>1. OrderSagaOK(OK(g), order[g], charged)
      <4>1. order[g] # None => Paid(saga[g].checkout, charged)
        BY <1>3 DEF OrderSagaOK
      <4> QED BY <1>1, <1>3, <2>0, <4>1, OrderMovesOn DEF SagaSide
    <3> QED BY <1>1, <2>0, <2>2, <3>1, Answered
  <2> QED BY <2>1, <2>2 DEF SaveInventory
<1>7. LedgerOK'
  BY SaveInventoryBalances
<1> QED BY <1>5, <1>6, <1>7 DEF IInv, SagaSide, SaveInventory, MandatesOK, QueueOK, Handling

\* VerifyPayment passes only an executed or settled mandate.
LEMMA VerifyPaymentOK ==
    ASSUME IInv, NEW g \in Gids, VerifyPayment(g)
    PROVE  IInv'
<1>0. SagaSide /\ UNCHANGED <<order, charged>>
  BY DEF IInv, SagaSide, VerifyPayment
<1>1. /\ Running(g)
      /\ g \in OrderIds /\ g \notin Mandates
      /\ saga[g].dir = "forward" /\ saga[g].at = 2 /\ Steps(saga[g].checkout) = 3
  BY OrderCalls, MandateCalls, CallingRuns, PlacementIdsAssumption
     DEF IInv, VerifyPayment, Gids
<1>2. SagaSide'
  <2>1. CASE Payment!Charged(mandate[MandateFor(g)])
    <3>1. /\ OrderSagaOK(saga[g], order[g], charged)
          /\ saga[g].checkout \in Checkouts
          /\ MandateFor(g) = MandateOf[saga[g].checkout]
      BY <1>1 DEF IInv, SagasOK, OrderSagaOK, MandateFor
    <3>2. Paid(saga[g].checkout, charged)
      BY <2>1, <3>1, CartsAssumption DEF IInv, MandatesOK, Paid
    <3>3. OrderSagaOK(OK(g), order[g], charged)
      BY <1>0, <1>1, <3>2, OrderMovesOn DEF SagaSide
    <3> QED BY <1>0, <1>1, <2>1, <3>3, Answered DEF VerifyPayment
  <2>2. CASE ~Payment!Charged(mandate[MandateFor(g)])
    BY <1>0, <1>1, <2>2, Answered, OrderTurnsRound DEF VerifyPayment, SagaSide
  <2> QED BY <2>1, <2>2
<1>20. LedgerOK'
  <2>1. g \in OrderIds => saga[g].at # 1
    BY <1>1
  <2>2. UNCHANGED stockVars /\ \E a \in {Conflict(g), OK(g)} : Answer(g, a)
    BY DEF VerifyPayment
  <2> QED BY <1>1, <2>1, <2>2, LedgerAnswered DEF IInv
<1> QED BY <1>20, <1>2 DEF IInv, SagaSide, VerifyPayment, MandatesOK, StockOK, stockVars,
        QueueOK, Handling

\* ExecuteMandate, SettleMandate and CancelPayment up to the save.
LEMMA MandateLoadOK ==
    ASSUME IInv, NEW g \in Gids,
           ExecuteMandate(g) \/ SettleMandate(g) \/ CancelPayment(g)
    PROVE  IInv'
<1> DEFINE st == mandate[MandateFor(g)]
<1>1. PICK h, new :
          /\ LoadMandate(g, h, new)
          /\ \/ h = "execute" /\ new = Payment!Execute(st)
             \/ h = "settle" /\ new = Payment!Settle(st)
             \/ h = "cancelPayment" /\ new = Payment!Cancel(st)
  BY DEF ExecuteMandate, SettleMandate, CancelPayment
<1>2. /\ UNCHANGED <<checkout, queue, consumer, stockVars, mandate, order, charged>>
      /\ Calling(g, h)
      /\ Running(g)
      /\ saga[g].dir \in {"forward", "back"}
      /\ IF new = None THEN Answer(g, Conflict(g))
         ELSE saga' = [saga EXCEPT ![g].copy = new] /\ UNCHANGED faults
  BY <1>1, CallingRuns DEF LoadMandate
<1>3. SagaSide /\ saga[g] \in SagaRecord
  BY DEF IInv, SagaSide, SagasOK
<1>4. SagaSide'
  <2>1. CASE new = None
    BY <1>2, <1>3, <2>1, Answered, OrderTurnsRound DEF SagaSide
  <2>2. CASE new # None
    <3> DEFINE s == [saga[g] EXCEPT !.copy = new]
    <3>1. /\ new \in {"executed", "settled", "cancelled"}
          /\ new = "settled" => h = "settle" /\ st = "executed"
          /\ h = "cancelPayment" => new = "cancelled"
      BY <1>1, <2>2 DEF Payment!Execute, Payment!Settle, Payment!Cancel
    <3>2. new \in Copy /\ new \in Payment!MandateStatus
      BY <3>1 DEF Copy, Payment!MandateStatus
    <3>3. /\ s.dir = saga[g].dir /\ s.checkout = saga[g].checkout
          /\ s.at = saga[g].at /\ s.item = saga[g].item /\ s.copy = new
      BY <1>3 DEF SagaRecord
    <3> HIDE DEF s, st
    <3>4. ASSUME g \in OrderIds PROVE OrderSagaOK(s, order[g], charged)
      <4>1. /\ h = "cancelPayment"
            /\ saga[g].dir = "back" /\ saga[g].at = 2 /\ Steps(saga[g].checkout) = 3
        BY <1>1, <1>2, <3>4, OrderCalls DEF IInv
      <4>2. OrderSagaOK(saga[g], order[g], charged)
        BY <3>4 DEF IInv, SagasOK
      <4> QED BY <3>1, <3>3, <4>1, <4>2 DEF OrderSagaOK
    <3>5. ASSUME g \in Mandates PROVE MandateSagaOK(s, g, charged)
      <4>1. MandateSagaOK(saga[g], g, charged)
        BY <3>5 DEF IInv, SagasOK
      <4>2. new = "settled" => g \in charged
        BY <3>1, <3>5 DEF IInv, MandatesOK, MandateFor, Payment!Charged, st
      <4> QED BY <1>2, <3>2, <3>3, <4>1, <4>2 DEF MandateSagaOK
    <3> QED BY <1>2, <1>3, <2>2, <3>2, <3>4, <3>5, Kept DEF s
  <2> QED BY <2>1, <2>2
<1>20. LedgerOK'
  <2>1. g \in OrderIds => saga[g].at # 1
    BY <1>1, <1>2, OrderCalls DEF IInv
  <2>2. CASE new = None
    BY <1>2, <2>1, <2>2, LedgerAnswered DEF IInv
  <2>3. CASE new # None
    BY <1>2, <2>3, LedgerCopy DEF IInv, stockVars
  <2> QED BY <2>2, <2>3
<1> QED BY <1>20, <1>2, <1>4 DEF IInv, SagaSide, MandatesOK, StockOK, stockVars,
        QueueOK, Handling

\* The second step of the handlers of a mandate.
LEMMA SaveMandateOK ==
    ASSUME IInv, NEW g \in Gids, SaveMandate(g)
    PROVE  IInv'
<1> DEFINE m == MandateFor(g)
           x == saga[g].copy
<1>0. /\ SagaSide
      /\ UNCHANGED <<checkout, queue, consumer, stockVars, order>>
      /\ Answer(g, OK(g))
      /\ mandate' = [mandate EXCEPT ![m] = x]
      /\ charged' = IF x = "executed" THEN charged \cup {m} ELSE charged
      /\ x # None
  BY DEF IInv, SagaSide, SaveMandate
<1>1. PICK h \in {"execute", "settle", "cancelPayment"} : Calling(g, h)
  BY DEF SaveMandate
<1>2. Running(g)
  BY <1>1, CallingRuns
<1>3. /\ m \in Mandates
      /\ x \in Payment!MandateStatus
      /\ x = "settled" => m \in charged
      /\ g \in OrderIds => OrderSagaOK(OK(g), order[g], charged)
  <2>1. CASE g \in OrderIds
    <3>1. /\ saga[g].dir = "back" /\ saga[g].at = 2 /\ Steps(saga[g].checkout) = 3
          /\ g \notin Mandates
      BY <1>1, <2>1, OrderCalls, PlacementIdsAssumption DEF IInv
    <3>2. OrderSagaOK(saga[g], order[g], charged)
      BY <2>1 DEF IInv, SagasOK
    <3>3. /\ x = "cancelled"
          /\ saga[g].checkout \in Checkouts
          /\ order[g] # None => Paid(saga[g].checkout, charged)
      BY <1>0, <3>1, <3>2 DEF OrderSagaOK
    <3>4. MandateOf[saga[g].checkout] \in Mandates /\ m = MandateOf[saga[g].checkout]
      BY <3>1, <3>3, CartsAssumption DEF Steps, MandateFor
    <3>5. OrderSagaOK(OK(g), order[g], charged)
      BY <1>0, <1>2, <2>1, <3>1, <3>3, OrderMovesOn DEF SagaSide
    <3> QED BY <3>3, <3>4, <3>5 DEF Payment!MandateStatus
  <2>2. CASE g \in Mandates
    <3>1. MandateSagaOK(saga[g], g, charged) /\ g \notin OrderIds /\ m = g
      BY <2>2, PlacementIdsAssumption DEF IInv, SagasOK, MandateFor
    <3> QED BY <1>0, <2>2, <3>1 DEF MandateSagaOK
  <2> QED BY <2>1, <2>2 DEF Gids
<1> HIDE DEF m, x
<1>4. MandatesOK'
  <2>1. charged' \subseteq Mandates /\ charged \subseteq charged'
    BY <1>0, <1>3 DEF IInv, MandatesOK
  <2>2. mandate' \in [Mandates -> Payment!MandateStatus]
    BY <1>0, <1>3 DEF IInv, MandatesOK
  <2>3. ASSUME NEW k \in Mandates, Payment!Charged(mandate'[k]) PROVE k \in charged'
    <3>1. CASE k = m
      BY <1>0, <1>3, <2>1, <2>3, <3>1 DEF IInv, MandatesOK, Payment!Charged
    <3>2. CASE k # m
      BY <1>0, <1>3, <2>1, <2>3, <3>2 DEF IInv, MandatesOK, Payment!Charged
    <3> QED BY <3>1, <3>2
  <2> QED BY <2>1, <2>2, <2>3 DEF MandatesOK, Payment!Charged
<1>5. SagaSide'
  BY <1>0, <1>2, <1>3, Answered
<1>20. LedgerOK'
  <2>1. g \in OrderIds => saga[g].at # 1
    BY <1>1, OrderCalls DEF IInv
  <2> QED BY <1>0, <1>2, <2>1, LedgerAnswered DEF IInv
<1> QED BY <1>20, <1>0, <1>4, <1>5 DEF IInv, SagaSide, StockOK, stockVars, QueueOK, Handling

\* RollbackMandateSettle answers and does nothing.
LEMMA RollbackMandateSettleOK ==
    ASSUME IInv, NEW g \in Gids, RollbackMandateSettle(g)
    PROVE  IInv'
<1>1. Running(g) /\ g \in Mandates /\ g \notin OrderIds
  BY OrderCalls, CallingRuns, PlacementIdsAssumption
     DEF IInv, RollbackMandateSettle, Gids
<1>2. SagaSide'
  BY <1>1, Answered DEF IInv, SagaSide, RollbackMandateSettle
<1>20. LedgerOK'
  BY <1>1, LedgerAnswered DEF IInv, RollbackMandateSettle
<1> QED BY <1>20, <1>2 DEF IInv, SagaSide, RollbackMandateSettle, MandatesOK, StockOK,
        stockVars, QueueOK, Handling

\* CreateOrder, up to the insert.
LEMMA GetCheckoutOK ==
    ASSUME IInv, NEW g \in Gids, GetCheckout(g)
    PROVE  IInv'
<1>0. SagaSide /\ UNCHANGED <<order, charged>>
  BY DEF IInv, SagaSide, GetCheckout
<1>1. /\ Running(g)
      /\ g \in OrderIds /\ g \notin Mandates
      /\ saga[g].dir = "forward" /\ saga[g].at = Steps(saga[g].checkout)
      /\ saga[g].at # 1 /\ (saga[g].at = 2 => Steps(saga[g].checkout) # 3)
  BY OrderCalls, MandateCalls, CallingRuns, PlacementIdsAssumption
     DEF IInv, GetCheckout, Gids, Steps
<1>2. PICK new \in {"confirmed", None} :
          IF new = None THEN Answer(g, Conflict(g))
          ELSE saga' = [saga EXCEPT ![g].copy = new] /\ UNCHANGED faults
  BY DEF GetCheckout, NewOrderFromCheckout
<1>3. SagaSide'
  <2>1. CASE new = None
    BY <1>0, <1>1, <1>2, <2>1, Answered, OrderTurnsRound DEF SagaSide
  <2>2. CASE new # None
    <3> DEFINE s == [saga[g] EXCEPT !.copy = new]
    <3>1. OrderSagaOK(saga[g], order[g], charged) /\ saga[g] \in SagaRecord
      BY <1>1 DEF IInv, SagasOK, Gids
    <3>2. /\ s.dir = saga[g].dir /\ s.checkout = saga[g].checkout
          /\ s.at = saga[g].at /\ s.item = saga[g].item /\ s.copy = "confirmed"
      BY <1>2, <2>2, <3>1 DEF SagaRecord
    <3> HIDE DEF s
    <3>3. OrderSagaOK(s, order[g], charged)
      BY <1>1, <3>1, <3>2 DEF OrderSagaOK
    <3>4. new \in Copy
      BY DEF Copy
    <3> QED BY <1>0, <1>1, <1>2, <2>2, <3>3, <3>4, Kept DEF s
  <2> QED BY <2>1, <2>2
<1>20. LedgerOK'
  <2>1. UNCHANGED stockVars
    BY DEF GetCheckout
  <2>2. CASE new = None
    BY <1>1, <1>2, <2>1, <2>2, LedgerAnswered DEF IInv
  <2>3. CASE new # None
    BY <1>2, <2>1, <2>3, LedgerCopy DEF IInv, stockVars
  <2> QED BY <2>2, <2>3
<1> QED BY <1>20, <1>3 DEF IInv, SagaSide, GetCheckout, MandatesOK, StockOK, stockVars,
        QueueOK, Handling

\* A saga that writes its own order o, and is answered a or called again.
LEMMA OrderWritten ==
    ASSUME SagaSide, NEW g \in OrderIds, Running(g),
           NEW o \in {"confirmed", "cancelled"}, order' = [order EXCEPT ![g] = o],
           UNCHANGED charged, Answer(g, OK(g)),
           UniqueCheckout(g) \/ order[g] # None,
           OrderSagaOK(OK(g), o, charged), OrderSagaOK(Again(g), o, charged)
    PROVE  SagaSide'
<1>1. g \in Gids /\ g \notin Mandates
  BY PlacementIdsAssumption DEF Gids
<1>2. PICK s \in {OK(g), Again(g)} : saga' = [saga EXCEPT ![g] = s]
  BY DEF Answer
<1>3. /\ s \in SagaRecord /\ s.checkout = saga[g].checkout
      /\ order \in [OrderIds -> {"confirmed", "cancelled", None}]
  BY <1>1, <1>2, AnswerFields DEF SagaSide, OrdersOK
<1>4. SagasOK'
  BY <1>1, <1>2, <1>3, SagaStep DEF SagaSide
<1>5. order' \in [OrderIds -> {"confirmed", "cancelled", None}]
  BY <1>3
<1>6. \A h \in OrderIds : saga'[h].checkout = saga[h].checkout
  BY <1>2, <1>3 DEF SagaSide, SagasOK, Gids
<1>7. AtMostOneOrder'
  <2>1. \A h \in OrderIds \ {g} :
            order[h] # None => saga[h].checkout # saga[g].checkout
    BY DEF SagaSide, OrdersOK, AtMostOneOrder, UniqueCheckout
  <2> QED BY <1>3, <1>6, <2>1 DEF SagaSide, OrdersOK, AtMostOneOrder
<1>8. faults' \in 0..MaxFaults
  BY FaultsBounded DEF SagaSide, Answer
<1> QED BY <1>4, <1>5, <1>7, <1>8 DEF SagaSide, OrdersOK

\* CreateOrder inserts, or finds the checkout taken.
LEMMA CreateOrderOK ==
    ASSUME IInv, NEW g \in Gids, CreateOrder(g)
    PROVE  IInv'
<1>0. SagaSide /\ UNCHANGED charged
  BY DEF IInv, SagaSide, CreateOrder
<1>1. /\ Running(g)
      /\ g \in OrderIds
      /\ saga[g].dir = "forward" /\ saga[g].at = Steps(saga[g].checkout)
  BY OrderCalls, MandateCalls, CallingRuns, PlacementIdsAssumption
     DEF IInv, CreateOrder, Gids
<1>2. /\ OrderSagaOK(saga[g], order[g], charged)
      /\ Steps(saga[g].checkout) \in {2, 3}
      /\ Steps(saga[g].checkout) = 3 <=> MandateOf[saga[g].checkout] # None
  BY <1>1 DEF IInv, SagasOK, Steps
<1>3. saga[g].copy = "confirmed"
  BY <1>1, <1>2 DEF CreateOrder, OrderSagaOK
<1>4. Paid(saga[g].checkout, charged)
  BY <1>1, <1>2 DEF OrderSagaOK, Paid
<1>5. SagaSide'
  <2>1. CASE UniqueCheckout(g)
    <3>1. OrderSagaOK(OK(g), "confirmed", charged)
      BY <1>0, <1>1, <1>2, <1>4, OrderMovesOn DEF SagaSide
    <3>2. OrderSagaOK(Again(g), "confirmed", charged)
      <4>1. /\ Again(g).checkout = saga[g].checkout /\ Again(g).item = 1
            /\ Again(g).copy = None /\ Again(g).at = saga[g].at
            /\ Again(g).dir = "forward"
        BY <1>0, <1>1, AnswerFields DEF SagaSide
      <4>2. 1 \in DOMAIN Items[saga[g].checkout]
        BY <1>1, <1>2, FirstItem DEF OrderSagaOK
      <4> HIDE DEF Again
      <4> QED BY <1>1, <1>2, <1>4, <4>1, <4>2 DEF OrderSagaOK
    <3> QED BY <1>0, <1>1, <1>3, <2>1, <3>1, <3>2, OrderWritten DEF CreateOrder
  <2>2. CASE ~UniqueCheckout(g)
    BY <1>0, <1>1, <2>2, Answered, OrderTurnsRound DEF CreateOrder, SagaSide
  <2> QED BY <2>1, <2>2
<1>20. LedgerOK'
  <2>1. saga[g].at # 1
    BY <1>1, <1>2
  <2>2. UNCHANGED stockVars /\ \E a \in {Conflict(g), OK(g)} : Answer(g, a)
    BY DEF CreateOrder
  <2> QED BY <1>1, <2>1, <2>2, LedgerAnswered DEF IInv
<1> QED BY <1>20, <1>5 DEF IInv, SagaSide, CreateOrder, MandatesOK, StockOK, stockVars,
        QueueOK, Handling

\* CancelOrder takes back its own order.
LEMMA CancelOrderOK ==
    ASSUME IInv, NEW g \in Gids, CancelOrder(g)
    PROVE  IInv'
<1>0. SagaSide /\ UNCHANGED charged
  BY DEF IInv, SagaSide, CancelOrder
<1>1. /\ Running(g)
      /\ g \in OrderIds
      /\ saga[g].dir = "back" /\ saga[g].at = Steps(saga[g].checkout)
  BY OrderCalls, MandateCalls, CallingRuns, PlacementIdsAssumption
     DEF IInv, CancelOrder, Gids
<1>2. /\ OrderSagaOK(saga[g], order[g], charged)
      /\ Steps(saga[g].checkout) \in {2, 3}
  BY <1>1 DEF IInv, SagasOK, Steps
<1>3. SagaSide'
  <2>1. CASE order[g] = "confirmed"
    <3>0. order[g] # None
      BY <2>1, PlacementIdsAssumption
    <3>1. Paid(saga[g].checkout, charged)
      BY <1>2, <3>0 DEF OrderSagaOK
    <3>2. OrderSagaOK(OK(g), "cancelled", charged)
      BY <1>0, <1>1, <1>2, <3>1, OrderMovesOn DEF SagaSide
    <3>3. OrderSagaOK(Again(g), "cancelled", charged)
      <4>1. /\ Again(g).checkout = saga[g].checkout /\ Again(g).item = 1
            /\ Again(g).copy = None /\ Again(g).at = saga[g].at
            /\ Again(g).dir = "back"
        BY <1>0, <1>1, AnswerFields DEF SagaSide
      <4>2. 1 \in DOMAIN Items[saga[g].checkout]
        BY <1>1, <1>2, FirstItem DEF OrderSagaOK
      <4> QED BY <1>1, <1>2, <3>1, <4>1, <4>2 DEF OrderSagaOK
    <3> QED BY <1>0, <1>1, <2>1, <3>0, <3>2, <3>3, OrderWritten DEF CancelOrder
  <2>2. CASE order[g] # "confirmed"
    BY <1>0, <1>1, <2>2, Answered, OrderTurnsRound DEF CancelOrder, SagaSide
  <2> QED BY <2>1, <2>2
<1>20. LedgerOK'
  <2>1. saga[g].at # 1
    BY <1>1, <1>2
  <2>2. UNCHANGED stockVars /\ \E a \in {Conflict(g), OK(g)} : Answer(g, a)
    BY DEF CancelOrder
  <2> QED BY <1>1, <2>1, <2>2, LedgerAnswered DEF IInv
<1> QED BY <1>20, <1>3 DEF IInv, SagaSide, CancelOrder, MandatesOK, StockOK, stockVars,
        QueueOK, Handling

\* A call that is lost is repeated.
LEMMA LoseCallOK ==
    ASSUME IInv, NEW g \in Gids, LoseCall(g)
    PROVE  IInv'
<1>1. Running(g) /\ Answer(g, Conflict(g)) /\ SagaSide
  BY DEF LoseCall, Answer, IInv, SagaSide
<1>2. SagaSide'
  BY <1>1, Answered, OrderTurnsRound DEF LoseCall, SagaSide
<1>20. LedgerOK'
  <2>1. saga' = [saga EXCEPT ![g] = Again(g)] /\ stock' = stock
    BY DEF LoseCall
  <2>2. Again(g).checkout = saga[g].checkout
    BY <1>1, AnswerFields DEF SagaSide
  <2>3. drifted' = drifted \cup IF g \in OrderIds THEN Done(g) ELSE {}
    BY DEF LoseCall, Drift
  <2>4. ASSUME g \in OrderIds, NEW i,
               Items[saga[g].checkout][i].product \notin Done(g)
        PROVE  i \in HeldLines(Again(g)) <=> i \in HeldLines(saga[g])
    <3>1. CASE saga[g].at # 1
      BY <1>1, <2>4, <3>1, AnswerHolds DEF SagaSide
    <3>2. CASE saga[g].at = 1
      BY <1>1, <2>4, <3>2, RepeatHolds DEF SagaSide
    <3> QED BY <3>1, <3>2
  <2> QED BY <2>1, <2>2, <2>3, <2>4, LedgerSame DEF IInv
<1>21. StockOK'
  <2>1. g \in OrderIds => Done(g) \subseteq Products
    BY <1>1, CartProducts DEF SagaSide
  <2> QED BY <2>1 DEF IInv, StockOK, LoseCall, Drift
<1> QED BY <1>20, <1>21, <1>2 DEF IInv, SagaSide, LoseCall, MandatesOK, QueueOK, Handling

\* An administrator's request reads a row,
LEMMA UpdateStockOK ==
    ASSUME IInv, NEW p \in Products, NEW quantity \in Counts, UpdateStock(p, quantity)
    PROVE  IInv'
<1>1. PICK item, new :
          /\ Lookup(p, item)
          /\ new \in {Inventory!SetStock(item, quantity), Inventory!Restock(item, quantity)}
          /\ new # None
          /\ admin' = [product |-> p, row |-> item, copy |-> new]
  BY DEF UpdateStock
<1>2. /\ item \in Inventory!Item
      /\ stockCache' \in [Products -> Inventory!Item \cup {None}]
  BY <1>1, LookupOK DEF IInv, StockOK
<1>3. new \in Inventory!Item /\ new.ReservedQuantity = item.ReservedQuantity
  BY <1>1, <1>2, PlacementIdsAssumption
     DEF Inventory!SetStock, Inventory!Restock, Inventory!Item
<1>4. updates' \in 0..MaxUpdates
  BY PlacementIdsAssumption DEF IInv, StockOK, UpdateStock
<1>5. UNCHANGED <<checkout, queue, consumer, saga, stock, drifted, mandate, order,
                  charged, faults>>
  BY DEF UpdateStock
<1>6. StockOK'
  BY <1>1, <1>2, <1>3, <1>4, <1>5 DEF IInv, StockOK
<1>7. LedgerOK'
  BY <1>5, LedgerIdle DEF IInv
<1> QED BY <1>5, <1>6, <1>7 DEF IInv, SagasOK, MandatesOK, QueueOK, Handling,
        OrdersOK, AtMostOneOrder

\* and writes it back, with the reservations it has read.
LEMMA SaveStockOK ==
    ASSUME IInv, SaveStock
    PROVE  IInv'
<1>1. UNCHANGED <<checkout, queue, consumer, saga, updates, mandate, order, charged, faults>>
  BY DEF SaveStock
<1>2. /\ admin.product \in Products
      /\ admin.row \in Inventory!Item /\ admin.copy \in Inventory!Item
      /\ admin.copy.ReservedQuantity = admin.row.ReservedQuantity
      /\ stock' = [stock EXCEPT ![admin.product] = admin.copy]
      /\ drifted' = drifted \cup (IF admin.row = stock[admin.product]
                                  THEN {} ELSE {admin.product})
      /\ admin' = None
  BY DEF IInv, StockOK, SaveStock, Drift
<1>3. StockOK'
  BY <1>1, <1>2 DEF IInv, StockOK, SaveStock
<1>4. LedgerOK'
  <2>1. \A r : Holding(r)' = Holding(r)
    BY <1>1 DEF Holding
  <2>2. ASSUME NEW r \in Products \ drifted'
        PROVE  stock'[r].ReservedQuantity = stock[r].ReservedQuantity
    BY <1>2, <2>2 DEF IInv, StockOK
  <2>3. drifted \subseteq drifted'
    BY <1>2
  <2> QED BY <2>1, <2>2, <2>3 DEF IInv, LedgerOK
<1> QED BY <1>1, <1>3, <1>4 DEF IInv, SagasOK, MandatesOK, QueueOK, Handling,
        OrdersOK, AtMostOneOrder

-----------------------------------------------------------------------------
(* The invariant *)

\* The invariant holds at first,
LEMMA InitOK == Init => IInv
<1> SUFFICES ASSUME Init PROVE IInv
  OBVIOUS
<1>1. NoSaga \in SagaRecord /\ NoSaga.dir = "none" /\ NoSaga.copy = None
      /\ NoSaga.checkout = None
  BY DEF NoSaga, SagaRecord, Copy
<1>2. SagasOK
  <2>1. OrderSagaOK(NoSaga, None, {})
    BY <1>1, PlacementIdsAssumption DEF OrderSagaOK
  <2>2. \A m \in Mandates : MandateSagaOK(NoSaga, m, {})
    BY <1>1 DEF MandateSagaOK
  <2> QED BY <1>1, <2>1, <2>2 DEF Init, SagasOK, Gids
<1>3. MandatesOK
  BY DEF Init, MandatesOK, Payment!MandateStatus, Payment!Charged
<1>4. StockOK
  BY CartsAssumption, PlacementIdsAssumption DEF Init, StockOK, stockVars, Inventory!Item,
     Inventory!NewInventoryItem
<1>7. LedgerOK
  <2>1. NoSaga.dir = "none"
    BY DEF NoSaga
  <2>2. \A p : HeldUnits(NoSaga, p) = {}
    BY <2>1 DEF HeldUnits, HeldLines
  <2>3. \A p : Holding(p) = {}
    BY <2>2 DEF Init, Holding, Gids
  <2>4. IsFiniteSet({}) /\ Cardinality({}) = 0
    BY FS_EmptySet
  <2> QED BY <2>3, <2>4 DEF Init, LedgerOK, Inventory!NewInventoryItem
<1>5. QueueOK
  <2>1. ASSUME NEW c \in Checkouts PROVE Cardinality(Handling(c)) = 0
    <3>1. Handling(c) = {}
      BY PlacementIdsAssumption DEF Init, Handling
    <3> QED BY <3>1, FS_EmptySet
  <2> QED BY <2>1 DEF Init, QueueOK
<1>6. OrdersOK /\ faults \in 0..MaxFaults
  BY PlacementIdsAssumption DEF Init, OrdersOK, AtMostOneOrder
<1> QED BY <1>2, <1>3, <1>4, <1>5, <1>6, <1>7 DEF IInv

\* every step keeps it,
LEMMA NextOK == IInv /\ [Next]_vars => IInv'
<1> SUFFICES ASSUME IInv, [Next]_vars PROVE IInv'
  OBVIOUS
<1>1. ASSUME NEW c \in Checkouts, Charge(c) \/ CompleteCheckout(c) \/ OverwriteCheckout(c)
      PROVE  IInv'
  BY <1>1, ChargeOK, CompleteCheckoutOK, OverwriteCheckoutOK
<1>2. ASSUME NEW v \in Servers, Consume(v) \/ Nak(v) PROVE IInv'
  BY <1>2, ReceiveOK, SubmitOK, NakOK DEF Consume
<1>3. ASSUME NEW g \in Gids, Serve(g) \/ LoseCall(g) PROVE IInv'
  BY <1>3, InventoryLoadOK, SaveInventoryOK, VerifyPaymentOK, MandateLoadOK,
     SaveMandateOK, RollbackMandateSettleOK, GetCheckoutOK, CreateOrderOK,
     CancelOrderOK, LoseCallOK DEF Serve
<1>4. CASE UNCHANGED vars
  <2>1. LedgerOK'
    BY <1>4, LedgerIdle DEF vars, stockVars, IInv
  <2> QED BY <1>4, <2>1 DEF vars, IInv, SagasOK, MandatesOK, StockOK, stockVars, QueueOK,
          Handling, OrdersOK, AtMostOneOrder
<1>5. CASE SaveStock \/ \E p \in Products, quantity \in Counts : UpdateStock(p, quantity)
  BY <1>5, UpdateStockOK, SaveStockOK
<1> QED BY <1>1, <1>2, <1>3, <1>4, <1>5 DEF Next

\* hence it holds in every state.
LEMMA Inductive == Spec => []IInv
BY InitOK, NextOK, PTL DEF Spec

-----------------------------------------------------------------------------
(* The properties *)

\* Rows, copies, messages and sagas keep their types; a running saga is at
\* one of its branches and holds what the handler it is at will save.
THEOREM TypeCorrect == Spec => []TypeOK
<1>1. ASSUME IInv PROVE TypeOK
  <2>1. ASSUME NEW g \in Gids PROVE SagaOK(g)
    <3>1. saga[g] \in SagaRecord
      BY <1>1 DEF IInv, SagasOK
    <3>2. CASE g \in OrderIds
      <4>1. OrderSagaOK(saga[g], order[g], charged)
        BY <1>1, <3>2 DEF IInv, SagasOK
      <4>2. /\ saga[g].dir \in {"none", "forward", "back", "succeed", "failed"}
            /\ saga[g].checkout \in Checkouts \cup {None}
            /\ saga[g].dir = "none" <=> saga[g].checkout = None
        BY <3>1, <4>1, PlacementIdsAssumption DEF SagaRecord, OrderSagaOK, NoSaga
      <4>3. Running(g) => /\ saga[g].at \in 1..Len(Branches(g))
                          /\ saga[g].item \in DOMAIN Items[saga[g].checkout]
        BY <3>2, <4>1, OrderBranches DEF OrderSagaOK, Running
      <4>4. saga[g].copy # None => Running(g) /\ HoldsWhatItSaves(g)
        <5> SUFFICES ASSUME saga[g].copy # None PROVE Running(g) /\ HoldsWhatItSaves(g)
          OBVIOUS
        <5>1. Running(g) /\ Steps(saga[g].checkout) \in {2, 3}
          BY <4>1 DEF OrderSagaOK, Running, Steps
        <5>2. CASE saga[g].at = 1
          BY <1>1, <3>2, <4>1, <5>1, <5>2, OrderCalls
             DEF IInv, OrderSagaOK, HoldsWhatItSaves, Running
        <5>3. CASE saga[g].at = Steps(saga[g].checkout)
          BY <1>1, <3>2, <4>1, <5>1, <5>3, OrderCalls
             DEF IInv, OrderSagaOK, HoldsWhatItSaves
        <5>4. CASE saga[g].at = 2 /\ Steps(saga[g].checkout) = 3
          BY <1>1, <3>2, <4>1, <5>1, <5>4, OrderCalls
             DEF IInv, OrderSagaOK, HoldsWhatItSaves, Payment!MandateStatus
        <5>5. saga[g].at \in 1..Steps(saga[g].checkout)
          BY <4>1, <5>1 DEF OrderSagaOK, Running
        <5> QED BY <5>1, <5>2, <5>3, <5>4, <5>5
      <4> QED BY <4>2, <4>3, <4>4 DEF SagaOK
    <3>3. CASE g \in Mandates
      <4>1. MandateSagaOK(saga[g], g, charged) /\ g \notin OrderIds
        BY <1>1, <3>3, PlacementIdsAssumption DEF IInv, SagasOK
      <4>2. saga[g].copy # None => Running(g) /\ HoldsWhatItSaves(g)
        BY <1>1, <3>3, <4>1, MandateCalls DEF IInv, MandateSagaOK, HoldsWhatItSaves, Running
      <4>3. Running(g) => saga[g].at \in 1..Len(Branches(g))
        BY <3>3, <4>1, MandateBranches DEF MandateSagaOK, Running
      <4> QED BY <3>1, <4>1, <4>2, <4>3 DEF SagaOK, SagaRecord
    <3> QED BY <3>2, <3>3 DEF Gids
  <2> QED BY <1>1, <2>1
          DEF IInv, TypeOK, QueueOK, StockOK, MandatesOK, OrdersOK
<1> QED BY <1>1, Inductive, PTL

\* However often its completion is announced, redelivered or retried, and
\* with any number of servers and order ids, a checkout has one order.
THEOREM OneOrderPerCheckout == Spec => []AtMostOneOrder
<1>1. IInv => AtMostOneOrder
  BY DEF IInv, OrdersOK
<1> QED BY <1>1, Inductive, PTL

\* No order of a checkout with a mandate exists before the mandate was
\* executed, though the two sagas run apart and write whole rows.
THEOREM OrdersArePaid == Spec => []OrderWasPaid
<1>1. IInv => OrderWasPaid
  BY DEF IInv, SagasOK, OrderSagaOK, OrderWasPaid, Paid
<1> QED BY <1>1, Inductive, PTL

\* What DTM reports of a saga agrees with the orders row, in spite of lost
\* answers and repeated calls.
THEOREM SagasTellTheTruth == Spec => []SagaMatchesOrder
<1>1. IInv => SagaMatchesOrder
  BY DEF IInv, SagasOK, OrderSagaOK, SagaMatchesOrder
<1> QED BY <1>1, Inductive, PTL

\* The inventory rows count what the orders hold, except where a save undid
\* another, a call was repeated or a refused line released.
THEOREM ReservationsBalance == Spec => []ReservedIsHeld
<1>1. IInv => ReservedIsHeld
  BY DEF IInv, LedgerOK, ReservedIsHeld
<1> QED BY <1>1, Inductive, PTL

=============================================================================
