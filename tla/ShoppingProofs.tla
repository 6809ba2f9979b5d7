---------------------------- MODULE ShoppingProofs ----------------------------
(***************************************************************************)
(* Shopping's safety properties for any users, carts, products, codes,     *)
(* tasks and handlers and any number of faults.                            *)
(*                                                                         *)
(* What a task tells is inductive with what its message's handler has yet  *)
(* to do (TaskOK): one handler at most works on a message, it has added    *)
(* the item exactly while it waits for the DEL after that save, and until  *)
(* it is through the row says neither completed nor failed.  The other     *)
(* properties speak of carts, codes and tasks nobody disturbed: one        *)
(* handler at most has a copy, of the row as it stands or as the request   *)
(* asks to change it (CartCalm, CodeCalm, TaskCalm).                       *)
(***************************************************************************)
EXTENDS Shopping, FiniteSetTheorems, TLAPS

CartOps == {"CreateOrGet", "AddItem", "GetCart", "UpdateQuantity", "RemoveItem", "ClearCart"}

CodeOps == {"CreateCode", "ValidateCode", "ApplyCode", "DeactivateCode"}

TaskOps == {"SendMessage", "CancelTask", "CreatePushConfig", "DeletePushConfig"}

CartPcs == {"find", "fill", "apply", "save", "del"}

ItemArg == [cart: Carts \cup {None}, product: Products \cup {None}, quantity: Int]

MessageArg == [skill: {"cart", "other", "unknown"}, product: Products \cup {None}, quantity: Int]

AllRequests ==
    [op: CartOps \cup CodeOps \cup TaskOps \cup {"none"},
     key: Users \cup Codes \cup Tasks \cup PushConfigs \cup {None},
     arg: {None} \cup Int \cup ItemArg \cup MessageArg \cup PushConfigs]

ReqOK(r) ==
    /\ r \in AllRequests
    /\ r.op \in CartOps => r.key \in Users /\ r.arg \in ItemArg
    /\ r.op \in {"AddItem", "UpdateQuantity", "RemoveItem"} => r.arg.product \in Products
    /\ r.op \in CodeOps => r.key \in Codes
    /\ r.op = "CreateCode" => r.arg \in Nat
    /\ r.op = "SendMessage" => /\ r.key \in Users /\ r.arg \in MessageArg
                               /\ r.arg.skill # "cart" => r.arg.product = None
    /\ r.op \in {"CancelTask", "CreatePushConfig"} => r.key \in Tasks
    /\ r.op = "CreatePushConfig" => r.arg \in PushConfigs
    /\ r.op = "DeletePushConfig" => r.key \in PushConfigs

ProcRecord ==
    [pc: CartPcs \cup {"idle", "insert", "lookup", "increment", "deactivate", "submit",
                       "working", "cancel", "finish", "pushfind", "pushdelete"},
     req: AllRequests, id: Carts \cup {None}, new: BOOLEAN,
     cart: Cart \cup {None}, code: Code \cup {None}, task: Task \cup {None}]

\* Where a request of a kind may be.
PlaceOK(q) ==
    /\ q.pc = "idle" => q = Idle
    /\ q.pc \notin {"idle", "finish"} => ReqOK(q.req)
    /\ q.pc \in CartPcs => q.req.op \in CartOps
    /\ q.pc \in CartPcs /\ q.req.op \in {"CreateOrGet", "AddItem"} => q.id \in Carts
    /\ q.pc = "insert" => q.req.op = "CreateCode"
    /\ q.pc \in {"lookup", "increment", "deactivate"} =>
          q.req.op \in {"ValidateCode", "ApplyCode", "DeactivateCode"}
    /\ q.pc \in {"submit", "working"} => q.req.op = "SendMessage"
    /\ q.pc = "cancel" => q.req.op = "CancelTask"
    /\ q.pc = "pushfind" => q.req.op = "CreatePushConfig"
    /\ q.pc = "pushdelete" => q.req.op = "DeletePushConfig"

\* The cart in memory: of the user who asks, and there to be saved only when
\* the request changes it or it is a new one.
CartOK(q) ==
    /\ q.cart # None <=> q.pc \in {"fill", "apply", "save", "del"}
    /\ q.cart # None => q.cart.user = q.req.key
    /\ q.pc \in {"save", "del"} => q.req.op # "GetCart"
    /\ q.pc \in {"save", "del"} /\ q.req.op = "CreateOrGet" => q.new
    /\ q.new => q.pc \in {"save", "del"} /\ q.req.op \in {"CreateOrGet", "AddItem"}

CodeOK(q, cd) ==
    /\ q.code # None <=> q.pc \in {"increment", "deactivate"}
    /\ q.code # None => cd[q.req.key] # None

Answered == {"completed", "failed"}

\* tk are the tasks' rows, dn the tasks whose item was saved.
TaskOK(q, tk, dn) ==
    /\ q.pc \in {"working", "finish"} => q.task # None
    /\ q.task # None =>
          /\ q.pc \in CartPcs \cup {"working", "finish"}
          /\ tk[q.task.id] # None
          /\ tk[q.task.id].adds = q.task.adds
          /\ q.task.state # "canceled" => tk[q.task.id].state \notin Answered
    /\ q.task # None /\ q.pc # "finish" =>
          /\ q.task.state = "working"
          /\ q.task.id \in dn <=> q.pc = "del" /\ ~q.new
    /\ q.task # None /\ q.pc = "working" => (q.task.adds <=> q.req.arg.product # None)
    /\ q.task # None /\ q.pc \in CartPcs =>
          q.req.op \in {"AddItem", "GetCart"} /\ (q.task.adds <=> q.req.op = "AddItem")
    /\ q.pc = "finish" =>
          /\ q.task.state \in {"completed", "failed", "canceled"}
          /\ q.task.state = "completed" /\ q.task.adds => q.task.id \in dn
          /\ q.task.state = "failed" /\ q.task.adds => q.task.id \notin dn

HandlerOK(q, cd, tk, dn) ==
    q \in ProcRecord /\ PlaceOK(q) /\ CartOK(q) /\ CodeOK(q, cd) /\ TaskOK(q, tk, dn)

AtCart(q, u) == q.cart # None /\ q.cart.user = u
AtCode(q, d) == q.code # None /\ q.req.key = d
AtTask(q, t) == q.task # None /\ q.task.id = t

\* The handler of the message that made task t.
Mine(q, t) == AtTask(q, t) /\ q.task.state # "canceled"

CartsOK ==
    /\ carts \in [Carts -> Cart \cup {None}]
    /\ \A c \in Carts : carts[c] # None => carts[c].id = c
    /\ \A b, c \in Carts :
          carts[b] # None /\ carts[c] # None /\ carts[b].user = carts[c].user => b = c
    /\ cache \in [Users -> Cart \cup {None}]
    /\ \A u \in Users : cache[u] # None => cache[u].user = u

CodesOK ==
    /\ codes \in [Codes -> Code \cup {None}]
    /\ uses \in [Codes -> Nat]
    /\ \A d \in Codes : codes[d] = None => uses[d] = 0

TasksOK ==
    /\ tasks \in [Tasks -> Task \cup {None}]
    /\ \A t \in Tasks : tasks[t] # None => tasks[t].id = t
    /\ \A t \in Tasks : t \in done => tasks[t] # None
    /\ \A t \in Tasks : tasks[t] # None /\ tasks[t].adds =>
          /\ tasks[t].state = "completed" => t \in done
          /\ tasks[t].state = "failed" => t \notin done
    /\ push \in [PushConfigs -> Tasks \cup {None}]
    /\ \A c \in PushConfigs : push[c] # None => tasks[push[c]] # None

ProcsOK ==
    /\ proc \in [Handlers -> ProcRecord]
    /\ \A h \in Handlers : HandlerOK(proc[h], codes, tasks, done)
    /\ \A t \in Tasks : \A g, h \in Handlers : Mine(proc[g], t) /\ Mine(proc[h], t) => g = h

\* What a copy of u's cart is, ct being the carts' rows.
CartProc(q, u, ct) ==
    AtCart(q, u) =>
        /\ q.pc \in {"fill", "apply", "del"} => ct[q.cart.id] = q.cart
        /\ q.pc = "save" /\ q.new =>
              /\ \A c \in Carts : ct[c] = None \/ ct[c].user # u
              /\ q.cart.items = Basket!Empty
        /\ q.pc = "save" /\ ~q.new =>
              /\ ct[q.cart.id] # None
              /\ ct[q.cart.id].user = u
              /\ AsAsked(q.req, ct[q.cart.id].items, q.cart.items)

CartCalm(u) ==
    /\ \A g, h \in Handlers : AtCart(proc[g], u) /\ AtCart(proc[h], u) => g = h
    /\ \A h \in Handlers : CartProc(proc[h], u, carts)
    /\ cache[u] # None =>
          \/ carts[cache[u].id] = cache[u]
          \/ \E h \in Handlers : AtCart(proc[h], u) /\ proc[h].pc = "del"

CodeProc(q, d, c) ==
    AtCode(q, d) => q.code = c /\ (q.pc = "increment" => Discount!IsValid(c))

CodeCalm(d) ==
    /\ \A g, h \in Handlers : AtCode(proc[g], d) /\ AtCode(proc[h], d) => g = h
    /\ \A h \in Handlers : CodeProc(proc[h], d, codes[d])
    /\ codes[d] # None => /\ codes[d].used = uses[d]
                          /\ codes[d].max > 0 => uses[d] <= codes[d].max

TaskCalm(t) ==
    /\ \A g, h \in Handlers : AtTask(proc[g], t) /\ AtTask(proc[h], t) => g = h
    /\ \A h \in Handlers : AtTask(proc[h], t) => ~Agent!IsTerminal(tasks[t].state)

IInv ==
    /\ CartsOK
    /\ CodesOK
    /\ TasksOK
    /\ ProcsOK
    /\ disturbed \subseteq Users \cup Codes \cup Tasks
    /\ \A u \in Users \ disturbed : CartCalm(u)
    /\ \A d \in Codes \ disturbed : CodeCalm(d)
    /\ \A t \in Tasks \ disturbed : TaskCalm(t)

-----------------------------------------------------------------------------
(* One handler moves on *)

\* At rest a handler has nothing in memory.
LEMMA IdleOK ==
    /\ Idle \in ProcRecord /\ Idle.pc = "idle" /\ Idle.req.op = "none" /\ Idle.new = FALSE
    /\ Idle.cart = None /\ Idle.code = None /\ Idle.task = None
    /\ \A cd, tk, dn : HandlerOK(Idle, cd, tk, dn)
<1>1. /\ Idle \in ProcRecord /\ Idle.pc = "idle" /\ Idle.req.op = "none" /\ Idle.new = FALSE
      /\ Idle.cart = None /\ Idle.code = None /\ Idle.task = None
  BY DEF Idle, Request, ProcRecord, AllRequests, CartPcs
<1>2. PICK q : q = Idle
  OBVIOUS
<1>3. \A cd, tk, dn : PlaceOK(q) /\ CartOK(q) /\ CodeOK(q, cd) /\ TaskOK(q, tk, dn)
  BY <1>1, <1>2 DEF PlaceOK, CartOK, CodeOK, TaskOK, CartPcs
<1> QED BY <1>1, <1>2, <1>3 DEF HandlerOK

\* What every action may use of the handler it is about.
LEMMA Facts ==
    ASSUME IInv, NEW h \in Handlers
    PROVE  /\ proc \in [Handlers -> ProcRecord] /\ proc[h] \in ProcRecord
           /\ HandlerOK(proc[h], codes, tasks, done) /\ PlaceOK(proc[h]) /\ CartOK(proc[h])
           /\ CodeOK(proc[h], codes) /\ TaskOK(proc[h], tasks, done)
           /\ disturbed \subseteq Users \cup Codes \cup Tasks
BY DEF IInv, ProcsOK, HandlerOK

\* A code in memory is one of Codes.
LEMMA CodeKey ==
    ASSUME IInv, NEW h \in Handlers, proc[h].code # None PROVE proc[h].req.key \in Codes
BY Facts DEF CodeOK, PlaceOK, ReqOK, CodeOps

\* Nothing of table and Redis changes for the carts when h moves on to q.
CartSafe(h, q, u) ==
    /\ CartProc(q, u, carts)
    /\ AtCart(q, u) /\ ~AtCart(proc[h], u) => \A g \in Handlers \ {h} : ~AtCart(proc[g], u)
    /\ AtCart(proc[h], u) /\ proc[h].pc = "del" => AtCart(q, u) /\ q.pc = "del"

\* A step beside a cart leaves it and its copy as they were.
LEMMA CartKept ==
    ASSUME IInv, NEW u \in Users \ disturbed, NEW h \in Handlers, NEW q,
           proc' = [proc EXCEPT ![h] = q], UNCHANGED <<carts, cache>>, CartSafe(h, q, u)
    PROVE  CartCalm(u)'
<1>1. \A g \in Handlers : proc'[g] = IF g = h THEN q ELSE proc[g]
  BY DEF IInv, ProcsOK
<1>2. CartCalm(u)
  BY DEF IInv
<1>3. \A f, g \in Handlers : AtCart(proc'[f], u) /\ AtCart(proc'[g], u) => f = g
  BY <1>1, <1>2 DEF CartCalm, CartSafe
<1>4. \A g \in Handlers : CartProc(proc'[g], u, carts)
  BY <1>1, <1>2 DEF CartCalm, CartSafe
<1>5. cache[u] # None => \/ carts[cache[u].id] = cache[u]
                         \/ \E g \in Handlers : AtCart(proc'[g], u) /\ proc'[g].pc = "del"
  <2>1. ASSUME NEW g \in Handlers, AtCart(proc[g], u), proc[g].pc = "del"
        PROVE  \E f \in Handlers : AtCart(proc'[f], u) /\ proc'[f].pc = "del"
    BY <1>1, <2>1 DEF CartSafe
  <2> QED BY <1>2, <2>1 DEF CartCalm
<1> QED BY <1>3, <1>4, <1>5 DEF CartCalm

CodeSafe(h, q, d) ==
    /\ CodeProc(q, d, codes[d])
    /\ AtCode(q, d) /\ ~AtCode(proc[h], d) => \A g \in Handlers \ {h} : ~AtCode(proc[g], d)

\* A step beside a code leaves it and its count.
LEMMA CodeKept ==
    ASSUME IInv, NEW d \in Codes \ disturbed, NEW h \in Handlers, NEW q,
           proc' = [proc EXCEPT ![h] = q], UNCHANGED <<codes, uses>>, CodeSafe(h, q, d)
    PROVE  CodeCalm(d)'
<1>1. \A g \in Handlers : proc'[g] = IF g = h THEN q ELSE proc[g]
  BY DEF IInv, ProcsOK
<1>2. CodeCalm(d)
  BY DEF IInv
<1>3. \A f, g \in Handlers : AtCode(proc'[f], d) /\ AtCode(proc'[g], d) => f = g
  BY <1>1, <1>2 DEF CodeCalm, CodeSafe
<1>4. \A g \in Handlers : CodeProc(proc'[g], d, codes[d])
  BY <1>1, <1>2 DEF CodeCalm, CodeSafe
<1> QED BY <1>2, <1>3, <1>4 DEF CodeCalm

\* tk are the tasks' rows after the step.
TaskSafe(h, q, t, tk) ==
    /\ AtTask(q, t) => ~Agent!IsTerminal(tk[t].state)
    /\ AtTask(q, t) /\ ~AtTask(proc[h], t) => \A g \in Handlers \ {h} : ~AtTask(proc[g], t)
    /\ tk[t] # tasks[t] => \A g \in Handlers \ {h} : ~AtTask(proc[g], t)

\* A step beside a task leaves it, or is its only handler's.
LEMMA TaskKept ==
    ASSUME IInv, NEW t \in Tasks \ disturbed, NEW h \in Handlers, NEW q,
           proc' = [proc EXCEPT ![h] = q], TaskSafe(h, q, t, tasks')
    PROVE  TaskCalm(t)'
<1>1. \A g \in Handlers : proc'[g] = IF g = h THEN q ELSE proc[g]
  BY DEF IInv, ProcsOK
<1>2. TaskCalm(t)
  BY DEF IInv
<1>3. \A f, g \in Handlers : AtTask(proc'[f], t) /\ AtTask(proc'[g], t) => f = g
  BY <1>1, <1>2 DEF TaskCalm, TaskSafe
<1>4. \A g \in Handlers : AtTask(proc'[g], t) => ~Agent!IsTerminal(tasks'[t].state)
  BY <1>1, <1>2 DEF TaskCalm, TaskSafe
<1> QED BY <1>3, <1>4 DEF TaskCalm

\* What another handler may see when h moves on: no code and no task is
\* removed, what a task adds is settled, and of a task it works on itself the
\* row is not answered and the item not saved by anyone else.
Undisturbing(q, cd, tk, dn) ==
    /\ \A d \in Codes : codes[d] # None => cd[d] # None
    /\ \A t \in Tasks : tasks[t] # None => tk[t] # None /\ tk[t].adds = tasks[t].adds
    /\ \A t \in Tasks : Mine(q, t) => /\ t \in dn <=> t \in done
                                      /\ tk[t].state \in Answered => tasks[t].state \in Answered

\* A handler is not disturbed by what others do to codes and tasks of their own.
LEMMA ProcStable ==
    ASSUME NEW q, HandlerOK(q, codes, tasks, done), NEW cd, NEW tk, NEW dn,
           Undisturbing(q, cd, tk, dn)
    PROVE  HandlerOK(q, cd, tk, dn)
<1>1. q \in ProcRecord /\ PlaceOK(q) /\ CartOK(q) /\ CodeOK(q, codes) /\ TaskOK(q, tasks, done)
  BY DEF HandlerOK
<1>2. CodeOK(q, cd)
  <2>1. q.code # None => q.req.key \in Codes
    BY <1>1 DEF CodeOK, PlaceOK, ReqOK, CodeOps
  <2> QED BY <1>1, <2>1 DEF CodeOK, Undisturbing
<1>3. TaskOK(q, tk, dn)
  <2>1. CASE q.task = None
    BY <1>1, <2>1 DEF TaskOK
  <2>2. CASE q.task # None
    <3>1. q.task.id \in Tasks /\ AtTask(q, q.task.id)
      BY <1>1, <2>2 DEF ProcRecord, Task, AtTask
    <3>2. /\ tk[q.task.id] # None /\ tk[q.task.id].adds = q.task.adds
      BY <1>1, <2>2, <3>1 DEF TaskOK, Undisturbing
    <3>3. q.task.state # "canceled" =>
            /\ q.task.id \in dn <=> q.task.id \in done
            /\ tk[q.task.id].state \notin Answered
      BY <1>1, <2>2, <3>1 DEF TaskOK, Undisturbing, Mine
    <3> QED BY <1>1, <2>2, <3>2, <3>3 DEF TaskOK
  <2> QED BY <2>1, <2>2
<1> QED BY <1>1, <1>2, <1>3 DEF HandlerOK

\* One handler moves on to q.
LEMMA ProcStep ==
    ASSUME IInv, NEW h \in Handlers, NEW q, proc' = [proc EXCEPT ![h] = q],
           HandlerOK(q, codes', tasks', done'),
           \A g \in Handlers \ {h} : Undisturbing(proc[g], codes', tasks', done'),
           \A t \in Tasks : Mine(q, t) =>
              Mine(proc[h], t) \/ \A g \in Handlers \ {h} : ~Mine(proc[g], t)
    PROVE  ProcsOK'
<1>1. /\ proc' \in [Handlers -> ProcRecord]
      /\ \A g \in Handlers : proc'[g] = IF g = h THEN q ELSE proc[g]
  BY DEF IInv, ProcsOK, HandlerOK
<1>2. ASSUME NEW g \in Handlers PROVE HandlerOK(proc'[g], codes', tasks', done')
  <2>1. CASE g = h
    BY <1>1, <2>1
  <2>2. CASE g # h
    <3>1. HandlerOK(proc[g], codes, tasks, done)
      BY DEF IInv, ProcsOK
    <3> QED BY <1>1, <2>2, <3>1, ProcStable
  <2> QED BY <2>1, <2>2
<1>3. \A t \in Tasks : \A f, g \in Handlers : Mine(proc'[f], t) /\ Mine(proc'[g], t) => f = g
  BY <1>1 DEF IInv, ProcsOK
<1> QED BY <1>1, <1>2, <1>3 DEF ProcsOK

\* Nothing changes for the others.
LEMMA StillTrue ==
    ASSUME NEW q, UNCHANGED <<codes, tasks, done>> PROVE Undisturbing(q, codes', tasks', done')
BY DEF Undisturbing

\* A step that leaves the tables and Redis alone.
LEMMA QuietStep ==
    ASSUME IInv, NEW h \in Handlers, NEW q, proc' = [proc EXCEPT ![h] = q],
           UNCHANGED <<carts, cache, codes, tasks, push, done, uses>>,
           NEW D, disturbed' = D, disturbed \subseteq D, D \subseteq Users \cup Codes \cup Tasks,
           HandlerOK(q, codes, tasks, done),
           \A t \in Tasks : Mine(q, t) =>
              Mine(proc[h], t) \/ \A g \in Handlers \ {h} : ~Mine(proc[g], t),
           \A u \in Users \ D : CartSafe(h, q, u),
           \A d \in Codes \ D : CodeSafe(h, q, d),
           \A t \in Tasks \ D : TaskSafe(h, q, t, tasks)
    PROVE  IInv'
<1>1. ProcsOK'
  BY StillTrue, ProcStep
<1>2. CartsOK' /\ CodesOK' /\ TasksOK'
  BY DEF IInv, CartsOK, CodesOK, TasksOK
<1>3. ASSUME NEW u \in Users \ D PROVE CartCalm(u)'
  BY <1>3, CartKept
<1>4. ASSUME NEW d \in Codes \ D PROVE CodeCalm(d)'
  BY <1>4, CodeKept
<1>5. ASSUME NEW t \in Tasks \ D PROVE TaskCalm(t)'
  BY <1>5, TaskKept
<1> QED BY <1>1, <1>2, <1>3, <1>4, <1>5 DEF IInv

\* A step after which the handler has neither cart nor code in memory: the DEL
\* it owed is an owner disturbed.
LEMMA DropStep ==
    ASSUME IInv, NEW h \in Handlers, NEW q, proc' = [proc EXCEPT ![h] = q],
           UNCHANGED <<carts, cache, codes, tasks, push, done, uses>>,
           disturbed \subseteq disturbed', disturbed' \subseteq Users \cup Codes \cup Tasks,
           proc[h].pc = "del" => proc[h].cart.user \in disturbed',
           HandlerOK(q, codes, tasks, done), q.cart = None, q.code = None,
           \A t \in Tasks : AtTask(q, t) => AtTask(proc[h], t),
           \A t \in Tasks : Mine(q, t) => Mine(proc[h], t)
    PROVE  IInv'
<1>1. PICK D : D = disturbed'
  OBVIOUS
<1>2. ASSUME NEW u \in Users \ D PROVE CartSafe(h, q, u)
  BY <1>1, <1>2 DEF CartSafe, CartProc, AtCart
<1>3. ASSUME NEW d \in Codes \ D PROVE CodeSafe(h, q, d)
  BY <1>3 DEF CodeSafe, CodeProc, AtCode
<1>4. ASSUME NEW t \in Tasks \ D PROVE TaskSafe(h, q, t, tasks)
  <2>1. TaskCalm(t)
    BY <1>1, <1>4 DEF IInv
  <2> QED BY <1>4, <2>1 DEF TaskCalm, TaskSafe
<1> QED BY <1>1, <1>2, <1>3, <1>4, QuietStep

\* The handler is through.
LEMMA ReturnStep ==
    ASSUME IInv, NEW h \in Handlers, Return(h),
           UNCHANGED <<carts, cache, codes, tasks, push, done, uses>>,
           disturbed \subseteq disturbed', disturbed' \subseteq Users \cup Codes \cup Tasks,
           proc[h].pc = "del" => proc[h].cart.user \in disturbed'
    PROVE  IInv'
<1>1. PICK q : q = Idle
  OBVIOUS
<1>2. /\ proc' = [proc EXCEPT ![h] = q] /\ q.cart = None /\ q.code = None /\ q.task = None
      /\ HandlerOK(q, codes, tasks, done)
  BY <1>1, IdleOK DEF Return
<1> QED BY <1>2, DropStep DEF AtTask, Mine

\* What the answer makes of the task the handler works on.
AnswerOf(h, q, ok) ==
    /\ q.cart = None /\ q.code = None /\ q.new = FALSE /\ q \in ProcRecord
    /\ proc[h].task = None => q = Idle
    /\ proc[h].task # None =>
          /\ q.pc = "finish" /\ q.task \in Task
          /\ q.task.id = proc[h].task.id /\ q.task.adds = proc[h].task.adds
          /\ q.task.state = IF ok THEN "completed" ELSE "failed"

\* The answer of a skill that was at work.
LEMMA AnswerIs ==
    ASSUME IInv, NEW h \in Handlers, NEW ok \in BOOLEAN, Answer(h, ok),
           proc[h].pc # "finish"
    PROVE  \E q : proc' = [proc EXCEPT ![h] = q] /\ AnswerOf(h, q, ok)
<1>1. CASE proc[h].task = None
  <2>1. PICK q : q = Idle
    OBVIOUS
  <2>2. proc' = [proc EXCEPT ![h] = q] /\ AnswerOf(h, q, ok)
    BY <1>1, <2>1, IdleOK DEF Answer, Return, AnswerOf
  <2> QED BY <2>2
<1>2. CASE proc[h].task # None
  <2>1. PICK k : k = proc[h].task
    OBVIOUS
  <2>2. k \in Task /\ k # None /\ k.state = "working"
    BY <1>2, <2>1, Facts DEF ProcRecord, TaskOK
  <2>3. PICK f : f = Finished(k, ok)
    OBVIOUS
  <2>4. /\ f \in Task /\ f.id = k.id /\ f.adds = k.adds
        /\ f.state = IF ok THEN "completed" ELSE "failed"
    <3>1. CASE ok
      <4>1. f = [k EXCEPT !.artifact = TRUE, !.state = "completed"]
        BY <2>2, <2>3, <3>1 DEF Finished, Agent!Transition, Agent!AddArtifact, Agent!IsTerminal, Task
      <4> QED BY <2>2, <3>1, <4>1 DEF Task, Agent!TaskState
    <3>2. CASE ~ok
      <4>1. f = [k EXCEPT !.state = "failed"]
        BY <2>2, <2>3, <3>2 DEF Finished, Agent!Transition, Agent!IsTerminal
      <4> QED BY <2>2, <3>2, <4>1 DEF Task, Agent!TaskState
    <3> QED BY <3>1, <3>2
  <2>5. PICK q : q = [Idle EXCEPT !.pc = "finish", !.task = f]
    OBVIOUS
  <2>6. proc' = [proc EXCEPT ![h] = q]
    BY <1>2, <2>1, <2>3, <2>5 DEF Answer
  <2>7. /\ q \in ProcRecord /\ q.pc = "finish" /\ q.task = f /\ q.cart = None /\ q.code = None
        /\ q.new = FALSE
    BY <2>4, <2>5, IdleOK DEF ProcRecord
  <2> QED BY <1>2, <2>1, <2>4, <2>6, <2>7 DEF AnswerOf
<1> QED BY <1>1, <1>2

\* The answer keeps to what was done: for a task that adds an item, TRUE after
\* its save and FALSE before.
LEMMA AnswerOK ==
    ASSUME IInv, NEW h \in Handlers, NEW ok \in BOOLEAN, NEW q, AnswerOf(h, q, ok),
           proc[h].pc # "finish",
           proc[h].task # None /\ proc[h].task.adds => (ok <=> proc[h].pc = "del" /\ ~proc[h].new)
    PROVE  /\ HandlerOK(q, codes, tasks, done)
           /\ \A t : AtTask(q, t) => AtTask(proc[h], t)
           /\ \A t : Mine(q, t) => Mine(proc[h], t)
<1>1. CASE proc[h].task = None
  BY <1>1, IdleOK DEF AnswerOf, AtTask, Mine
<1>2. CASE proc[h].task # None
  <2>1. /\ TaskOK(proc[h], tasks, done) /\ proc[h].task.state = "working" /\ q.task # None
    BY <1>2, Facts, RowsAssumption DEF TaskOK, AnswerOf
  <2>2. q \in ProcRecord /\ PlaceOK(q) /\ CartOK(q) /\ CodeOK(q, codes)
    BY <1>2 DEF AnswerOf, PlaceOK, CartOK, CodeOK, CartPcs
  <2>3. TaskOK(q, tasks, done)
    BY <1>2, <2>1 DEF AnswerOf, TaskOK, CartPcs
  <2> QED BY <1>2, <2>1, <2>2, <2>3 DEF HandlerOK, AtTask, Mine, AnswerOf
<1> QED BY <1>1, <1>2

\* An answer before anything was saved.
LEMMA AnswerStep ==
    ASSUME IInv, NEW h \in Handlers, NEW ok \in BOOLEAN, Answer(h, ok),
           proc[h].pc \notin {"finish", "del"},
           proc[h].task # None /\ proc[h].task.adds => ~ok,
           UNCHANGED <<carts, cache, codes, tasks, push, done, uses, disturbed>>
    PROVE  IInv'
<1>1. PICK q : proc' = [proc EXCEPT ![h] = q] /\ AnswerOf(h, q, ok)
  BY AnswerIs
<1>2. /\ HandlerOK(q, codes, tasks, done)
      /\ \A t : AtTask(q, t) => AtTask(proc[h], t)
      /\ \A t : Mine(q, t) => Mine(proc[h], t)
  BY <1>1, AnswerOK
<1>3. q.cart = None /\ q.code = None
  BY <1>1 DEF AnswerOf
<1> QED BY <1>1, <1>2, <1>3, Facts, DropStep

-----------------------------------------------------------------------------
(* The actions *)

\* A save that fails ends the request, and with it the task.
LEMMA SaveFailsOK ==
    ASSUME IInv, NEW h \in Handlers, SaveFails(h) PROVE IInv'
BY AnswerStep DEF SaveFails

\* The server dies: a DEL it owed disturbs the user.
LEMMA CrashOK ==
    ASSUME IInv, NEW h \in Handlers, Crash(h) PROVE IInv'
<1>1. /\ Return(h) /\ UNCHANGED <<carts, cache, codes, tasks, push, done, uses>>
      /\ disturbed' = disturbed \cup (IF proc[h].pc = "del" THEN {proc[h].cart.user} ELSE {})
  BY DEF Crash
<1>2. proc[h].pc = "del" => proc[h].cart.user \in Users
  BY Facts DEF CartOK, ProcRecord, Cart
<1>3. disturbed \subseteq disturbed' /\ disturbed' \subseteq Users \cup Codes \cup Tasks
  BY <1>1, <1>2, Facts
<1>4. proc[h].pc = "del" => proc[h].cart.user \in disturbed'
  BY <1>1
<1> QED BY <1>1, <1>3, <1>4, ReturnStep

\* What a request is made of.
LEMMA RequestFields ==
    ASSUME NEW op \in CartOps \cup CodeOps \cup TaskOps,
           NEW keys, keys \subseteq Users \cup Codes \cup Tasks \cup PushConfigs,
           NEW args, args \subseteq {None} \cup Int \cup ItemArg \cup MessageArg \cup PushConfigs,
           NEW r \in Requests(op, keys, args)
    PROVE  r \in AllRequests /\ r.op = op /\ r.key \in keys /\ r.arg \in args
<1>1. PICK k \in keys, a \in args : r = [op |-> op, key |-> k, arg |-> a]
  BY DEF Requests, Request
<1> QED BY <1>1 DEF AllRequests

\* The ids a request may bring are ids of carts.
LEMMA IdsOK == NextID \subseteq Carts /\ ClientIds \subseteq Carts
<1>1. Fresh \subseteq Carts
  BY DEF Fresh
<1>2. NextID \subseteq Carts
  BY <1>1 DEF NextID
<1> QED BY <1>2 DEF ClientIds

\* What an item is made of.
LEMMA ItemFields ==
    ASSUME NEW c \in Carts \cup {None}, NEW p \in Products \cup {None}, NEW n \in Int
    PROVE  /\ Item(c, p, n) \in ItemArg
           /\ Item(c, p, n).cart = c /\ Item(c, p, n).product = p /\ Item(c, p, n).quantity = n
BY DEF Item, ItemArg

\* The items of a request are sound.
LEMMA ItemsOK ==
    ASSUME NEW ids, ids \subseteq Carts \cup {None}, NEW ps, ps \subseteq Products \cup {None}
    PROVE  \A i \in Items(ids, ps) : i \in ItemArg /\ i.cart \in ids /\ i.product \in ps
<1>1. ASSUME NEW i \in Items(ids, ps) PROVE i \in ItemArg /\ i.cart \in ids /\ i.product \in ps
  <2>1. PICK c \in ids, p \in ps, n \in Quantities : i = Item(c, p, n)
    BY DEF Items
  <2>2. n \in Int
    BY ShoppingAssumption
  <2> QED BY <2>1, <2>2, ItemFields
<1> QED BY <1>1

\* What the requests for carts ask.
LEMMA CartRequestsOK ==
    ASSUME NEW r \in CartRoutes \cup CartTools
    PROVE  /\ r \in AllRequests /\ r.op \in CartOps /\ r.key \in Users /\ r.arg \in ItemArg
           /\ r.op \in {"CreateOrGet", "AddItem"} => r.arg.cart \in Carts
           /\ r.op \in {"AddItem", "UpdateQuantity", "RemoveItem"} => r.arg.product \in Products
<1>0. /\ ClientIds \subseteq Carts /\ NextID \subseteq Carts
  BY IdsOK
<1>1. CASE r \in RestCreateOrGet
  <2>1. \A i \in Items(ClientIds, Products) \cup {Item(c, None, 0) : c \in ClientIds} :
           i \in ItemArg /\ i.cart \in Carts
    <3>1. \A i \in Items(ClientIds, Products) : i \in ItemArg /\ i.cart \in Carts
      BY <1>0, ItemsOK
    <3>2. \A i \in {Item(c, None, 0) : c \in ClientIds} : i \in ItemArg /\ i.cart \in Carts
      BY <1>0, ItemFields
    <3> QED BY <3>1, <3>2
  <2>2. PICK S : S = Items(ClientIds, Products) \cup {Item(c, None, 0) : c \in ClientIds}
    OBVIOUS
  <2>3. r \in Requests("CreateOrGet", Users, S) /\ \A i \in S : i \in ItemArg /\ i.cart \in Carts
    BY <1>1, <2>1, <2>2 DEF RestCreateOrGet
  <2>4. r \in AllRequests /\ r.op = "CreateOrGet" /\ r.key \in Users /\ r.arg \in S
    BY <2>3, RequestFields DEF CartOps
  <2> QED BY <2>3, <2>4 DEF CartOps
<1>2. CASE r \in RestAddItem \cup McpAddItem
  <2>1. PICK ids : ids \subseteq Carts /\ r \in Requests("AddItem", Users, Items(ids, Products))
    BY <1>0, <1>2 DEF RestAddItem, McpAddItem
  <2>2. PICK S : S = Items(ids, Products)
    OBVIOUS
  <2>3. \A i \in S : i \in ItemArg /\ i.cart \in Carts /\ i.product \in Products
    BY <2>1, <2>2, ItemsOK
  <2>4. r \in AllRequests /\ r.op = "AddItem" /\ r.key \in Users /\ r.arg \in S
    BY <2>1, <2>2, <2>3, RequestFields DEF CartOps
  <2> QED BY <2>3, <2>4 DEF CartOps
<1>3. CASE r \in RestUpdateQuantity
  <2>1. PICK S : S = Items({None}, Products)
    OBVIOUS
  <2>2. \A i \in S : i \in ItemArg /\ i.product \in Products
    BY <2>1, ItemsOK
  <2>3. r \in AllRequests /\ r.op = "UpdateQuantity" /\ r.key \in Users /\ r.arg \in S
    BY <1>3, <2>1, <2>2, RequestFields DEF CartOps, RestUpdateQuantity
  <2> QED BY <2>2, <2>3 DEF CartOps
<1>4. CASE r \in RestRemoveItem
  <2>1. PICK S : S = {Item(None, p, 0) : p \in Products}
    OBVIOUS
  <2>2. \A i \in S : i \in ItemArg /\ i.product \in Products
    BY <2>1, ItemFields
  <2>3. r \in AllRequests /\ r.op = "RemoveItem" /\ r.key \in Users /\ r.arg \in S
    BY <1>4, <2>1, <2>2, RequestFields DEF CartOps, RestRemoveItem
  <2> QED BY <2>2, <2>3 DEF CartOps
<1>5. CASE r \in RestGetCart \cup RestClearCart
  <2>1. PICK S : S = {Item(None, None, 0)}
    OBVIOUS
  <2>2. \A i \in S : i \in ItemArg
    BY <2>1, ItemFields
  <2>3. r \in AllRequests /\ r.op \in {"GetCart", "ClearCart"} /\ r.key \in Users /\ r.arg \in S
    BY <1>5, <2>1, <2>2, RequestFields DEF CartOps, RestGetCart, RestClearCart
  <2> QED BY <2>2, <2>3 DEF CartOps
<1> QED BY <1>1, <1>2, <1>3, <1>4, <1>5 DEF CartRoutes, CartTools, McpGetCart, McpUpdateQuantity,
       McpRemoveItem, McpClearCart

\* What the requests for codes ask.
LEMMA CodeRequestsOK ==
    ASSUME NEW r \in DiscountRoutes \cup DiscountTools
    PROVE  /\ r \in AllRequests /\ r.op \in CodeOps /\ r.key \in Codes
           /\ r.op = "CreateCode" => r.arg \in Nat
<1>1. CASE r \in RestCreate
  <2>1. Limits \subseteq Nat /\ Limits \subseteq Int
    BY ShoppingAssumption
  <2>2. r \in AllRequests /\ r.op = "CreateCode" /\ r.key \in Codes /\ r.arg \in Limits
    BY <1>1, <2>1, RequestFields DEF CodeOps, RestCreate
  <2> QED BY <2>1, <2>2 DEF CodeOps
<1>2. CASE r \in RestValidate \cup RestApply \cup RestDeactivate
  <2>1. {0} \subseteq Int
    OBVIOUS
  <2>2. /\ r \in AllRequests /\ r.key \in Codes
        /\ r.op \in {"ValidateCode", "ApplyCode", "DeactivateCode"}
    <3>1. PICK op \in {"ValidateCode", "ApplyCode", "DeactivateCode"} : r \in Requests(op, Codes, {0})
      BY <1>2 DEF RestValidate, RestApply, RestDeactivate
    <3> QED BY <2>1, <3>1, RequestFields DEF CodeOps
  <2> QED BY <2>2 DEF CodeOps
<1> QED BY <1>1, <1>2 DEF DiscountRoutes, DiscountTools, McpCreateCode, McpValidateCode, McpApplyCode,
       McpDeactivateCode

\* What an agent asks.
LEMMA TaskRequestsOK ==
    ASSUME NEW r \in ServeJSONRPC
    PROVE  /\ r \in AllRequests /\ r.op \in TaskOps /\ ReqOK(r)
<1>1. CASE r \in handleSendMessage
  <2>1. ASSUME NEW m \in Messages
        PROVE  m \in MessageArg /\ (m.skill # "cart" => m.product = None)
    <3>1. CASE m \in {[skill |-> "cart", product |-> p, quantity |-> q] :
                        p \in Products \cup {None}, q \in Quantities}
      BY <3>1, ShoppingAssumption DEF MessageArg
    <3>2. CASE m \in {[skill |-> s, product |-> None, quantity |-> 0] : s \in {"other", "unknown"}}
      BY <3>2 DEF MessageArg
    <3> QED BY <3>1, <3>2 DEF Messages
  <2>2. PICK S : S = {m \in Messages : NewTasks # {}}
    OBVIOUS
  <2>3. \A m \in S : m \in MessageArg /\ (m.skill # "cart" => m.product = None)
    BY <2>1, <2>2
  <2>4. r \in AllRequests /\ r.op = "SendMessage" /\ r.key \in Users /\ r.arg \in S
    BY <1>1, <2>2, <2>3, RequestFields DEF TaskOps, handleSendMessage
  <2> QED BY <2>3, <2>4 DEF ReqOK, TaskOps, CartOps, CodeOps
<1>2. CASE r \in handleCancelTask \cup handleDeletePushConfig
  <2>1. {0} \subseteq Int
    OBVIOUS
  <2>2. /\ r \in AllRequests
        /\ \/ r.op = "CancelTask" /\ r.key \in Tasks
           \/ r.op = "DeletePushConfig" /\ r.key \in PushConfigs
    BY <1>2, <2>1, RequestFields DEF TaskOps, handleCancelTask, handleDeletePushConfig
  <2> QED BY <2>2 DEF ReqOK, TaskOps, CartOps, CodeOps
<1>3. CASE r \in handleCreatePushConfig
  <2>1. r \in AllRequests /\ r.op = "CreatePushConfig" /\ r.key \in Tasks /\ r.arg \in PushConfigs
    BY <1>3, RequestFields DEF TaskOps, handleCreatePushConfig
  <2> QED BY <2>1 DEF ReqOK, TaskOps, CartOps, CodeOps
<1> QED BY <1>1, <1>2, <1>3 DEF ServeJSONRPC

\* Where requests start.
Starts(r, e) ==
    \/ r.op \in CartOps /\ e = "find"
    \/ r.op = "CreateCode" /\ e = "insert"
    \/ r.op \in {"ValidateCode", "ApplyCode", "DeactivateCode"} /\ e = "lookup"
    \/ r.op = "SendMessage" /\ e = "submit"
    \/ r.op = "CancelTask" /\ e = "cancel"
    \/ r.op = "CreatePushConfig" /\ e = "pushfind"
    \/ r.op = "DeletePushConfig" /\ e = "pushdelete"

\* Every request starts at its handler's first step.
LEMMA Entries ==
    ASSUME NEW r, r.op \in CartOps \cup CodeOps \cup TaskOps PROVE Starts(r, Entry(r.op))
<1>1. CASE r.op \in CartOps
  BY <1>1 DEF Entry, Starts, CartOps
<1>2. CASE r.op \in CodeOps
  BY <1>2 DEF Entry, Starts, CodeOps
<1>3. CASE r.op \in TaskOps
  BY <1>3 DEF Entry, Starts, TaskOps
<1> QED BY <1>1, <1>2, <1>3

\* A request arrives.
LEMMA ArriveOK ==
    ASSUME IInv, NEW h \in Handlers, Arrive(h) PROVE IInv'
<1>1. PICK r \in CartRoutes \cup CartTools \cup DiscountRoutes \cup DiscountTools \cup ServeJSONRPC :
          proc' = [proc EXCEPT ![h] = [Idle EXCEPT !.pc = Entry(r.op), !.req = r, !.id = CartId(r)]]
  BY DEF Arrive
<1>2. /\ UNCHANGED <<carts, cache, codes, tasks, push, done, uses, disturbed>>
      /\ proc[h].pc = "idle"
  BY DEF Arrive
<1>3. PICK e, i : e = Entry(r.op) /\ i = CartId(r)
  OBVIOUS
<1>4. /\ r \in AllRequests /\ ReqOK(r) /\ Starts(r, e)
      /\ i \in Carts \cup {None} /\ (r.op \in {"CreateOrGet", "AddItem"} => i \in Carts)
  <2>1. CASE r \in CartRoutes \cup CartTools
    <3>1. r.op \in CartOps /\ ReqOK(r) /\ r \in AllRequests
      BY <2>1, CartRequestsOK DEF ReqOK, CartOps, CodeOps
    <3>2. i \in Carts \cup {None} /\ (r.op \in {"CreateOrGet", "AddItem"} => i \in Carts)
      BY <1>3, <2>1, CartRequestsOK DEF CartId
    <3> QED BY <1>3, <3>1, <3>2, Entries
  <2>2. CASE r \in DiscountRoutes \cup DiscountTools
    <3>1. r.op \in CodeOps /\ ReqOK(r) /\ r \in AllRequests
      BY <2>2, CodeRequestsOK DEF ReqOK, CartOps, CodeOps
    <3>2. i = None /\ r.op \notin {"CreateOrGet", "AddItem"}
      BY <1>3, <3>1 DEF CartId, CodeOps
    <3> QED BY <1>3, <3>1, <3>2, Entries
  <2>3. CASE r \in ServeJSONRPC
    <3>1. r.op \in TaskOps /\ ReqOK(r) /\ r \in AllRequests
      BY <2>3, TaskRequestsOK
    <3>2. i = None /\ r.op \notin {"CreateOrGet", "AddItem"}
      BY <1>3, <3>1 DEF CartId, TaskOps
    <3> QED BY <1>3, <3>1, <3>2, Entries
  <2> QED BY <2>1, <2>2, <2>3
<1>5. PICK q : q = [Idle EXCEPT !.pc = e, !.req = r, !.id = i]
  OBVIOUS
<1>6. /\ proc' = [proc EXCEPT ![h] = q] /\ q \in ProcRecord /\ q.pc = e /\ q.req = r /\ q.id = i
      /\ q.cart = None /\ q.code = None /\ q.task = None /\ q.new = FALSE
  <2>1. e \in CartPcs \cup {"insert", "lookup", "submit", "cancel", "pushfind", "pushdelete"}
    BY <1>4 DEF Starts, CartPcs
  <2> QED BY <1>1, <1>3, <1>4, <1>5, <2>1, IdleOK DEF ProcRecord
<1>7. HandlerOK(q, codes, tasks, done)
  <2>1. PlaceOK(q)
    BY <1>4, <1>6 DEF PlaceOK, Starts, CartPcs
  <2>2. CartOK(q) /\ CodeOK(q, codes) /\ TaskOK(q, tasks, done)
    BY <1>4, <1>6 DEF CartOK, CodeOK, TaskOK, Starts
  <2> QED BY <1>6, <2>1, <2>2 DEF HandlerOK
<1> QED BY <1>2, <1>6, <1>7, Facts, DropStep DEF AtTask, Mine

\* A request for a cart goes on and the task it runs for stays as it is.
Onward(h, q) ==
    /\ q \in ProcRecord /\ q.pc \in CartPcs /\ q.req = proc[h].req /\ q.id = proc[h].id
    /\ q.code = None /\ q.task = proc[h].task

\* The task stays what it was.
LEMMA SameTask ==
    ASSUME IInv, NEW h \in Handlers, NEW q, proc[h].pc \in CartPcs, q.pc \in CartPcs,
           q.req = proc[h].req, q.task = proc[h].task,
           q.task # None => (q.task.id \in done <=> q.pc = "del" /\ ~q.new)
    PROVE  /\ TaskOK(q, tasks, done)
           /\ \A t : AtTask(q, t) <=> AtTask(proc[h], t)
           /\ \A t : Mine(q, t) <=> Mine(proc[h], t)
           /\ \A t \in Tasks \ disturbed : TaskSafe(h, q, t, tasks)
<1>1. TaskOK(proc[h], tasks, done)
  BY Facts
<1>2. TaskOK(q, tasks, done)
  BY <1>1 DEF TaskOK, CartPcs
<1>3. /\ \A t : AtTask(q, t) <=> AtTask(proc[h], t)
      /\ \A t : Mine(q, t) <=> Mine(proc[h], t)
  BY DEF AtTask, Mine
<1>4. ASSUME NEW t \in Tasks \ disturbed PROVE TaskSafe(h, q, t, tasks)
  <2>1. TaskCalm(t)
    BY <1>4 DEF IInv
  <2> QED BY <1>3, <1>4, <2>1 DEF TaskCalm, TaskSafe
<1> QED BY <1>2, <1>3, <1>4

\* A cart is found in Redis or in the table, or a new one made: h goes on with
\* the copy c.
LEMMA FoundOK ==
    ASSUME IInv, NEW h \in Handlers, proc[h].pc = "find", NEW u \in Users, u = proc[h].req.key,
           NEW c \in Cart, c.user = u,
           NEW q, proc' = [proc EXCEPT ![h] = q], Onward(h, q), q.cart = c,
           \/ q.pc = "apply" /\ q.new = FALSE /\ c = cache[u]
           \/ q.pc = "fill" /\ q.new = FALSE /\ c = carts[c.id]
           \/ /\ q.pc = "save" /\ q.new /\ RowsOf(u) = {} /\ c.items = Basket!Empty
              /\ q.req.op \in {"CreateOrGet", "AddItem"},
           disturbed' = disturbed \cup Crowded(h, u),
           UNCHANGED <<carts, cache, codes, tasks, push, done, uses>>
    PROVE  IInv'
<1>1. /\ proc[h].cart = None /\ proc[h].code = None /\ proc[h].new = FALSE /\ c # None
      /\ proc[h].req.op \in CartOps /\ ReqOK(proc[h].req) /\ proc[h].pc \in CartPcs
      /\ proc[h].req.op \in {"CreateOrGet", "AddItem"} => proc[h].id \in Carts
  BY Facts, RowsAssumption DEF PlaceOK, CartOK, CodeOK, CartPcs, ProcRecord
<1>2. /\ TaskOK(q, tasks, done)
      /\ \A t : Mine(q, t) <=> Mine(proc[h], t)
      /\ \A t \in Tasks \ disturbed : TaskSafe(h, q, t, tasks)
  <2>1. TaskOK(proc[h], tasks, done)
    BY Facts
  <2>2. q.task # None => (q.task.id \in done <=> q.pc = "del" /\ ~q.new)
    BY <2>1 DEF TaskOK, Onward
  <2>3. q.pc \in CartPcs /\ q.req = proc[h].req /\ q.task = proc[h].task
    BY DEF Onward
  <2> QED BY <1>1, <2>2, <2>3, SameTask
<1>3. HandlerOK(q, codes, tasks, done)
  <2>1. PlaceOK(q)
    BY <1>1 DEF PlaceOK, Onward, CartPcs
  <2>2. CartOK(q)
    BY <1>1 DEF CartOK, Onward
  <2>3. CodeOK(q, codes)
    BY DEF CodeOK, Onward
  <2> QED BY <1>2, <2>1, <2>2, <2>3 DEF HandlerOK, Onward
<1>4. PICK D : D = disturbed \cup Crowded(h, u)
  OBVIOUS
<1>5. ASSUME NEW v \in Users \ D PROVE CartSafe(h, q, v)
  <2>1. CASE v = u
    <3>1. \A g \in Handlers \ {h} : ~AtCart(proc[g], u)
      BY <1>4, <1>5, <2>1 DEF Crowded, Held, AtCart
    <3>2. CartCalm(u) /\ \A g \in Handlers : ~AtCart(proc[g], u)
      BY <1>1, <1>4, <1>5, <2>1, <3>1 DEF IInv, AtCart
    <3>3. q.pc \in {"apply", "fill"} => carts[c.id] = c
      BY <1>1, <3>2 DEF CartCalm
    <3>4. q.pc = "save" => \A b \in Carts : carts[b] = None \/ carts[b].user # u
      BY DEF RowsOf
    <3>5. CartProc(q, u, carts)
      BY <3>3, <3>4 DEF CartProc
    <3> QED BY <1>1, <2>1, <3>1, <3>5 DEF CartSafe, AtCart
  <2>2. CASE v # u
    BY <1>1, <2>2 DEF CartSafe, CartProc, AtCart
  <2> QED BY <2>1, <2>2
<1>6. ASSUME NEW d \in Codes \ D PROVE CodeSafe(h, q, d)
  BY DEF CodeSafe, CodeProc, AtCode, Onward
<1>7. disturbed \subseteq D /\ D \subseteq Users \cup Codes \cup Tasks
  BY <1>4, Facts DEF Crowded
<1>8. \A t \in Tasks \ D : TaskSafe(h, q, t, tasks)
  BY <1>2, <1>7
<1> QED BY <1>2, <1>3, <1>4, <1>5, <1>6, <1>7, <1>8, QuietStep

\* FindByUserID.
LEMMA FindOK ==
    ASSUME IInv, NEW h \in Handlers, Find(h) PROVE IInv'
<1>1. /\ proc[h].pc = "find" /\ UNCHANGED <<carts, cache, codes, tasks, push, done, uses>>
  BY DEF Find
<1>2. PICK u : u = proc[h].req.key
  OBVIOUS
<1>3. /\ u \in Users /\ proc[h].req.op \in CartOps /\ proc[h].new = FALSE /\ proc[h].code = None
      /\ proc[h].req.op \in {"CreateOrGet", "AddItem"} => proc[h].id \in Carts
  BY <1>1, <1>2, Facts DEF PlaceOK, CartOK, CodeOK, ReqOK, CartPcs, ProcRecord
<1>4. CASE /\ cache[u] # None
           /\ proc' = [proc EXCEPT ![h].pc = "apply", ![h].cart = cache[u]]
           /\ disturbed' = disturbed \cup Crowded(h, u)
  <2>1. PICK c : c = cache[u]
    OBVIOUS
  <2>2. c \in Cart /\ c.user = u
    BY <1>3, <1>4, <2>1 DEF IInv, CartsOK
  <2>3. PICK q : q = [proc[h] EXCEPT !.pc = "apply", !.cart = c]
    OBVIOUS
  <2>4. /\ proc' = [proc EXCEPT ![h] = q] /\ q.pc = "apply" /\ q.cart = c /\ q.new = FALSE
    BY <1>3, <1>4, <2>1, <2>3, Facts DEF ProcRecord
  <2>5. Onward(h, q)
    BY <1>3, <2>2, <2>3, Facts DEF ProcRecord, Onward, CartPcs
  <2> QED BY <1>1, <1>2, <1>3, <1>4, <2>1, <2>2, <2>4, <2>5, FoundOK
<1>5. ASSUME NEW b \in RowsOf(u),
             proc' = [proc EXCEPT ![h].pc = "fill", ![h].cart = carts[b]],
             disturbed' = disturbed \cup Crowded(h, u)
      PROVE  IInv'
  <2>1. PICK c : c = carts[b]
    OBVIOUS
  <2>2. c \in Cart /\ c.user = u /\ c = carts[c.id]
    BY <1>5, <2>1 DEF IInv, CartsOK, RowsOf
  <2>3. PICK q : q = [proc[h] EXCEPT !.pc = "fill", !.cart = c]
    OBVIOUS
  <2>4. /\ proc' = [proc EXCEPT ![h] = q] /\ q.pc = "fill" /\ q.cart = c /\ q.new = FALSE
    BY <1>3, <1>5, <2>1, <2>3, Facts DEF ProcRecord
  <2>5. Onward(h, q)
    BY <1>3, <2>2, <2>3, Facts DEF ProcRecord, Onward, CartPcs
  <2> QED BY <1>1, <1>2, <1>3, <1>5, <2>1, <2>2, <2>4, <2>5, FoundOK
<1>6. CASE /\ RowsOf(u) = {} /\ proc[h].req.op \in {"CreateOrGet", "AddItem"}
           /\ proc' = [proc EXCEPT ![h].pc = "save", ![h].new = TRUE,
                                   ![h].cart = Basket!NewCart(proc[h].id, u)]
           /\ disturbed' = disturbed \cup Crowded(h, u)
  <2>1. PICK c : c = Basket!NewCart(proc[h].id, u)
    OBVIOUS
  <2>2. c \in Cart /\ c.user = u /\ c.items = Basket!Empty
    BY <1>3, <1>6, <2>1 DEF Basket!NewCart, Basket!Empty, Cart
  <2>3. PICK q : q = [proc[h] EXCEPT !.pc = "save", !.new = TRUE, !.cart = c]
    OBVIOUS
  <2>4. /\ proc' = [proc EXCEPT ![h] = q] /\ q.pc = "save" /\ q.cart = c /\ q.new = TRUE
        /\ q.req = proc[h].req
    BY <1>3, <1>6, <2>1, <2>3, Facts DEF ProcRecord
  <2>5. Onward(h, q)
    BY <1>3, <2>2, <2>3, Facts DEF ProcRecord, Onward, CartPcs
  <2> QED BY <1>1, <1>2, <1>3, <1>6, <2>2, <2>4, <2>5, FoundOK
<1>7. CASE Answer(h, FALSE) /\ UNCHANGED disturbed
  BY <1>1, <1>7, AnswerStep
<1> QED BY <1>2, <1>4, <1>5, <1>6, <1>7 DEF Find

\* A user nobody disturbs stays calm when h moves on to q and Redis loses the
\* copy or gets the row.
LEMMA CacheKept ==
    ASSUME IInv, NEW u \in Users \ disturbed, NEW h \in Handlers, NEW q,
           proc' = [proc EXCEPT ![h] = q], UNCHANGED carts,
           CartProc(q, u, carts), AtCart(q, u) => AtCart(proc[h], u),
           cache'[u] # None =>
              \/ carts[cache'[u].id] = cache'[u]
              \/ cache'[u] = cache[u] /\ (AtCart(proc[h], u) => proc[h].pc # "del")
    PROVE  CartCalm(u)'
<1>1. \A g \in Handlers : proc'[g] = IF g = h THEN q ELSE proc[g]
  BY DEF IInv, ProcsOK
<1>2. CartCalm(u)
  BY DEF IInv
<1>3. \A f, g \in Handlers : AtCart(proc'[f], u) /\ AtCart(proc'[g], u) => f = g
  BY <1>1, <1>2 DEF CartCalm
<1>4. \A g \in Handlers : CartProc(proc'[g], u, carts)
  BY <1>1, <1>2 DEF CartCalm
<1>5. cache'[u] # None => \/ carts[cache'[u].id] = cache'[u]
                          \/ \E g \in Handlers : AtCart(proc'[g], u) /\ proc'[g].pc = "del"
  <2>1. ASSUME NEW g \in Handlers, AtCart(proc[g], u), proc[g].pc = "del",
               AtCart(proc[h], u) => proc[h].pc # "del"
        PROVE  \E f \in Handlers : AtCart(proc'[f], u) /\ proc'[f].pc = "del"
    BY <1>1, <2>1
  <2> QED BY <1>2, <2>1 DEF CartCalm
<1> QED BY <1>3, <1>4, <1>5 DEF CartCalm

\* A step that leaves the tables alone and changes Redis for the user of the
\* cart in memory.
LEMMA CacheStep ==
    ASSUME IInv, NEW h \in Handlers, NEW q, proc' = [proc EXCEPT ![h] = q],
           UNCHANGED <<carts, codes, tasks, push, done, uses>>,
           proc[h].pc \in {"fill", "del"}, NEW u \in Users, u = proc[h].cart.user,
           cache' \in [Users -> Cart \cup {None}],
           \A v \in Users \ {u} : cache'[v] = cache[v],
           cache'[u] # None => cache'[u].user = u,
           disturbed \subseteq disturbed', disturbed' \subseteq Users \cup Codes \cup Tasks,
           u \notin disturbed' => /\ CartProc(q, u, carts)
                                  /\ cache'[u] # None =>
                                        \/ carts[cache'[u].id] = cache'[u]
                                        \/ cache'[u] = cache[u] /\ proc[h].pc = "fill",
           HandlerOK(q, codes, tasks, done), q.cart # None => q.cart.user = u, q.code = None,
           \A t \in Tasks : AtTask(q, t) => AtTask(proc[h], t),
           \A t \in Tasks : Mine(q, t) => Mine(proc[h], t)
    PROVE  IInv'
<1>1. PICK D : D = disturbed'
  OBVIOUS
<1>2. ProcsOK'
  BY StillTrue, ProcStep
<1>3. CartsOK' /\ CodesOK' /\ TasksOK'
  BY DEF IInv, CartsOK, CodesOK, TasksOK
<1>4. proc[h].cart # None
  BY Facts DEF CartOK
<1>5. ASSUME NEW v \in Users \ D PROVE CartCalm(v)'
  <2>1. CASE v = u
    <3>1. AtCart(q, v) => AtCart(proc[h], v)
      BY <1>4, <2>1 DEF AtCart
    <3>2. v \in Users \ disturbed
      BY <1>1, <1>5
    <3>3. CartProc(q, v, carts) /\ (cache'[v] # None =>
              \/ carts[cache'[v].id] = cache'[v]
              \/ cache'[v] = cache[v] /\ (AtCart(proc[h], v) => proc[h].pc # "del"))
      BY <1>1, <1>5, <2>1
    <3> QED BY <3>1, <3>2, <3>3, CacheKept
  <2>2. CASE v # u
    <3>1. ~AtCart(q, v) /\ ~AtCart(proc[h], v) /\ cache'[v] = cache[v] /\ v \in Users \ disturbed
      BY <1>1, <1>4, <1>5, <2>2 DEF AtCart
    <3>2. CartProc(q, v, carts)
      BY <3>1 DEF CartProc
    <3> QED BY <3>1, <3>2, CacheKept
  <2> QED BY <2>1, <2>2
<1>6. ASSUME NEW d \in Codes \ D PROVE CodeCalm(d)'
  <2>1. CodeSafe(h, q, d) /\ d \in Codes \ disturbed
    BY <1>1, <1>6 DEF CodeSafe, CodeProc, AtCode
  <2> QED BY <2>1, CodeKept
<1>7. ASSUME NEW t \in Tasks \ D PROVE TaskCalm(t)'
  <2>1. TaskCalm(t) /\ t \in Tasks \ disturbed
    BY <1>1, <1>7 DEF IInv
  <2>2. TaskSafe(h, q, t, tasks')
    BY <1>7, <2>1 DEF TaskCalm, TaskSafe
  <2> QED BY <2>1, <2>2, TaskKept
<1> QED BY <1>1, <1>2, <1>3, <1>5, <1>6, <1>7 DEF IInv

\* The copy goes to Redis, or does not get there.
LEMMA writeCacheOK ==
    ASSUME IInv, NEW h \in Handlers, writeCache(h) PROVE IInv'
<1>1. /\ proc[h].pc = "fill" /\ UNCHANGED <<carts, codes, tasks, push, done, uses, disturbed>>
      /\ cache' \in {cache, [cache EXCEPT ![proc[h].req.key] = proc[h].cart]}
      /\ Goto(h, "apply")
  BY DEF writeCache
<1>2. PICK u, c : u = proc[h].req.key /\ c = proc[h].cart
  OBVIOUS
<1>3. /\ u \in Users /\ c \in Cart /\ c # None /\ c.user = u /\ proc[h].new = FALSE
      /\ proc[h].code = None
  BY <1>1, <1>2, Facts DEF PlaceOK, CartOK, CodeOK, CartPcs, ReqOK, ProcRecord
<1>4. PICK q : q = [proc[h] EXCEPT !.pc = "apply"]
  OBVIOUS
<1>5. /\ proc' = [proc EXCEPT ![h] = q] /\ q \in ProcRecord /\ q.pc = "apply"
      /\ q.req = proc[h].req /\ q.id = proc[h].id /\ q.new = proc[h].new /\ q.cart = c
      /\ q.code = None /\ q.task = proc[h].task
  BY <1>1, <1>2, <1>3, <1>4, Facts DEF ProcRecord, Goto, CartPcs
<1>6. TaskOK(q, tasks, done) /\ (\A t : AtTask(q, t) <=> AtTask(proc[h], t))
      /\ (\A t : Mine(q, t) <=> Mine(proc[h], t))
  <2>1. TaskOK(proc[h], tasks, done)
    BY Facts
  <2>2. q.task # None => (q.task.id \in done <=> q.pc = "del" /\ ~q.new)
    BY <1>1, <1>5, <2>1 DEF TaskOK
  <2> QED BY <1>1, <1>5, <2>2, SameTask DEF CartPcs
<1>7. HandlerOK(q, codes, tasks, done)
  <2>1. PlaceOK(q)
    BY <1>1, <1>5, Facts DEF PlaceOK, CartPcs
  <2>2. CartOK(q) /\ CodeOK(q, codes)
    BY <1>1, <1>2, <1>3, <1>5, Facts DEF CartOK, CodeOK
  <2> QED BY <1>5, <1>6, <2>1, <2>2 DEF HandlerOK
<1>8. /\ cache' \in [Users -> Cart \cup {None}]
      /\ \A v \in Users \ {u} : cache'[v] = cache[v]
      /\ cache'[u] \in {cache[u], c}
  BY <1>1, <1>2, <1>3 DEF IInv, CartsOK
<1>9. cache'[u] # None => cache'[u].user = u
  BY <1>3, <1>8 DEF IInv, CartsOK
<1>10. u \notin disturbed' => /\ CartProc(q, u, carts)
                              /\ cache'[u] # None =>
                                    \/ carts[cache'[u].id] = cache'[u]
                                    \/ cache'[u] = cache[u] /\ proc[h].pc = "fill"
  <2>1. ASSUME u \notin disturbed' PROVE carts[c.id] = c
    <3>1. CartProc(proc[h], u, carts)
      BY <1>1, <1>3, <2>1 DEF IInv, CartCalm
    <3> QED BY <1>1, <1>2, <1>3, <3>1 DEF CartProc, AtCart
  <2> QED BY <1>1, <1>5, <1>8, <2>1 DEF CartProc
<1>11. disturbed \subseteq disturbed' /\ disturbed' \subseteq Users \cup Codes \cup Tasks
  BY <1>1, Facts
<1>12. u = proc[h].cart.user
  BY <1>2, <1>3
<1>13. q.cart # None => q.cart.user = u
  BY <1>3, <1>5
<1> QED BY <1>1, <1>3, <1>5, <1>6, <1>7, <1>8, <1>9, <1>10, <1>11, <1>12, <1>13, CacheStep

\* Save is back and the copy in Redis deleted, or left there for good.
LEMMA invalidateCacheOK ==
    ASSUME IInv, NEW h \in Handlers, invalidateCache(h) PROVE IInv'
<1>1. /\ proc[h].pc = "del" /\ UNCHANGED <<carts, codes, tasks, push, done, uses>>
      /\ Saved(h)
      /\ \/ cache' = [cache EXCEPT ![proc[h].cart.user] = None] /\ UNCHANGED disturbed
         \/ UNCHANGED cache /\ disturbed' = disturbed \cup {proc[h].cart.user}
  BY DEF invalidateCache
<1>2. PICK c, u : c = proc[h].cart /\ u = c.user
  OBVIOUS
<1>3. /\ c \in Cart /\ c # None /\ u \in Users /\ u = proc[h].req.key /\ proc[h].code = None
      /\ proc[h].new => proc[h].req.op \in {"CreateOrGet", "AddItem"}
  BY <1>1, <1>2, Facts DEF CartOK, CodeOK, ProcRecord, Cart
<1>4. /\ cache' \in [Users -> Cart \cup {None}]
      /\ \A v \in Users \ {u} : cache'[v] = cache[v]
      /\ cache'[u] # None => cache'[u].user = u
      /\ u \notin disturbed' => cache'[u] = None
      /\ disturbed \subseteq disturbed' /\ disturbed' \subseteq Users \cup Codes \cup Tasks
  BY <1>1, <1>2, <1>3, Facts DEF IInv, CartsOK
<1>5. CASE proc[h].new
  <2>1. PICK q : q = [proc[h] EXCEPT !.pc = "apply", !.new = FALSE]
    OBVIOUS
  <2>2. /\ proc' = [proc EXCEPT ![h] = q] /\ q \in ProcRecord /\ q.pc = "apply"
        /\ q.req = proc[h].req /\ q.id = proc[h].id /\ q.new = FALSE /\ q.cart = c
        /\ q.code = None /\ q.task = proc[h].task
    BY <1>1, <1>2, <1>3, <1>5, <2>1, Facts DEF ProcRecord, Saved, CartPcs
  <2>3. TaskOK(q, tasks, done) /\ (\A t : AtTask(q, t) <=> AtTask(proc[h], t))
        /\ (\A t : Mine(q, t) <=> Mine(proc[h], t))
    <3>1. TaskOK(proc[h], tasks, done)
      BY Facts
    <3>2. q.task # None => (q.task.id \in done <=> q.pc = "del" /\ ~q.new)
      BY <1>1, <1>5, <2>2, <3>1 DEF TaskOK
    <3> QED BY <1>1, <2>2, <3>2, SameTask DEF CartPcs
  <2>4. HandlerOK(q, codes, tasks, done)
    <3>1. PlaceOK(q)
      BY <1>1, <2>2, Facts DEF PlaceOK, CartPcs
    <3>2. CartOK(q) /\ CodeOK(q, codes)
      BY <1>1, <1>2, <1>3, <2>2, Facts DEF CartOK, CodeOK
    <3> QED BY <2>2, <2>3, <3>1, <3>2 DEF HandlerOK
  <2>5. u \notin disturbed' => CartProc(q, u, carts)
    <3>1. ASSUME u \notin disturbed' PROVE carts[c.id] = c
      <4>1. CartProc(proc[h], u, carts)
        BY <1>3, <1>4, <3>1 DEF IInv, CartCalm
      <4> QED BY <1>1, <1>2, <1>3, <4>1 DEF CartProc, AtCart
    <3> QED BY <2>2, <3>1 DEF CartProc
  <2> QED BY <1>1, <1>2, <1>3, <1>4, <2>2, <2>3, <2>4, <2>5, CacheStep
<1>6. CASE ~proc[h].new
  <2>1. PICK q : proc' = [proc EXCEPT ![h] = q] /\ AnswerOf(h, q, TRUE)
    BY <1>1, <1>6, AnswerIs DEF Saved
  <2>2. /\ HandlerOK(q, codes, tasks, done)
        /\ \A t : AtTask(q, t) => AtTask(proc[h], t)
        /\ \A t : Mine(q, t) => Mine(proc[h], t)
    BY <1>1, <1>6, <2>1, AnswerOK
  <2>3. q.cart = None /\ q.code = None
    BY <2>1 DEF AnswerOf
  <2>4. CartProc(q, u, carts)
    BY <2>3 DEF CartProc, AtCart
  <2> QED BY <1>1, <1>2, <1>3, <1>4, <2>1, <2>2, <2>3, <2>4, CacheStep
<1> QED BY <1>5, <1>6

\* A cart with other items.
LEMMA NewItems ==
    ASSUME NEW cart \in Cart, NEW p \in Products, NEW m \in Nat
    PROVE  LET c == [cart EXCEPT !.items[p] = m]
           IN  /\ c \in Cart /\ c.id = cart.id /\ c.user = cart.user
               /\ c.items = [cart.items EXCEPT ![p] = m]
<1>1. PICK i : i = [cart.items EXCEPT ![p] = m]
  OBVIOUS
<1>2. i \in [Products -> Nat]
  BY <1>1 DEF Cart
<1>3. LET c == [cart EXCEPT !.items = i]
      IN  c \in Cart /\ c.id = cart.id /\ c.user = cart.user /\ c.items = i
  BY <1>2 DEF Cart
<1> QED BY <1>1, <1>3

\* What the methods of a cart make of it.
LEMMA RemoveItemOK ==
    ASSUME NEW cart \in Cart, NEW p \in Products,
           NEW c, c = Basket!RemoveItem(cart, p), c # None
    PROVE  /\ c \in Cart /\ c.id = cart.id /\ c.user = cart.user
           /\ c.items = [cart.items EXCEPT ![p] = 0]
<1>1. c = [cart EXCEPT !.items[p] = 0]
  BY DEF Basket!RemoveItem
<1> QED BY <1>1, NewItems

\* AddItem refuses a quantity that is not positive.
LEMMA AddItemOK ==
    ASSUME NEW cart \in Cart, NEW p \in Products, NEW n \in Int,
           NEW c, c = Basket!AddItem(cart, p, n), c # None
    PROVE  /\ c \in Cart /\ c.id = cart.id /\ c.user = cart.user
           /\ c.items = [cart.items EXCEPT ![p] = @ + n]
<1>1. c = [cart EXCEPT !.items[p] = @ + n] /\ ~(n <= 0)
  BY DEF Basket!AddItem
<1>2. PICK m : m = cart.items[p] + n
  OBVIOUS
<1>3. m \in Nat
  <2>1. cart.items[p] \in Nat
    BY DEF Cart
  <2> QED BY <1>1, <1>2, <2>1
<1>4. c = [cart EXCEPT !.items[p] = m]
  BY <1>1, <1>2
<1>5. /\ c \in Cart /\ c.id = cart.id /\ c.user = cart.user
      /\ c.items = [cart.items EXCEPT ![p] = m]
  BY <1>3, <1>4, NewItems
<1> QED BY <1>2, <1>5

\* UpdateQuantity refuses a negative one, and removes the item for 0.
LEMMA UpdateQuantityOK ==
    ASSUME NEW cart \in Cart, NEW p \in Products, NEW n \in Int,
           NEW c, c = Basket!UpdateQuantity(cart, p, n), c # None
    PROVE  /\ c \in Cart /\ c.id = cart.id /\ c.user = cart.user
           /\ c.items = [cart.items EXCEPT ![p] = n]
<1>1. CASE n < 0
  BY <1>1 DEF Basket!UpdateQuantity
<1>2. CASE n = 0
  <2>1. c = Basket!RemoveItem(cart, p)
    BY <1>2 DEF Basket!UpdateQuantity
  <2> QED BY <1>2, <2>1, RemoveItemOK
<1>3. CASE n > 0
  <2>1. c = [cart EXCEPT !.items[p] = n]
    BY <1>3 DEF Basket!UpdateQuantity
  <2>2. n \in Nat
    BY <1>3
  <2> QED BY <2>1, <2>2, NewItems
<1> QED BY <1>1, <1>2, <1>3

\* The method changed the cart as asked, or its error is the answer.
LEMMA ChangeOK ==
    ASSUME IInv, NEW h \in Handlers, proc[h].pc = "apply", NEW c, Change(h, c),
           c # None => /\ c \in Cart /\ c.id = proc[h].cart.id /\ c.user = proc[h].cart.user
                       /\ AsAsked(proc[h].req, proc[h].cart.items, c.items),
           proc[h].req.op \in {"AddItem", "UpdateQuantity", "RemoveItem", "ClearCart"},
           UNCHANGED <<carts, cache, codes, tasks, push, done, uses, disturbed>>
    PROVE  IInv'
<1>1. CASE c = None
  BY <1>1, AnswerStep DEF Change
<1>2. CASE c # None
  <2>1. PICK q, D : q = [proc[h] EXCEPT !.pc = "save", !.cart = c] /\ D = disturbed
    OBVIOUS
  <2>2. /\ proc[h].cart # None /\ proc[h].cart \in Cart /\ proc[h].code = None
        /\ proc[h].new = FALSE /\ proc[h].cart.user = proc[h].req.key
    BY Facts DEF CartOK, CodeOK, ProcRecord
  <2>3. /\ proc' = [proc EXCEPT ![h] = q] /\ q \in ProcRecord /\ q.pc = "save"
        /\ q.req = proc[h].req /\ q.id = proc[h].id /\ q.new = FALSE /\ q.cart = c
        /\ q.code = None /\ q.task = proc[h].task
    BY <1>2, <2>1, <2>2, Facts DEF ProcRecord, Change, CartPcs
  <2>4. /\ TaskOK(q, tasks, done)
        /\ \A t : Mine(q, t) <=> Mine(proc[h], t)
        /\ \A t \in Tasks \ disturbed : TaskSafe(h, q, t, tasks)
    <3>1. TaskOK(proc[h], tasks, done)
      BY Facts
    <3>2. q.task # None => (q.task.id \in done <=> q.pc = "del" /\ ~q.new)
      BY <2>3, <3>1 DEF TaskOK
    <3> QED BY <2>3, <3>2, SameTask DEF CartPcs
  <2>5. HandlerOK(q, codes, tasks, done)
    <3>1. PlaceOK(q)
      BY <2>3, Facts DEF PlaceOK, CartPcs
    <3>2. CartOK(q) /\ CodeOK(q, codes)
      BY <1>2, <2>2, <2>3 DEF CartOK, CodeOK
    <3> QED BY <2>3, <2>4, <3>1, <3>2 DEF HandlerOK
  <2>6. ASSUME NEW u \in Users \ D PROVE CartSafe(h, q, u)
    <3>1. CASE c.user = u
      <4>1. AtCart(proc[h], u) /\ CartProc(proc[h], u, carts)
        BY <1>2, <2>1, <2>2, <2>6, <3>1 DEF AtCart, IInv, CartCalm
      <4>2. carts[c.id] = proc[h].cart
        BY <1>2, <4>1 DEF CartProc
      <4>3. CartProc(q, u, carts)
        BY <1>2, <2>2, <2>3, <3>1, <4>2 DEF CartProc
      <4> QED BY <4>1, <4>3 DEF CartSafe
    <3>2. CASE c.user # u
      BY <1>2, <2>2, <2>3, <3>2 DEF CartSafe, CartProc, AtCart
    <3> QED BY <3>1, <3>2
  <2>7. ASSUME NEW d \in Codes \ D PROVE CodeSafe(h, q, d)
    BY <2>3 DEF CodeSafe, CodeProc, AtCode
  <2>8. /\ disturbed' = D /\ disturbed \subseteq D /\ D \subseteq Users \cup Codes \cup Tasks
        /\ \A t \in Tasks \ D : TaskSafe(h, q, t, tasks)
    BY <2>1, <2>4, Facts
  <2> QED BY <2>3, <2>4, <2>5, <2>6, <2>7, <2>8, QuietStep
<1> QED BY <1>1, <1>2

\* CreateOrGet with an item looks the cart up again.
LEMMA CreateOrGetOK ==
    ASSUME IInv, NEW h \in Handlers, proc[h].pc = "apply", proc[h].req.op = "CreateOrGet",
           CreateOrGet(h), UNCHANGED <<carts, cache, codes, tasks, push, done, uses, disturbed>>
    PROVE  IInv'
<1>1. proc[h].task = None
  BY Facts DEF TaskOK, CartPcs
<1>2. CASE proc[h].req.arg.product = None
  BY <1>1, <1>2, AnswerStep DEF CreateOrGet
<1>3. CASE proc[h].req.arg.product # None
  <2>1. PICK r, i : r = [proc[h].req EXCEPT !.op = "AddItem"] /\ i = proc[h].cart.id
    OBVIOUS
  <2>2. /\ proc[h].req \in AllRequests /\ ReqOK(proc[h].req) /\ proc[h].req.key \in Users
        /\ proc[h].req.arg \in ItemArg
    BY Facts DEF PlaceOK, ReqOK, CartOps
  <2>3. /\ r \in AllRequests /\ r.op = "AddItem" /\ r.key \in Users /\ r.arg \in ItemArg
        /\ r.arg.product \in Products
    BY <1>3, <2>1, <2>2 DEF AllRequests, ItemArg, CartOps
  <2>4. ReqOK(r)
    BY <2>3 DEF ReqOK, CartOps, CodeOps
  <2>5. i \in Carts /\ proc[h].code = None
    BY <2>1, Facts DEF CartOK, CodeOK, ProcRecord, Cart
  <2>6. PICK q : q = [proc[h] EXCEPT !.pc = "find", !.req = r, !.new = FALSE, !.cart = None, !.id = i]
    OBVIOUS
  <2>7. /\ q \in ProcRecord /\ q.pc = "find" /\ q.req = r /\ q.id = i /\ q.new = FALSE
        /\ q.cart = None /\ q.code = None /\ q.task = None
    BY <1>1, <2>3, <2>5, <2>6, Facts DEF ProcRecord, CartPcs
  <2>8. proc' = [proc EXCEPT ![h] = q]
    BY <1>3, <2>1, <2>6, Facts DEF CreateOrGet, ProcRecord
  <2>9. HandlerOK(q, codes, tasks, done)
    <3>1. PlaceOK(q)
      BY <2>3, <2>4, <2>5, <2>7 DEF PlaceOK, CartPcs, CartOps
    <3>2. CartOK(q) /\ CodeOK(q, codes) /\ TaskOK(q, tasks, done)
      BY <2>7 DEF CartOK, CodeOK, TaskOK
    <3> QED BY <2>7, <3>1, <3>2 DEF HandlerOK
  <2> QED BY <2>7, <2>8, <2>9, Facts, DropStep DEF AtTask, Mine
<1> QED BY <1>2, <1>3

\* What the service does with the cart it found.
LEMMA ApplyOK ==
    ASSUME IInv, NEW h \in Handlers, Apply(h) PROVE IInv'
<1>1. /\ proc[h].pc = "apply"
      /\ UNCHANGED <<carts, cache, codes, tasks, push, done, uses, disturbed>>
  BY DEF Apply
<1>2. PICK c, r : c = proc[h].cart /\ r = proc[h].req
  OBVIOUS
<1>3. /\ c \in Cart /\ c # None /\ r.op \in CartOps /\ ReqOK(r) /\ r.arg \in ItemArg
      /\ r.arg.quantity \in Int
  BY <1>1, <1>2, Facts DEF CartOK, PlaceOK, ReqOK, CartPcs, ProcRecord, ItemArg
<1>4. CASE r.op = "CreateOrGet"
  BY <1>1, <1>2, <1>4, CreateOrGetOK DEF Apply
<1>5. CASE r.op = "GetCart"
  <2>1. Answer(h, TRUE)
    BY <1>2, <1>5 DEF Apply
  <2>2. proc[h].task # None => ~proc[h].task.adds
    BY <1>1, <1>2, <1>5, Facts DEF TaskOK, CartPcs
  <2> QED BY <1>1, <2>1, <2>2, AnswerStep
<1>6. CASE r.op = "AddItem"
  <2>1. PICK d : d = Basket!AddItem(c, r.arg.product, r.arg.quantity)
    OBVIOUS
  <2>2. Change(h, d)
    BY <1>2, <1>6, <2>1 DEF Apply, SvcAddItem
  <2>3. d # None => d \in Cart /\ d.id = c.id /\ d.user = c.user /\ AsAsked(r, c.items, d.items)
    <3>1. r.arg.product \in Products
      BY <1>3, <1>6 DEF ReqOK
    <3>2. PICK p \in Products, n \in Int : p = r.arg.product /\ n = r.arg.quantity
      BY <1>3, <3>1
    <3>3. d = Basket!AddItem(c, p, n)
      BY <2>1, <3>2
    <3>4. d # None => /\ d \in Cart /\ d.id = c.id /\ d.user = c.user
                      /\ d.items = [c.items EXCEPT ![p] = @ + n]
      BY <1>3, <3>3, AddItemOK
    <3> QED BY <1>6, <3>2, <3>4 DEF AsAsked
  <2> QED BY <1>1, <1>2, <1>6, <2>2, <2>3, ChangeOK
<1>7. CASE r.op = "UpdateQuantity"
  <2>1. PICK d : d = Basket!UpdateQuantity(c, r.arg.product, r.arg.quantity)
    OBVIOUS
  <2>2. Change(h, d)
    BY <1>2, <1>7, <2>1 DEF Apply, SvcUpdateQuantity
  <2>3. d # None => d \in Cart /\ d.id = c.id /\ d.user = c.user /\ AsAsked(r, c.items, d.items)
    <3>1. r.arg.product \in Products
      BY <1>3, <1>7 DEF ReqOK
    <3>2. PICK p \in Products, n \in Int : p = r.arg.product /\ n = r.arg.quantity
      BY <1>3, <3>1
    <3>3. d = Basket!UpdateQuantity(c, p, n)
      BY <2>1, <3>2
    <3>4. d # None => /\ d \in Cart /\ d.id = c.id /\ d.user = c.user
                      /\ d.items = [c.items EXCEPT ![p] = n]
      BY <1>3, <3>3, UpdateQuantityOK
    <3> QED BY <1>7, <3>2, <3>4 DEF AsAsked
  <2> QED BY <1>1, <1>2, <1>7, <2>2, <2>3, ChangeOK
<1>8. CASE r.op = "RemoveItem"
  <2>1. PICK d : d = Basket!RemoveItem(c, r.arg.product)
    OBVIOUS
  <2>2. Change(h, d)
    BY <1>2, <1>8, <2>1 DEF Apply, SvcRemoveItem
  <2>3. d # None => d \in Cart /\ d.id = c.id /\ d.user = c.user /\ AsAsked(r, c.items, d.items)
    <3>1. r.arg.product \in Products
      BY <1>3, <1>8 DEF ReqOK
    <3>2. PICK p \in Products : p = r.arg.product
      BY <3>1
    <3>3. d # None => /\ d \in Cart /\ d.id = c.id /\ d.user = c.user
                      /\ d.items = [c.items EXCEPT ![p] = 0]
      BY <1>3, <2>1, <3>2, RemoveItemOK
    <3> QED BY <1>8, <3>2, <3>3 DEF AsAsked
  <2> QED BY <1>1, <1>2, <1>8, <2>2, <2>3, ChangeOK
<1>9. CASE r.op = "ClearCart"
  <2>1. PICK d : d = Basket!Clear(c)
    OBVIOUS
  <2>2. Change(h, d)
    BY <1>2, <1>9, <2>1 DEF Apply, SvcClearCart
  <2>3. d \in Cart /\ d.id = c.id /\ d.user = c.user /\ AsAsked(r, c.items, d.items)
    BY <1>3, <1>9, <2>1 DEF Basket!Clear, Basket!Empty, Cart, AsAsked
  <2> QED BY <1>1, <1>2, <1>9, <2>2, <2>3, ChangeOK
<1> QED BY <1>3, <1>4, <1>5, <1>6, <1>7, <1>8, <1>9 DEF CartOps

\* The upsert that is not refused: the row becomes the copy, and the item of a
\* task is saved.
LEMMA UpsertOK ==
    ASSUME IInv, NEW h \in Handlers, proc[h].pc = "save", NEW c, c = proc[h].cart,
           NEW o, o = IF carts[c.id] = None THEN c.user ELSE carts[c.id].user,
           ~Taken(c), carts' = [carts EXCEPT ![c.id] = c], Goto(h, "del"),
           done' = done \cup {t \in Held(h) \cap Tasks : ~proc[h].new},
           disturbed' = disturbed \cup (IF o = c.user THEN {} ELSE {o, c.user}),
           UNCHANGED <<cache, codes, tasks, push, uses>>
    PROVE  IInv'
<1>1. /\ c \in Cart /\ c # None /\ c.user \in Users /\ c.id \in Carts /\ c.user = proc[h].req.key
      /\ proc[h].code = None /\ TaskOK(proc[h], tasks, done) /\ proc[h].pc \in CartPcs
  BY Facts DEF CartOK, CodeOK, ProcRecord, Cart, CartPcs
<1>2. PICK q, D : q = [proc[h] EXCEPT !.pc = "del"] /\ D = disturbed'
  OBVIOUS
<1>3. /\ proc' = [proc EXCEPT ![h] = q] /\ q \in ProcRecord /\ q.pc = "del"
      /\ q.req = proc[h].req /\ q.id = proc[h].id /\ q.new = proc[h].new /\ q.cart = c
      /\ q.code = None /\ q.task = proc[h].task
  BY <1>1, <1>2, Facts DEF ProcRecord, Goto, CartPcs
<1>4. /\ \A t : AtTask(q, t) <=> AtTask(proc[h], t)
      /\ \A t : Mine(q, t) <=> Mine(proc[h], t)
  BY <1>3 DEF AtTask, Mine
<1>5. /\ \A t \in Tasks : t \in done' <=> t \in done \/ (AtTask(proc[h], t) /\ ~proc[h].new)
  BY ShoppingAssumption, <1>1 DEF Held, AtTask
<1>6. \A t \in Tasks : AtTask(proc[h], t) =>
          /\ Mine(proc[h], t) /\ t \notin done /\ tasks[t] # None /\ tasks[t].state \notin Answered
  BY <1>1 DEF AtTask, Mine, TaskOK
<1>7. HandlerOK(q, codes, tasks, done')
  <2>1. PlaceOK(q)
    BY <1>1, <1>3, Facts DEF PlaceOK, CartPcs
  <2>2. CartOK(q) /\ CodeOK(q, codes)
    BY <1>1, <1>3, Facts DEF CartOK, CodeOK
  <2>3. TaskOK(q, tasks, done')
    <3>1. CASE q.task = None
      BY <1>3, <3>1 DEF TaskOK
    <3>2. CASE q.task # None
      <4>1. q.task.id \in Tasks /\ AtTask(proc[h], q.task.id)
        BY <1>3, <3>2 DEF ProcRecord, Task, AtTask
      <4>2. q.task.id \in done' <=> ~q.new
        BY <1>3, <1>5, <1>6, <4>1
      <4> QED BY <1>1, <1>3, <3>2, <4>2 DEF TaskOK, CartPcs
    <3> QED BY <3>1, <3>2
  <2> QED BY <1>3, <2>1, <2>2, <2>3 DEF HandlerOK
<1>8. ProcsOK'
  <2>1. ASSUME NEW g \in Handlers \ {h} PROVE Undisturbing(proc[g], codes', tasks', done')
    <3>1. \A t \in Tasks : Mine(proc[g], t) => ~Mine(proc[h], t)
      BY <2>1 DEF IInv, ProcsOK
    <3> QED BY <1>5, <1>6, <3>1 DEF Undisturbing
  <2> QED BY <1>3, <1>4, <1>7, <2>1, ProcStep
<1>9. /\ carts' \in [Carts -> Cart \cup {None}]
      /\ \A b \in Carts : carts'[b] = IF b = c.id THEN c ELSE carts[b]
  BY <1>1 DEF IInv, CartsOK
<1>10. CartsOK'
  <2>1. \A b \in Carts \ {c.id} : carts[b] # None => carts[b].user # c.user
    BY DEF Taken
  <2>2. \A a, b \in Carts :
           carts'[a] # None /\ carts'[b] # None /\ carts'[a].user = carts'[b].user => a = b
    BY <1>9, <2>1 DEF IInv, CartsOK
  <2> QED BY <1>9, <2>2 DEF IInv, CartsOK
<1>11. CodesOK' /\ TasksOK'
  <2>1. \A t \in Tasks : t \in done' => tasks[t] # None
    BY <1>5, <1>6 DEF IInv, TasksOK
  <2>2. \A t \in Tasks : tasks[t] # None /\ tasks[t].adds =>
          /\ tasks[t].state = "completed" => t \in done'
          /\ tasks[t].state = "failed" => t \notin done'
    BY <1>5, <1>6 DEF IInv, TasksOK, Answered
  <2> QED BY <2>1, <2>2 DEF IInv, CodesOK, TasksOK
<1>12. /\ disturbed \subseteq D /\ D \subseteq Users \cup Codes \cup Tasks
       /\ o # c.user => o \in D /\ c.user \in D
  <2>1. o \in Users
    BY <1>1 DEF IInv, CartsOK, Cart
  <2> QED BY <1>1, <1>2, <2>1, Facts
<1>13. ASSUME NEW u \in Users \ D PROVE CartCalm(u)'
  <2>1. CartCalm(u) /\ \A g \in Handlers : proc'[g] = IF g = h THEN q ELSE proc[g]
    BY <1>3, <1>12, <1>13, Facts DEF IInv
  <2>2. \A f, g \in Handlers : AtCart(proc'[f], u) /\ AtCart(proc'[g], u) => f = g
    BY <1>1, <1>3, <2>1 DEF CartCalm, AtCart
  <2>3. CASE u = c.user
    <3>1. AtCart(proc[h], u) /\ AtCart(q, u) /\ CartProc(q, u, carts')
      BY <1>1, <1>3, <1>9, <2>3 DEF AtCart, CartProc
    <3>2. \A g \in Handlers \ {h} : ~AtCart(proc'[g], u)
      BY <2>1, <3>1 DEF CartCalm
    <3>3. \A g \in Handlers : CartProc(proc'[g], u, carts')
      BY <2>1, <3>1, <3>2 DEF CartProc
    <3> QED BY <1>3, <2>1, <2>2, <3>1, <3>3 DEF CartCalm
  <2>4. CASE u # c.user
    <3>1. carts[c.id] = None \/ carts[c.id].user # u
      BY <1>12, <1>13, <2>4
    <3>2. ASSUME NEW g \in Handlers PROVE CartProc(proc'[g], u, carts')
      <4>1. CASE g = h
        BY <1>3, <2>1, <2>4, <4>1 DEF CartProc, AtCart
      <4>2. CASE g # h /\ AtCart(proc[g], u)
        <5>1. PICK p : p = proc[g]
          OBVIOUS
        <5>2. CartProc(p, u, carts) /\ p.cart \in Cart /\ p.cart # None /\ p.cart.user = u
          BY <2>1, <4>2, <5>1, Facts DEF CartCalm, AtCart, ProcRecord
        <5>3. p.cart.id \in Carts
          BY <5>2 DEF Cart
        <5>4. p.pc \in {"fill", "apply", "del"} => carts'[p.cart.id] = p.cart
          BY <1>9, <3>1, <4>2, <5>1, <5>2, <5>3 DEF CartProc
        <5>5. p.pc = "save" /\ p.new => /\ \A b \in Carts : carts'[b] = None \/ carts'[b].user # u
                                        /\ p.cart.items = Basket!Empty
          BY <1>9, <2>4, <4>2, <5>1, <5>2 DEF CartProc
        <5>6. p.pc = "save" /\ ~p.new =>
                /\ carts'[p.cart.id] # None
                /\ carts'[p.cart.id].user = u
                /\ AsAsked(p.req, carts'[p.cart.id].items, p.cart.items)
          <6>1. ASSUME p.pc = "save", ~p.new
                PROVE  /\ carts[p.cart.id] # None /\ carts[p.cart.id].user = u
                       /\ AsAsked(p.req, carts[p.cart.id].items, p.cart.items)
            BY <4>2, <5>1, <5>2, <6>1 DEF CartProc
          <6>2. ASSUME p.pc = "save", ~p.new PROVE carts'[p.cart.id] = carts[p.cart.id]
            BY <1>9, <3>1, <5>3, <6>1, <6>2
          <6> QED BY <6>1, <6>2
        <5>7. CartProc(p, u, carts')
          BY <5>4, <5>5, <5>6 DEF CartProc
        <5> QED BY <2>1, <4>2, <5>1, <5>7
      <4>3. CASE g # h /\ ~AtCart(proc[g], u)
        BY <2>1, <4>3 DEF CartProc
      <4> QED BY <4>1, <4>2, <4>3
    <3>3. cache[u] # None => \/ carts'[cache[u].id] = cache[u]
                             \/ \E g \in Handlers : AtCart(proc'[g], u) /\ proc'[g].pc = "del"
      <4>1. ASSUME cache[u] # None, carts[cache[u].id] = cache[u]
            PROVE  carts'[cache[u].id] = cache[u]
        <5>1. cache[u] \in Cart /\ cache[u].user = u /\ cache[u].id \in Carts
          BY <1>13, <4>1 DEF IInv, CartsOK, Cart
        <5> QED BY <1>9, <3>1, <4>1, <5>1
      <4>2. ASSUME NEW g \in Handlers, AtCart(proc[g], u), proc[g].pc = "del"
            PROVE  \E f \in Handlers : AtCart(proc'[f], u) /\ proc'[f].pc = "del"
        BY <2>1, <4>2
      <4> QED BY <2>1, <4>1, <4>2 DEF CartCalm
    <3> QED BY <2>2, <3>2, <3>3 DEF CartCalm
  <2> QED BY <2>3, <2>4
<1>14. ASSUME NEW d \in Codes \ D PROVE CodeCalm(d)'
  <2>1. CodeSafe(h, q, d) /\ d \in Codes \ disturbed
    BY <1>3, <1>12, <1>14 DEF CodeSafe, CodeProc, AtCode
  <2> QED BY <1>3, <2>1, CodeKept
<1>15. ASSUME NEW t \in Tasks \ D PROVE TaskCalm(t)'
  <2>1. TaskCalm(t) /\ t \in Tasks \ disturbed
    BY <1>12, <1>15 DEF IInv
  <2>2. TaskSafe(h, q, t, tasks')
    BY <1>4, <2>1 DEF TaskCalm, TaskSafe
  <2> QED BY <1>3, <2>1, <2>2, TaskKept
<1> QED BY <1>2, <1>8, <1>10, <1>11, <1>12, <1>13, <1>14, <1>15 DEF IInv

\* Save: refused when the user has another cart.
LEMMA SaveOK ==
    ASSUME IInv, NEW h \in Handlers, Save(h) PROVE IInv'
<1>1. PICK c : c = proc[h].cart
  OBVIOUS
<1>2. PICK o : o = IF carts[c.id] = None THEN c.user ELSE carts[c.id].user
  OBVIOUS
<1>3. CASE Taken(c)
  BY <1>1, <1>3, AnswerStep DEF Save
<1>4. CASE ~Taken(c)
  <2>1. /\ proc[h].pc = "save" /\ carts' = [carts EXCEPT ![c.id] = c] /\ Goto(h, "del")
        /\ done' = done \cup {t \in Held(h) \cap Tasks : ~proc[h].new}
        /\ disturbed' = disturbed \cup (IF o = c.user THEN {} ELSE {o, c.user})
        /\ UNCHANGED <<cache, codes, tasks, push, uses>>
    BY <1>1, <1>2, <1>4 DEF Save
  <2> QED BY <1>1, <1>2, <1>4, <2>1, UpsertOK
<1> QED BY <1>3, <1>4

\* FindByCode: whoever else has a copy, the code is disturbed.
LEMMA LookupOK ==
    ASSUME IInv, NEW h \in Handlers, Lookup(h) PROVE IInv'
<1>1. /\ proc[h].pc = "lookup" /\ UNCHANGED <<carts, cache, codes, tasks, push, done, uses>>
  BY DEF Lookup
<1>2. PICK d, op : d = proc[h].req.key /\ op = proc[h].req.op
  OBVIOUS
<1>3. /\ d \in Codes /\ op \in {"ValidateCode", "ApplyCode", "DeactivateCode"}
      /\ proc[h].cart = None /\ proc[h].code = None /\ proc[h].task = None /\ proc[h].new = FALSE
  BY <1>1, <1>2, Facts DEF PlaceOK, CartOK, CodeOK, TaskOK, ReqOK, CodeOps, ProcRecord, CartPcs
<1>4. CASE Return(h) /\ UNCHANGED disturbed
  BY <1>1, <1>4, Facts, ReturnStep
<1>5. ASSUME codes[d] # None, NEW pc \in Purposes(op, codes[d]), pc # "refused",
             proc' = [proc EXCEPT ![h].pc = pc, ![h].code = codes[d]],
             disturbed' = disturbed \cup Crowded(h, d)
      PROVE  IInv'
  <2>1. PICK c, D : c = codes[d] /\ D = disturbed'
    OBVIOUS
  <2>2. c \in Code /\ c # None
    BY <1>3, <1>5, <2>1 DEF IInv, CodesOK
  <2>3. /\ pc \in {"increment", "deactivate"}
        /\ pc = "increment" => Discount!IsValid(c)
    <3>1. CASE op = "ValidateCode"
      BY <1>5, <2>1, <3>1 DEF Purposes
    <3>2. CASE op = "ApplyCode"
      BY <1>5, <2>1, <3>2 DEF Purposes
    <3>3. CASE op = "DeactivateCode"
      BY <1>5, <2>1, <3>3 DEF Purposes
    <3> QED BY <1>3, <3>1, <3>2, <3>3
  <2>4. PICK q : q = [proc[h] EXCEPT !.pc = pc, !.code = c]
    OBVIOUS
  <2>5. /\ proc' = [proc EXCEPT ![h] = q] /\ q \in ProcRecord /\ q.pc = pc /\ q.code = c
        /\ q.req = proc[h].req /\ q.cart = None /\ q.task = None /\ q.new = FALSE
    BY <1>3, <1>5, <2>1, <2>2, <2>3, <2>4, Facts DEF ProcRecord
  <2>6. HandlerOK(q, codes, tasks, done)
    <3>1. PlaceOK(q)
      BY <1>1, <1>2, <1>3, <2>3, <2>5, Facts DEF PlaceOK, CartPcs
    <3>2. CartOK(q) /\ CodeOK(q, codes) /\ TaskOK(q, tasks, done)
      BY <1>2, <2>1, <2>2, <2>3, <2>5 DEF CartOK, CodeOK, TaskOK
    <3> QED BY <2>5, <3>1, <3>2 DEF HandlerOK
  <2>7. ASSUME NEW u \in Users \ D PROVE CartSafe(h, q, u)
    BY <1>3, <2>5 DEF CartSafe, CartProc, AtCart
  <2>8. D = disturbed \cup Crowded(h, d) /\ Crowded(h, d) \subseteq {d}
    BY <1>5, <2>1 DEF Crowded
  <2>9. ASSUME NEW e \in Codes \ D PROVE CodeSafe(h, q, e)
    <3>1. CASE e = d
      <4>1. \A g \in Handlers \ {h} : ~AtCode(proc[g], d)
        BY <2>8, <2>9, <3>1 DEF Crowded, Held, AtCode
      <4> QED BY <2>1, <2>3, <2>5, <3>1, <4>1 DEF CodeSafe, CodeProc
    <3>2. CASE e # d
      BY <1>2, <2>5, <3>2 DEF CodeSafe, CodeProc, AtCode
    <3> QED BY <3>1, <3>2
  <2>10. ASSUME NEW t \in Tasks \ D PROVE TaskSafe(h, q, t, tasks)
    BY <2>5 DEF TaskSafe, AtTask
  <2>11. disturbed' = D /\ disturbed \subseteq D /\ D \subseteq Users \cup Codes \cup Tasks
    BY <1>3, <2>1, <2>8, Facts
  <2>12. \A t \in Tasks : ~Mine(q, t)
    BY <2>5 DEF Mine, AtTask
  <2> QED BY <1>1, <2>5, <2>6, <2>7, <2>9, <2>10, <2>11, <2>12, QuietStep
<1> QED BY <1>2, <1>4, <1>5 DEF Lookup

\* A request that writes the row of the code d is through.
LEMMA CodeWritten ==
    ASSUME IInv, NEW h \in Handlers, Return(h), NEW d \in Codes,
           proc[h].pc \in {"insert", "increment", "deactivate"},
           UNCHANGED <<carts, cache, tasks, push, done, disturbed>>,
           CodesOK', codes[d] # None => codes'[d] # None,
           \A e \in Codes \ {d} : codes'[e] = codes[e] /\ uses'[e] = uses[e],
           d \notin disturbed =>
              /\ \A g \in Handlers \ {h} : ~AtCode(proc[g], d)
              /\ codes'[d] # None => /\ codes'[d].used = uses'[d]
                                     /\ codes'[d].max > 0 => uses'[d] <= codes'[d].max
    PROVE  IInv'
<1>1. PICK q, D : q = Idle /\ D = disturbed
  OBVIOUS
<1>2. /\ proc' = [proc EXCEPT ![h] = q] /\ q.cart = None /\ q.code = None /\ q.task = None
      /\ HandlerOK(q, codes', tasks', done')
  BY <1>1, IdleOK DEF Return
<1>3. proc[h].cart = None
  BY Facts DEF CartOK
<1>4. ProcsOK'
  <2>1. ASSUME NEW g \in Handlers \ {h} PROVE Undisturbing(proc[g], codes', tasks', done')
    BY DEF Undisturbing
  <2>2. \A t \in Tasks : ~Mine(q, t)
    BY <1>2 DEF Mine, AtTask
  <2> QED BY <1>2, <2>1, <2>2, ProcStep
<1>5. CartsOK' /\ TasksOK'
  BY DEF IInv, CartsOK, TasksOK
<1>6. ASSUME NEW u \in Users \ D PROVE CartCalm(u)'
  <2>1. CartSafe(h, q, u)
    BY <1>2, <1>3 DEF CartSafe, CartProc, AtCart
  <2> QED BY <1>1, <1>2, <1>6, <2>1, CartKept
<1>7. ASSUME NEW e \in Codes \ D PROVE CodeCalm(e)'
  <2>0. CodeCalm(e) /\ \A g \in Handlers : proc'[g] = IF g = h THEN q ELSE proc[g]
    BY <1>1, <1>2, <1>7, Facts DEF IInv
  <2>1. \A f, g \in Handlers : AtCode(proc'[f], e) /\ AtCode(proc'[g], e) => f = g
    BY <1>2, <2>0 DEF CodeCalm, AtCode
  <2>2. CASE e = d
    <3>1. \A g \in Handlers : ~AtCode(proc'[g], e)
      BY <1>1, <1>2, <1>7, <2>0, <2>2 DEF AtCode
    <3> QED BY <1>1, <1>7, <2>1, <2>2, <3>1 DEF CodeCalm, CodeProc
  <2>3. CASE e # d
    <3>1. codes'[e] = codes[e] /\ uses'[e] = uses[e]
      BY <1>7, <2>3
    <3>2. \A g \in Handlers : CodeProc(proc'[g], e, codes'[e])
      BY <1>2, <2>0, <3>1 DEF CodeCalm, CodeProc, AtCode
    <3> QED BY <2>0, <2>1, <3>1, <3>2 DEF CodeCalm
  <2> QED BY <2>2, <2>3
<1>8. ASSUME NEW t \in Tasks \ D PROVE TaskCalm(t)'
  <2>1. TaskSafe(h, q, t, tasks')
    BY <1>2 DEF TaskSafe, AtTask
  <2> QED BY <1>1, <1>2, <1>8, <2>1, TaskKept
<1> QED BY <1>1, <1>4, <1>5, <1>6, <1>7, <1>8 DEF IInv

\* A code nobody has yet is inserted.
LEMMA CreateCodeOK ==
    ASSUME IInv, NEW h \in Handlers, CreateCode(h) PROVE IInv'
<1>1. PICK d, n : d = proc[h].req.key /\ n = proc[h].req.arg
  OBVIOUS
<1>2. /\ proc[h].pc = "insert" /\ Return(h)
      /\ UNCHANGED <<carts, cache, tasks, push, done, uses, disturbed>>
      /\ codes' = IF codes[d] # None THEN codes ELSE [codes EXCEPT ![d] = Discount!NewDiscountCode(n)]
      /\ d \in Codes /\ n \in Nat
  BY <1>1, Facts DEF CreateCode, PlaceOK, ReqOK, CodeOps
<1>3. CASE codes[d] # None
  BY <1>2, <1>3, Facts, ReturnStep
<1>4. CASE codes[d] = None
  <2>1. PICK c : c = Discount!NewDiscountCode(n)
    OBVIOUS
  <2>2. c \in Code /\ c # None /\ c.used = 0 /\ c.max = n
    <3>1. c \in Code /\ c.used = 0 /\ c.max = n
      BY <1>2, <2>1 DEF Discount!NewDiscountCode, Code
    <3> QED BY <3>1, RowsAssumption
  <2>3. /\ codes' \in [Codes -> Code \cup {None}]
        /\ \A e \in Codes : codes'[e] = IF e = d THEN c ELSE codes[e]
    BY <1>2, <1>4, <2>1, <2>2 DEF IInv, CodesOK
  <2>4. uses[d] = 0 /\ CodesOK'
    BY <1>2, <1>4, <2>2, <2>3 DEF IInv, CodesOK
  <2>5. ASSUME NEW g \in Handlers, AtCode(proc[g], d) PROVE FALSE
    BY <1>4, <2>5, Facts DEF AtCode, CodeOK
  <2>6. /\ codes'[d] = c /\ c.used = uses'[d] /\ uses'[d] <= c.max
        /\ \A e \in Codes \ {d} : codes'[e] = codes[e] /\ uses'[e] = uses[e]
    BY <1>2, <2>2, <2>3, <2>4
  <2> QED BY <1>2, <1>4, <2>4, <2>5, <2>6, CodeWritten
<1> QED BY <1>3, <1>4

\* A request that has a copy of the code d to write.
LEMMA CodeHeld ==
    ASSUME IInv, NEW h \in Handlers, proc[h].pc \in {"increment", "deactivate"},
           NEW d, d = proc[h].req.key
    PROVE  /\ d \in Codes /\ codes[d] \in Code /\ codes[d] # None /\ uses[d] \in Nat
           /\ proc[h].code \in Code /\ proc[h].code # None
           /\ d \notin disturbed =>
                 /\ \A g \in Handlers \ {h} : ~AtCode(proc[g], d)
                 /\ proc[h].code = codes[d]
                 /\ proc[h].pc = "increment" => Discount!IsValid(codes[d])
                 /\ codes[d].used = uses[d]
                 /\ codes[d].max > 0 => uses[d] <= codes[d].max
<1>1. proc[h].code # None /\ codes[d] # None /\ proc[h].code \in Code
  BY Facts DEF CodeOK, ProcRecord
<1>2. d \in Codes
  BY <1>1, CodeKey
<1>3. codes[d] \in Code /\ uses[d] \in Nat
  BY <1>1, <1>2 DEF IInv, CodesOK
<1>4. ASSUME d \notin disturbed PROVE CodeCalm(d) /\ AtCode(proc[h], d)
  BY <1>1, <1>2, <1>4 DEF IInv, AtCode
<1> QED BY <1>1, <1>2, <1>3, <1>4 DEF CodeCalm, CodeProc

\* used_count + 1, of a code that may be used once more.
LEMMA IncrementUsageOK ==
    ASSUME IInv, NEW h \in Handlers, IncrementUsage(h) PROVE IInv'
<1>1. PICK d : d = proc[h].req.key
  OBVIOUS
<1>2. /\ proc[h].pc = "increment" /\ Return(h)
      /\ UNCHANGED <<carts, cache, tasks, push, done, disturbed>>
      /\ \/ codes' = [codes EXCEPT ![d].used = @ + 1] /\ uses' = [uses EXCEPT ![d] = @ + 1]
         \/ UNCHANGED <<codes, uses>>
  BY <1>1 DEF IncrementUsage
<1>3. CASE UNCHANGED <<codes, uses>>
  BY <1>2, <1>3, Facts, ReturnStep
<1>4. CASE codes' = [codes EXCEPT ![d].used = @ + 1] /\ uses' = [uses EXCEPT ![d] = @ + 1]
  <2>1. PICK c, n : c = codes[d] /\ n = uses[d]
    OBVIOUS
  <2>2. /\ d \in Codes /\ c \in Code /\ c # None /\ n \in Nat
        /\ d \notin disturbed => /\ \A g \in Handlers \ {h} : ~AtCode(proc[g], d)
                                 /\ Discount!IsValid(c)
                                 /\ c.used = n
    BY <1>1, <1>2, <2>1, CodeHeld
  <2>3. PICK e : e = [c EXCEPT !.used = @ + 1]
    OBVIOUS
  <2>4. e \in Code /\ e # None /\ e.used = c.used + 1 /\ e.max = c.max /\ c.used \in Nat /\ c.max \in Nat
    BY <2>2, <2>3, RowsAssumption DEF Code
  <2>5. /\ codes' \in [Codes -> Code \cup {None}]
        /\ \A x \in Codes : codes'[x] = IF x = d THEN e ELSE codes[x]
    BY <1>4, <2>1, <2>2, <2>3, <2>4 DEF IInv, CodesOK
  <2>6. /\ uses' \in [Codes -> Nat]
        /\ \A x \in Codes : uses'[x] = IF x = d THEN n + 1 ELSE uses[x]
    BY <1>4, <2>1, <2>2 DEF IInv, CodesOK
  <2>7. CodesOK'
    BY <2>4, <2>5, <2>6 DEF IInv, CodesOK
  <2>8. d \notin disturbed => e.used = n + 1 /\ (e.max > 0 => n + 1 <= e.max)
    BY <2>2, <2>4 DEF Discount!IsValid
  <2>9. codes'[d] = e /\ uses'[d] = n + 1
    BY <2>2, <2>5, <2>6
  <2> QED BY <1>2, <2>2, <2>4, <2>5, <2>6, <2>7, <2>8, <2>9, CodeWritten
<1> QED BY <1>2, <1>3, <1>4

\* The whole copy is written back, used_count included.
LEMMA DeactivateCodeOK ==
    ASSUME IInv, NEW h \in Handlers, DeactivateCode(h) PROVE IInv'
<1>1. PICK d : d = proc[h].req.key
  OBVIOUS
<1>2. /\ proc[h].pc = "deactivate" /\ Return(h)
      /\ UNCHANGED <<carts, cache, tasks, push, done, uses, disturbed>>
      /\ \/ codes' = [codes EXCEPT ![d] = Discount!Deactivate(proc[h].code)]
         \/ UNCHANGED codes
  BY <1>1 DEF DeactivateCode
<1>3. CASE UNCHANGED codes
  BY <1>2, <1>3, Facts, ReturnStep
<1>4. CASE codes' = [codes EXCEPT ![d] = Discount!Deactivate(proc[h].code)]
  <2>1. PICK c : c = proc[h].code
    OBVIOUS
  <2>2. /\ d \in Codes /\ c \in Code /\ c # None /\ codes[d] # None
        /\ d \notin disturbed => /\ \A g \in Handlers \ {h} : ~AtCode(proc[g], d)
                                 /\ c.used = uses[d]
                                 /\ c.max > 0 => uses[d] <= c.max
    BY <1>1, <1>2, <2>1, CodeHeld
  <2>3. PICK e : e = Discount!Deactivate(c)
    OBVIOUS
  <2>4. e \in Code /\ e # None /\ e.used = c.used /\ e.max = c.max
    BY <2>2, <2>3, RowsAssumption DEF Code, Discount!Deactivate
  <2>5. /\ codes' \in [Codes -> Code \cup {None}]
        /\ \A x \in Codes : codes'[x] = IF x = d THEN e ELSE codes[x]
    BY <1>4, <2>1, <2>2, <2>3, <2>4 DEF IInv, CodesOK
  <2>6. CodesOK'
    BY <1>2, <2>4, <2>5 DEF IInv, CodesOK
  <2>7. codes'[d] = e /\ uses' = uses
    BY <1>2, <2>2, <2>5
  <2> QED BY <1>2, <2>2, <2>4, <2>5, <2>6, <2>7, CodeWritten
<1> QED BY <1>2, <1>3, <1>4

\* A step of a handler that has no cart in memory, on the rows of tasks and push
\* configurations.
LEMMA TasksStep ==
    ASSUME IInv, NEW h \in Handlers, NEW q, proc' = [proc EXCEPT ![h] = q],
           UNCHANGED <<carts, cache, codes, done, uses, disturbed>>,
           proc[h].cart = None, q.cart = None, q.code = None, TasksOK',
           HandlerOK(q, codes', tasks', done'),
           \A g \in Handlers \ {h} : Undisturbing(proc[g], codes', tasks', done'),
           \A t \in Tasks : Mine(q, t) =>
              Mine(proc[h], t) \/ \A g \in Handlers \ {h} : ~Mine(proc[g], t),
           \A t \in Tasks \ disturbed : TaskSafe(h, q, t, tasks')
    PROVE  IInv'
<1>1. PICK D : D = disturbed
  OBVIOUS
<1>2. ProcsOK'
  BY ProcStep
<1>3. CartsOK' /\ CodesOK'
  BY DEF IInv, CartsOK, CodesOK
<1>4. ASSUME NEW u \in Users \ D PROVE CartCalm(u)'
  <2>1. CartSafe(h, q, u)
    BY DEF CartSafe, CartProc, AtCart
  <2> QED BY <1>1, <1>4, <2>1, CartKept
<1>5. ASSUME NEW d \in Codes \ D PROVE CodeCalm(d)'
  <2>1. CodeSafe(h, q, d)
    BY DEF CodeSafe, CodeProc, AtCode
  <2> QED BY <1>1, <1>5, <2>1, CodeKept
<1>6. ASSUME NEW t \in Tasks \ D PROVE TaskCalm(t)'
  BY <1>1, <1>6, TaskKept
<1> QED BY <1>1, <1>2, <1>3, <1>4, <1>5, <1>6 DEF IInv

\* A request is through that wrote a push configuration.
LEMMA PushStep ==
    ASSUME IInv, NEW h \in Handlers, Return(h), proc[h].cart = None,
           UNCHANGED <<carts, cache, codes, tasks, done, uses, disturbed>>,
           push' \in [PushConfigs -> Tasks \cup {None}],
           \A c \in PushConfigs : push'[c] # None => tasks[push'[c]] # None
    PROVE  IInv'
<1>1. PICK q : q = Idle
  OBVIOUS
<1>2. /\ proc' = [proc EXCEPT ![h] = q] /\ q.cart = None /\ q.code = None /\ q.task = None
      /\ HandlerOK(q, codes', tasks', done')
  BY <1>1, IdleOK DEF Return
<1>3. TasksOK'
  BY DEF IInv, TasksOK
<1>4. \A t \in Tasks : TaskSafe(h, q, t, tasks')
  BY <1>2 DEF TaskSafe, AtTask
<1>5. \A t \in Tasks : ~Mine(q, t)
  BY <1>2 DEF Mine, AtTask
<1>6. \A g \in Handlers \ {h} : Undisturbing(proc[g], codes', tasks', done')
  BY StillTrue
<1> QED BY <1>2, <1>3, <1>4, <1>5, <1>6, TasksStep

\* A configuration names the task that was looked up.
LEMMA CreatePushConfigOK ==
    ASSUME IInv, NEW h \in Handlers, CreatePushConfig(h) PROVE IInv'
<1>1. PICK c, t : c = proc[h].req.arg /\ t = proc[h].req.key
  OBVIOUS
<1>2. /\ proc[h].pc = "pushfind" /\ Return(h)
      /\ UNCHANGED <<carts, cache, codes, tasks, done, uses, disturbed>>
      /\ push' = IF tasks[t] = None \/ push[c] # None THEN push ELSE [push EXCEPT ![c] = t]
  BY <1>1 DEF CreatePushConfig
<1>3. c \in PushConfigs /\ t \in Tasks /\ proc[h].cart = None
  BY <1>1, <1>2, Facts DEF PlaceOK, ReqOK, CartOK
<1>4. /\ push' \in [PushConfigs -> Tasks \cup {None}]
      /\ \A x \in PushConfigs : push'[x] # None => tasks[push'[x]] # None
  BY <1>2, <1>3 DEF IInv, TasksOK
<1> QED BY <1>2, <1>3, <1>4, PushStep

\* A configuration is gone.
LEMMA DeletePushConfigOK ==
    ASSUME IInv, NEW h \in Handlers, DeletePushConfig(h) PROVE IInv'
<1>1. /\ proc[h].pc = "pushdelete" /\ Return(h)
      /\ UNCHANGED <<carts, cache, codes, tasks, done, uses, disturbed>>
      /\ push' = [push EXCEPT ![proc[h].req.key] = None]
  BY DEF DeletePushConfig
<1>2. proc[h].cart = None
  BY <1>1, Facts DEF CartOK
<1>3. /\ push' \in [PushConfigs -> Tasks \cup {None}]
      /\ \A x \in PushConfigs : push'[x] # None => tasks[push'[x]] # None
  BY <1>1 DEF IInv, TasksOK
<1> QED BY <1>1, <1>2, <1>3, PushStep

\* What becomes of a task that has not ended.
LEMMA TransitionOK ==
    ASSUME NEW k \in Task, ~Agent!IsTerminal(k.state), NEW s \in Agent!TaskState,
           NEW m, m = Agent!Transition(k, s)
    PROVE  m \in Task /\ m # None /\ m.id = k.id /\ m.adds = k.adds /\ m.state = s
<1>1. m = [k EXCEPT !.state = s]
  BY DEF Agent!Transition
<1>2. m \in Task /\ m.id = k.id /\ m.adds = k.adds /\ m.state = s
  BY <1>1 DEF Task
<1> QED BY <1>2, RowsAssumption

\* SendMessage: a new task is written, and set to work or failed.
LEMMA SubmitOK ==
    ASSUME IInv, NEW h \in Handlers, Submit(h) PROVE IInv'
<1>1. PICK a, t : a = proc[h].req.arg /\ t = CHOOSE x \in NewTasks : TRUE
  OBVIOUS
<1>2. /\ proc[h].pc = "submit" /\ UNCHANGED <<carts, cache, codes, push, done, uses, disturbed>>
      /\ proc[h].cart = None /\ proc[h].code = None /\ proc[h].task = None /\ proc[h].new = FALSE
      /\ proc[h].req.op = "SendMessage" /\ ReqOK(proc[h].req) /\ a \in MessageArg
      /\ a.skill # "cart" => a.product = None
  BY <1>1, Facts DEF Submit, PlaceOK, CartOK, CodeOK, TaskOK, ReqOK, ProcRecord, CartPcs
<1>3. CASE Return(h) /\ UNCHANGED tasks
  BY <1>2, <1>3, Facts, ReturnStep
<1>4. PICK k, s, pc : /\ k = Agent!NewTask(t, a.product # None)
                      /\ s = IF a.skill = "unknown" THEN "failed" ELSE "working"
                      /\ pc = IF a.skill = "unknown" THEN "finish" ELSE "working"
  OBVIOUS
<1>5. CASE /\ NewTasks # {}
           /\ tasks' = [tasks EXCEPT ![k.id] = k]
           /\ proc' = [proc EXCEPT ![h].pc = pc, ![h].task = Agent!Transition(k, s)]
  <2>1. t \in Tasks /\ tasks[t] = None
    BY <1>1, <1>5 DEF NewTasks
  <2>2. k \in Task /\ k.id = t /\ k.state = "submitted" /\ (k.adds <=> a.product # None)
    BY <1>4, <2>1 DEF Agent!NewTask, Task, Agent!TaskState
  <2>3. k # None /\ ~Agent!IsTerminal(k.state)
    BY <2>2, RowsAssumption DEF Agent!IsTerminal
  <2>4. PICK m : m = Agent!Transition(k, s)
    OBVIOUS
  <2>5. m \in Task /\ m # None /\ m.id = t /\ m.adds = k.adds /\ m.state = s
    <3>1. s \in Agent!TaskState
      BY <1>4 DEF Agent!TaskState
    <3> QED BY <2>2, <2>3, <2>4, <3>1, TransitionOK
  <2>6. PICK q : q = [proc[h] EXCEPT !.pc = pc, !.task = m]
    OBVIOUS
  <2>7. /\ proc' = [proc EXCEPT ![h] = q] /\ q \in ProcRecord /\ q.pc = pc /\ q.task = m
        /\ q.req = proc[h].req /\ q.cart = None /\ q.code = None /\ q.new = FALSE
    BY <1>2, <1>4, <1>5, <2>4, <2>5, <2>6, Facts DEF ProcRecord
  <2>8. /\ tasks' \in [Tasks -> Task \cup {None}]
        /\ \A x \in Tasks : tasks'[x] = IF x = t THEN k ELSE tasks[x]
    BY <1>5, <2>1, <2>2 DEF IInv, TasksOK
  <2>9. t \notin done
    BY <2>1 DEF IInv, TasksOK
  <2>10. TasksOK'
    BY <1>2, <2>2, <2>3, <2>8, <2>9 DEF IInv, TasksOK
  <2>11. HandlerOK(q, codes', tasks', done')
    <3>1. PlaceOK(q) /\ CartOK(q) /\ CodeOK(q, codes')
      BY <1>2, <1>4, <2>7 DEF PlaceOK, CartOK, CodeOK, CartPcs
    <3>2. tasks'[q.task.id] = k /\ q.task.id \notin done'
      BY <1>2, <2>1, <2>5, <2>7, <2>8, <2>9
    <3>3. TaskOK(q, tasks', done')
      BY <1>1, <1>4, <2>2, <2>3, <2>5, <2>7, <3>2 DEF TaskOK, CartPcs, Answered
    <3> QED BY <2>7, <3>1, <3>3 DEF HandlerOK
  <2>12. ASSUME NEW g \in Handlers, AtTask(proc[g], t) PROVE FALSE
    BY <2>1, <2>12, Facts DEF AtTask, TaskOK
  <2>13. ASSUME NEW g \in Handlers \ {h} PROVE Undisturbing(proc[g], codes', tasks', done')
    BY <1>2, <2>1, <2>2, <2>8 DEF Undisturbing, Answered
  <2>14. \A x \in Tasks : Mine(q, x) => \A g \in Handlers \ {h} : ~Mine(proc[g], x)
    BY <2>5, <2>7, <2>12 DEF Mine, AtTask
  <2>15. ASSUME NEW x \in Tasks \ disturbed PROVE TaskSafe(h, q, x, tasks')
    BY <2>2, <2>3, <2>5, <2>7, <2>8, <2>12, <2>15 DEF TaskSafe, AtTask
  <2> QED BY <1>2, <2>7, <2>10, <2>11, <2>13, <2>14, <2>15, TasksStep
<1> QED BY <1>1, <1>3, <1>4, <1>5 DEF Submit

\* CancelTask: the row of a task that has not ended is read.
LEMMA CancelTaskOK ==
    ASSUME IInv, NEW h \in Handlers, CancelTask(h) PROVE IInv'
<1>1. PICK t : t = proc[h].req.key
  OBVIOUS
<1>2. /\ proc[h].pc = "cancel" /\ UNCHANGED <<carts, cache, codes, tasks, push, done, uses>>
      /\ proc[h].cart = None /\ proc[h].code = None /\ proc[h].task = None /\ proc[h].new = FALSE
      /\ t \in Tasks
  BY <1>1, Facts DEF CancelTask, PlaceOK, CartOK, CodeOK, TaskOK, ReqOK, ProcRecord, CartPcs
<1>3. CASE Return(h) /\ UNCHANGED disturbed
  BY <1>2, <1>3, Facts, ReturnStep
<1>4. CASE /\ tasks[t] # None /\ Agent!IsCancelable(tasks[t].state)
           /\ proc' = [proc EXCEPT ![h].pc = "finish", ![h].task = Agent!Transition(tasks[t], "canceled")]
           /\ disturbed' = disturbed \cup Crowded(h, t)
  <2>1. PICK k, D : k = tasks[t] /\ D = disturbed'
    OBVIOUS
  <2>2. k \in Task /\ k.id = t /\ k # None /\ ~Agent!IsTerminal(k.state)
    BY <1>2, <1>4, <2>1 DEF IInv, TasksOK, Agent!IsCancelable, Agent!IsTerminal
  <2>3. PICK m : m = Agent!Transition(k, "canceled")
    OBVIOUS
  <2>4. m \in Task /\ m # None /\ m.id = t /\ m.adds = k.adds /\ m.state = "canceled"
    <3>1. "canceled" \in Agent!TaskState
      BY DEF Agent!TaskState
    <3> QED BY <2>2, <2>3, <3>1, TransitionOK
  <2>5. PICK q : q = [proc[h] EXCEPT !.pc = "finish", !.task = m]
    OBVIOUS
  <2>6. /\ proc' = [proc EXCEPT ![h] = q] /\ q \in ProcRecord /\ q.pc = "finish" /\ q.task = m
        /\ q.cart = None /\ q.code = None /\ q.new = FALSE
    BY <1>2, <1>4, <2>1, <2>3, <2>4, <2>5, Facts DEF ProcRecord
  <2>7. HandlerOK(q, codes, tasks, done)
    <3>1. PlaceOK(q) /\ CartOK(q) /\ CodeOK(q, codes)
      BY <2>6 DEF PlaceOK, CartOK, CodeOK, CartPcs
    <3>2. tasks[q.task.id] = k
      BY <2>1, <2>4, <2>6
    <3>3. TaskOK(q, tasks, done)
      BY <2>2, <2>4, <2>6, <3>2 DEF TaskOK, CartPcs
    <3> QED BY <2>6, <3>1, <3>3 DEF HandlerOK
  <2>8. ASSUME NEW u \in Users \ D PROVE CartSafe(h, q, u)
    BY <1>2, <2>6 DEF CartSafe, CartProc, AtCart
  <2>9. ASSUME NEW d \in Codes \ D PROVE CodeSafe(h, q, d)
    BY <2>6 DEF CodeSafe, CodeProc, AtCode
  <2>10. D = disturbed \cup Crowded(h, t) /\ Crowded(h, t) \subseteq {t}
    BY <1>4, <2>1 DEF Crowded
  <2>11. ASSUME NEW x \in Tasks \ D PROVE TaskSafe(h, q, x, tasks)
    <3>1. CASE x = t
      <4>1. \A g \in Handlers \ {h} : ~AtTask(proc[g], t)
        BY <2>10, <2>11, <3>1 DEF Crowded, Held, AtTask
      <4> QED BY <2>1, <2>2, <3>1, <4>1 DEF TaskSafe
    <3>2. CASE x # t
      BY <2>4, <2>6, <3>2 DEF TaskSafe, AtTask
    <3> QED BY <3>1, <3>2
  <2>12. disturbed' = D /\ disturbed \subseteq D /\ D \subseteq Users \cup Codes \cup Tasks
    BY <1>2, <2>1, <2>10, Facts
  <2>13. \A x \in Tasks : ~Mine(q, x)
    BY <2>4, <2>6 DEF Mine
  <2> QED BY <1>2, <2>6, <2>7, <2>8, <2>9, <2>11, <2>12, <2>13, QuietStep
<1> QED BY <1>1, <1>3, <1>4 DEF CancelTask

\* The last state of a task is written, or lost.
LEMMA FinishOK ==
    ASSUME IInv, NEW h \in Handlers, Finish(h) PROVE IInv'
<1>1. PICK k, t : k = proc[h].task /\ t = k.id
  OBVIOUS
<1>2. /\ proc[h].pc = "finish" /\ UNCHANGED <<carts, cache, codes, push, done, uses, disturbed>>
      /\ Return(h) /\ proc[h].cart = None /\ TaskOK(proc[h], tasks, done)
      /\ k \in Task /\ k # None /\ t \in Tasks /\ AtTask(proc[h], t)
  BY <1>1, Facts DEF Finish, CartOK, TaskOK, ProcRecord, Task, AtTask
<1>3. CASE UNCHANGED tasks
  BY <1>2, <1>3, Facts, ReturnStep
<1>4. CASE tasks' = [tasks EXCEPT ![t] = k]
  <2>1. PICK q : q = Idle
    OBVIOUS
  <2>2. /\ proc' = [proc EXCEPT ![h] = q] /\ q.cart = None /\ q.code = None /\ q.task = None
        /\ HandlerOK(q, codes', tasks', done')
    BY <1>2, <2>1, IdleOK DEF Return
  <2>3. /\ tasks' \in [Tasks -> Task \cup {None}]
        /\ \A x \in Tasks : tasks'[x] = IF x = t THEN k ELSE tasks[x]
    BY <1>2, <1>4 DEF IInv, TasksOK
  <2>4. /\ tasks[t] # None /\ tasks[t].adds = k.adds
        /\ k.state \in {"completed", "failed", "canceled"}
        /\ k.state = "completed" /\ k.adds => t \in done
        /\ k.state = "failed" /\ k.adds => t \notin done
    BY <1>1, <1>2 DEF TaskOK
  <2>5. TasksOK'
    BY <1>1, <1>2, <2>3, <2>4 DEF IInv, TasksOK
  <2>6. ASSUME NEW g \in Handlers \ {h} PROVE Undisturbing(proc[g], codes', tasks', done')
    <3>1. Mine(proc[g], t) => k.state = "canceled"
      BY <1>1, <1>2 DEF IInv, ProcsOK, Mine
    <3> QED BY <1>2, <2>3, <2>4, <3>1 DEF Undisturbing, Answered
  <2>7. \A x \in Tasks : ~Mine(q, x)
    BY <2>2 DEF Mine, AtTask
  <2>8. ASSUME NEW x \in Tasks \ disturbed PROVE TaskSafe(h, q, x, tasks')
    <3>1. TaskCalm(x)
      BY <2>8 DEF IInv
    <3>2. x = t => \A g \in Handlers \ {h} : ~AtTask(proc[g], x)
      BY <1>2, <3>1 DEF TaskCalm
    <3> QED BY <2>2, <2>3, <2>8, <3>2 DEF TaskSafe, AtTask
  <2> QED BY <1>2, <2>2, <2>5, <2>6, <2>7, <2>8, TasksStep
<1> QED BY <1>1, <1>3, <1>4 DEF Finish, Write

\* The state a task is set to work with is written, or lost, and h goes on.
LEMMA WorkStep ==
    ASSUME IInv, NEW h \in Handlers, proc[h].pc = "working", NEW q, proc' = [proc EXCEPT ![h] = q],
           UNCHANGED <<carts, cache, codes, push, done, uses, disturbed>>,
           Write(h) \/ UNCHANGED tasks,
           HandlerOK(q, codes, tasks, done), q.cart = None, q.code = None,
           \A t : AtTask(q, t) => AtTask(proc[h], t),
           \A t : Mine(q, t) => Mine(proc[h], t)
    PROVE  IInv'
<1>1. PICK k, t : k = proc[h].task /\ t = k.id
  OBVIOUS
<1>2. /\ k \in Task /\ k # None /\ t \in Tasks /\ AtTask(proc[h], t) /\ proc[h].cart = None
      /\ k.state = "working" /\ tasks[t] # None /\ tasks[t].adds = k.adds
  BY <1>1, Facts DEF CartOK, TaskOK, ProcRecord, Task, AtTask
<1>3. /\ tasks' \in [Tasks -> Task \cup {None}]
      /\ tasks'[t] \in {tasks[t], k}
      /\ \A x \in Tasks \ {t} : tasks'[x] = tasks[x]
  BY <1>1, <1>2 DEF IInv, TasksOK, Write
<1>4. TasksOK'
  BY <1>1, <1>2, <1>3 DEF IInv, TasksOK
<1>5. ASSUME NEW p PROVE Undisturbing(p, codes', tasks', done')
  BY <1>2, <1>3 DEF Undisturbing, Answered
<1>6. HandlerOK(q, codes', tasks', done')
  BY <1>5, ProcStable
<1>7. ASSUME NEW x \in Tasks \ disturbed PROVE TaskSafe(h, q, x, tasks')
  <2>1. TaskCalm(x)
    BY <1>7 DEF IInv
  <2>2. CASE x = t
    <3>1. \A g \in Handlers \ {h} : ~AtTask(proc[g], x)
      BY <1>2, <2>1, <2>2 DEF TaskCalm
    <3>2. ~Agent!IsTerminal(tasks'[x].state)
      BY <1>2, <1>3, <2>1, <2>2 DEF TaskCalm, Agent!IsTerminal
    <3> QED BY <3>1, <3>2 DEF TaskSafe
  <2>3. CASE x # t
    BY <1>3, <1>7, <2>1, <2>3 DEF TaskCalm, TaskSafe
  <2> QED BY <2>2, <2>3
<1> QED BY <1>2, <1>4, <1>5, <1>6, <1>7, TasksStep

\* The cart skill asks the service for what the message says.
LEMMA HandleOK ==
    ASSUME IInv, NEW h \in Handlers, proc[h].pc = "working", Handle(h)
    PROVE  \E q : /\ proc' = [proc EXCEPT ![h] = q] /\ HandlerOK(q, codes, tasks, done)
                  /\ q.cart = None /\ q.code = None /\ q.task = proc[h].task
<1>1. PICK a, u : a = proc[h].req.arg /\ u = proc[h].req.key
  OBVIOUS
<1>2. PICK n : n = IF a.quantity <= 0 THEN 1 ELSE a.quantity
  OBVIOUS
<1>3. /\ a \in MessageArg /\ u \in Users /\ proc[h].cart = None /\ proc[h].code = None
      /\ proc[h].new = FALSE
  BY <1>1, Facts DEF PlaceOK, CartOK, CodeOK, ReqOK, ProcRecord
<1>4. n \in Int /\ a.product \in Products \cup {None}
  BY <1>2, <1>3 DEF MessageArg
<1>5. ASSUME NEW op \in {"GetCart", "AddItem"}, NEW i \in Carts \cup {None},
             op = "AddItem" => i \in Carts, op = "AddItem" <=> a.product # None,
             proc' = [proc EXCEPT ![h].pc = "find", ![h].id = i,
                                  ![h].req = Request(op, u, Item(i, a.product, n))]
      PROVE  \E q : /\ proc' = [proc EXCEPT ![h] = q] /\ HandlerOK(q, codes, tasks, done)
                    /\ q.cart = None /\ q.code = None /\ q.task = proc[h].task
  <2>1. PICK b : b = Item(i, a.product, n)
    OBVIOUS
  <2>2. b \in ItemArg /\ b.product = a.product
    BY <1>4, <2>1 DEF Item, ItemArg
  <2>3. PICK r : r = Request(op, u, b)
    OBVIOUS
  <2>4. r \in AllRequests /\ r.op = op /\ r.key = u /\ r.arg = b
    BY <1>3, <1>5, <2>2, <2>3 DEF Request, AllRequests, CartOps
  <2>5. ReqOK(r)
    BY <1>3, <1>4, <1>5, <2>2, <2>4 DEF ReqOK, CartOps, CodeOps
  <2>6. PICK q : q = [proc[h] EXCEPT !.pc = "find", !.id = i, !.req = r]
    OBVIOUS
  <2>7. /\ proc' = [proc EXCEPT ![h] = q] /\ q \in ProcRecord /\ q.pc = "find" /\ q.id = i
        /\ q.req = r /\ q.cart = None /\ q.code = None /\ q.new = FALSE /\ q.task = proc[h].task
    BY <1>3, <1>5, <2>1, <2>3, <2>4, <2>6, Facts DEF ProcRecord, CartPcs
  <2>8. PlaceOK(q)
    BY <1>5, <2>4, <2>5, <2>7 DEF PlaceOK, CartPcs, CartOps
  <2>9. CartOK(q) /\ CodeOK(q, codes)
    BY <2>7 DEF CartOK, CodeOK
  <2>10. TaskOK(q, tasks, done)
    <3>1. TaskOK(proc[h], tasks, done)
      BY Facts
    <3>2. /\ q.task # None /\ q.task.state = "working" /\ q.task.id \notin done
          /\ q.task.adds <=> a.product # None
          /\ tasks[q.task.id] # None /\ tasks[q.task.id].adds = q.task.adds
          /\ tasks[q.task.id].state \notin Answered
      BY <1>1, <2>7, <3>1 DEF TaskOK
    <3> QED BY <1>5, <2>4, <2>7, <3>2 DEF TaskOK, CartPcs
  <2> QED BY <2>7, <2>8, <2>9, <2>10 DEF HandlerOK
<1>6. CASE a.product = None
  <2>1. proc' = [proc EXCEPT ![h].pc = "find", ![h].id = None,
                             ![h].req = Request("GetCart", u, Item(None, a.product, n))]
    BY <1>1, <1>2, <1>6 DEF Handle
  <2> QED BY <1>5, <1>6, <2>1
<1>7. CASE a.product # None
  <2>1. PICK i \in NextID :
           proc' = [proc EXCEPT ![h].pc = "find", ![h].id = i,
                                ![h].req = Request("AddItem", u, Item(i, a.product, n))]
    BY <1>1, <1>2, <1>7 DEF Handle
  <2> QED BY <1>5, <1>7, <2>1, IdsOK
<1> QED BY <1>6, <1>7

\* A task is set to work.
LEMMA WorkingOK ==
    ASSUME IInv, NEW h \in Handlers, Working(h) PROVE IInv'
<1>1. /\ proc[h].pc = "working" /\ UNCHANGED <<carts, cache, codes, push, done, uses, disturbed>>
      /\ Write(h) \/ UNCHANGED tasks
  BY DEF Working
<1>2. CASE proc[h].req.arg.skill = "cart"
  <2>1. PICK q : /\ proc' = [proc EXCEPT ![h] = q] /\ HandlerOK(q, codes, tasks, done)
                 /\ q.cart = None /\ q.code = None /\ q.task = proc[h].task
    BY <1>1, <1>2, HandleOK DEF Working
  <2> QED BY <1>1, <2>1, WorkStep DEF AtTask, Mine
<1>3. CASE proc[h].req.arg.skill # "cart"
  <2>1. PICK ok \in BOOLEAN : Answer(h, ok)
    BY <1>3 DEF Working
  <2>2. proc[h].task # None => ~proc[h].task.adds
    BY <1>1, <1>3, Facts DEF TaskOK, PlaceOK, ReqOK
  <2>3. PICK q : proc' = [proc EXCEPT ![h] = q] /\ AnswerOf(h, q, ok)
    BY <1>1, <2>1, AnswerIs
  <2>4. /\ HandlerOK(q, codes, tasks, done)
        /\ \A t : AtTask(q, t) => AtTask(proc[h], t)
        /\ \A t : Mine(q, t) => Mine(proc[h], t)
    BY <1>1, <2>2, <2>3, AnswerOK
  <2>5. q.cart = None /\ q.code = None
    BY <2>3 DEF AnswerOf
  <2> QED BY <1>1, <2>3, <2>4, <2>5, WorkStep
<1> QED BY <1>2, <1>3

-----------------------------------------------------------------------------
(* The inductive invariant *)

\* Nobody is at work, Redis is empty and there are no tasks.
LEMMA InitOK ==
    ASSUME Init PROVE IInv
<1>1. /\ cache = [u \in Users |-> None] /\ tasks = [t \in Tasks |-> None]
      /\ push = [c \in PushConfigs |-> None] /\ proc = [h \in Handlers |-> Idle]
      /\ done = {} /\ disturbed = {}
      /\ uses = [d \in Codes |-> IF codes[d] = None THEN 0 ELSE codes[d].used]
  BY DEF Init
<1>2. PICK r \in InitialRows : carts = r.carts /\ codes = r.codes
  BY DEF Init
<1>3. CartsOK
  BY <1>1, <1>2, RowsAssumption DEF CartsOK
<1>4. codes \in [Codes -> Code \cup {None}]
      /\ \A d \in Codes : codes[d] # None /\ codes[d].max > 0 => codes[d].used <= codes[d].max
  BY <1>2, RowsAssumption
<1>5. CodesOK
  BY <1>1, <1>4 DEF CodesOK, Code
<1>6. TasksOK
  BY <1>1 DEF TasksOK
<1>7. \A h \in Handlers : /\ proc[h] = Idle /\ proc[h].cart = None /\ proc[h].code = None
                          /\ proc[h].task = None /\ HandlerOK(proc[h], codes, tasks, done)
  BY <1>1, IdleOK
<1>8. ProcsOK
  <2>1. proc \in [Handlers -> ProcRecord]
    BY <1>1, IdleOK
  <2> QED BY <1>7, <2>1 DEF ProcsOK, Mine, AtTask
<1>9. \A u \in Users : CartCalm(u)
  BY <1>1, <1>7 DEF CartCalm, CartProc, AtCart
<1>10. \A d \in Codes : CodeCalm(d)
  BY <1>1, <1>4, <1>7 DEF CodeCalm, CodeProc, AtCode
<1>11. \A t \in Tasks : TaskCalm(t)
  BY <1>7 DEF TaskCalm, AtTask
<1> QED BY <1>1, <1>3, <1>5, <1>6, <1>8, <1>9, <1>10, <1>11 DEF IInv

\* Every step keeps the invariant.
LEMMA NextOK ==
    ASSUME IInv, [Next]_vars PROVE IInv'
<1>1. CASE Next
  <2>1. PICK h \in Handlers : Arrive(h) \/ CartStep(h) \/ DiscountStep(h) \/ TaskStep(h) \/ Crash(h)
    BY <1>1 DEF Next
  <2>2. CASE CartStep(h)
    BY <2>2, FindOK, writeCacheOK, ApplyOK, SaveOK, SaveFailsOK, invalidateCacheOK DEF CartStep
  <2>3. CASE DiscountStep(h)
    BY <2>3, CreateCodeOK, LookupOK, IncrementUsageOK, DeactivateCodeOK DEF DiscountStep
  <2>4. CASE TaskStep(h)
    BY <2>4, SubmitOK, WorkingOK, CancelTaskOK, FinishOK, CreatePushConfigOK, DeletePushConfigOK
       DEF TaskStep
  <2> QED BY <2>1, <2>2, <2>3, <2>4, ArriveOK, CrashOK
<1>2. CASE UNCHANGED vars
  BY <1>2 DEF vars, IInv, CartsOK, CodesOK, TasksOK, ProcsOK, CartCalm, CodeCalm, TaskCalm
<1> QED BY <1>1, <1>2

\* The invariant of every reachable state.
LEMMA Inductive == Spec => []IInv
BY InitOK, NextOK, PTL DEF Spec

-----------------------------------------------------------------------------
(* What it gives *)

\* Rows are under their id, a user has one cart at most, a copy is under the
\* user it belongs to, and a push configuration names a task.
THEOREM TypeCorrect == Spec => []TypeOK
<1>1. ASSUME NEW S, \A a, b \in S : a = b PROVE Cardinality(S) <= 1
  <2>1. CASE S = {}
    BY <2>1, FS_EmptySet
  <2>2. ASSUME NEW a \in S PROVE Cardinality(S) <= 1
    <3>1. S = {a}
      BY <1>1, <2>2
    <3>2. Cardinality({a}) = 1
      BY FS_Singleton
    <3> QED BY <3>1, <3>2
  <2> QED BY <2>1, <2>2
<1>2. ASSUME IInv PROVE TypeOK
  <2>1. ASSUME NEW u \in Users PROVE Cardinality(RowsOf(u)) <= 1
    <3>1. \A a, b \in RowsOf(u) : a = b
      BY <1>2 DEF IInv, CartsOK, RowsOf
    <3> QED BY <1>1, <3>1
  <2>2. /\ \A c \in Carts : carts[c] # None => carts[c] \in Cart /\ carts[c].id = c
        /\ \A u \in Users : cache[u] # None => cache[u] \in Cart /\ cache[u].user = u
    BY <1>2 DEF IInv, CartsOK
  <2>3. \A d \in Codes : codes[d] # None => codes[d] \in Code
    BY <1>2 DEF IInv, CodesOK
  <2>4. /\ \A t \in Tasks : tasks[t] # None => tasks[t] \in Task /\ tasks[t].id = t
        /\ \A c \in PushConfigs : push[c] # None => tasks[push[c]] # None
    BY <1>2 DEF IInv, TasksOK
  <2> QED BY <1>2, <2>1, <2>2, <2>3, <2>4 DEF TypeOK, IInv
<1> QED BY <1>2, Inductive, PTL

\* IncrementUsage and DeactivateCode: a code is applied at most as often as its
\* limit says and used_count tells how often, unless two handlers were at the
\* code at once.
THEOREM UsageStaysCounted == Spec => []UsageIsCounted
<1>1. ASSUME IInv PROVE UsageIsCounted
  BY <1>1 DEF IInv, CodeCalm, UsageIsCounted
<1> QED BY <1>1, Inductive, PTL

\* tasks/get: a task that is completed has added its item and one that failed
\* has not, for any interleaving, faults and cancels.
THEOREM TasksTellTheTruth == Spec => []TaskTellsTheTruth
<1>1. ASSUME IInv PROVE TaskTellsTheTruth
  BY <1>1 DEF IInv, TasksOK, TaskTellsTheTruth
<1> QED BY <1>1, Inductive, PTL

\* CancelTask and SendMessage: the row of a task that has ended stays as it is,
\* unless a cancel met the message that was at work on it.
THEOREM EndedTasksStay == Spec => TaskEndsOnce
<1> DEFINE Stays == \A t \in Tasks \ disturbed' :
          tasks[t] # None /\ Agent!IsTerminal(tasks[t].state) => tasks'[t] = tasks[t]
<1>1. ASSUME IInv, [Next]_vars, NEW t \in Tasks \ disturbed', tasks[t] # None,
             Agent!IsTerminal(tasks[t].state)
      PROVE  tasks'[t] = tasks[t]
  <2>1. CASE tasks' = tasks
    BY <2>1
  <2>2. ASSUME NEW h \in Handlers, Submit(h) PROVE tasks'[t] = tasks[t]
    <3>1. CASE UNCHANGED tasks
      BY <3>1
    <3>2. PICK k, s : s = (CHOOSE x \in NewTasks : TRUE) /\ k = Agent!NewTask(s, proc[h].req.arg.product # None)
      OBVIOUS
    <3>3. CASE NewTasks # {} /\ tasks' = [tasks EXCEPT ![k.id] = k]
      <4>1. s \in NewTasks /\ k.id = s
        BY <3>2, <3>3 DEF Agent!NewTask
      <4>2. s # t
        BY <1>1, <4>1 DEF NewTasks
      <4> QED BY <1>1, <3>3, <4>1, <4>2 DEF IInv, TasksOK
    <3> QED BY <2>2, <3>1, <3>2, <3>3 DEF Submit
  <2>3. ASSUME NEW h \in Handlers, Write(h), UNCHANGED disturbed, proc[h].pc \in {"working", "finish"}
        PROVE  tasks'[t] = tasks[t]
    <3>1. TaskCalm(t) /\ proc[h].task # None
      BY <1>1, <2>3, Facts DEF IInv, TaskOK
    <3>2. proc[h].task.id # t
      BY <1>1, <3>1 DEF TaskCalm, AtTask
    <3> QED BY <1>1, <2>3, <3>2 DEF Write, IInv, TasksOK
  <2>4. \/ tasks' = tasks
        \/ \E h \in Handlers : Submit(h)
        \/ \E h \in Handlers : /\ Write(h) /\ UNCHANGED disturbed
                               /\ proc[h].pc \in {"working", "finish"}
    <3>1. CASE UNCHANGED vars
      BY <3>1 DEF vars
    <3>2. ASSUME NEW h \in Handlers, CartStep(h) PROVE tasks' = tasks
      BY <3>2 DEF CartStep, Find, writeCache, Apply, Save, SaveFails, invalidateCache
    <3>3. ASSUME NEW h \in Handlers, DiscountStep(h) PROVE tasks' = tasks
      BY <3>3 DEF DiscountStep, CreateCode, Lookup, IncrementUsage, DeactivateCode
    <3>4. ASSUME NEW h \in Handlers, TaskStep(h)
          PROVE  \/ tasks' = tasks
                 \/ Submit(h)
                 \/ Write(h) /\ UNCHANGED disturbed /\ proc[h].pc \in {"working", "finish"}
      BY <3>4 DEF TaskStep, Working, CancelTask, Finish, CreatePushConfig, DeletePushConfig
    <3>5. ASSUME NEW h \in Handlers, Arrive(h) \/ Crash(h) PROVE tasks' = tasks
      BY <3>5 DEF Arrive, Crash
    <3> QED BY <1>1, <3>1, <3>2, <3>3, <3>4, <3>5 DEF Next
  <2> QED BY <2>1, <2>2, <2>3, <2>4
<1>2. IInv /\ [Next]_vars => [Stays]_vars
  BY <1>1
<1>3. TaskEndsOnce <=> [][Stays]_vars
  BY DEF TaskEndsOnce
<1> HIDE DEF Stays
<1> QED BY <1>2, <1>3, Inductive, PTL DEF Spec

\* The rows of u when they are one row.
LEMMA OneRow ==
    ASSUME NEW u, NEW a, RowsOf(u) = {a} PROVE ItemsOf(u) = carts[a].items
<1>1. (CHOOSE c \in RowsOf(u) : TRUE) = a
  OBVIOUS
<1> QED BY <1>1 DEF ItemsOf

\* Carts, Save: what a user has in the cart changes only by a request of that
\* user and as the request says, unless two handlers were at the cart at once,
\* a DEL was lost or the cart changed hands.
THEOREM CartsChangeAsAsked == Spec => CartChangesAsAsked
<1> DEFINE Asked == \A u \in Users \ disturbed' :
          \/ ItemsOf(u)' = ItemsOf(u)
          \/ \E h \in Handlers : /\ proc[h].pc = "save" /\ proc'[h].pc = "del"
                                 /\ proc[h].req.key = u
                                 /\ AsAsked(proc[h].req, ItemsOf(u), ItemsOf(u)')
<1>1. ASSUME IInv, [Next]_vars, NEW u \in Users \ disturbed'
      PROVE  \/ ItemsOf(u)' = ItemsOf(u)
             \/ \E h \in Handlers : /\ proc[h].pc = "save" /\ proc'[h].pc = "del"
                                    /\ proc[h].req.key = u
                                    /\ AsAsked(proc[h].req, ItemsOf(u), ItemsOf(u)')
  <2>1. CASE carts' = carts
    BY <2>1 DEF ItemsOf, RowsOf
  <2>2. ASSUME NEW h \in Handlers, Save(h), carts' # carts
        PROVE  \/ ItemsOf(u)' = ItemsOf(u)
               \/ /\ proc[h].pc = "save" /\ proc'[h].pc = "del"
                  /\ proc[h].req.key = u
                  /\ AsAsked(proc[h].req, ItemsOf(u), ItemsOf(u)')
    <3>1. PICK c : c = proc[h].cart
      OBVIOUS
    <3>2. PICK o : o = IF carts[c.id] = None THEN c.user ELSE carts[c.id].user
      OBVIOUS
    <3>3. /\ proc[h].pc = "save" /\ ~Taken(c) /\ carts' = [carts EXCEPT ![c.id] = c]
          /\ Goto(h, "del")
          /\ disturbed' = disturbed \cup (IF o = c.user THEN {} ELSE {o, c.user})
      BY <2>2, <3>1, <3>2 DEF Save
    <3>4. /\ c \in Cart /\ c # None /\ c.id \in Carts /\ c.user = proc[h].req.key
          /\ proc'[h].pc = "del"
      BY <1>1, <3>1, <3>3, Facts DEF CartOK, ProcRecord, Cart, Goto
    <3>5. \A b \in Carts : carts'[b] = IF b = c.id THEN c ELSE carts[b]
      BY <1>1, <3>3, <3>4 DEF IInv, CartsOK
    <3>6. \A b \in Carts \ {c.id} : carts[b] # None => carts[b].user # c.user
      BY <3>3 DEF Taken
    <3>7. CASE u # c.user
      <4>1. carts[c.id] = None \/ carts[c.id].user # u
        BY <1>1, <3>2, <3>3, <3>7
      <4>2. RowsOf(u)' = RowsOf(u)
        BY <3>4, <3>5, <3>7, <4>1 DEF RowsOf
      <4>3. \A b \in RowsOf(u) : carts'[b] = carts[b]
        BY <3>5, <4>1 DEF RowsOf
      <4>4. CASE RowsOf(u) = {}
        BY <4>2, <4>4 DEF ItemsOf
      <4>5. CASE RowsOf(u) # {}
        <5>1. PICK b : b = CHOOSE x \in RowsOf(u) : TRUE
          OBVIOUS
        <5>2. b \in RowsOf(u) /\ carts'[b] = carts[b]
          BY <4>3, <4>5, <5>1
        <5>3. ItemsOf(u) = carts[b].items
          BY <4>5, <5>1 DEF ItemsOf
        <5>4. ItemsOf(u)' = carts'[b].items
          BY <4>2, <4>5, <5>1 DEF ItemsOf
        <5> QED BY <5>2, <5>3, <5>4
      <4> QED BY <4>4, <4>5
    <3>8. CASE u = c.user
      <4>1. RowsOf(u)' = {c.id}
        BY <3>4, <3>5, <3>6, <3>8 DEF RowsOf
      <4>2. ItemsOf(u)' = c.items
        <5>1. (CHOOSE x \in {c.id} : TRUE) = c.id
          OBVIOUS
        <5>2. ItemsOf(u)' = carts'[c.id].items
          BY <4>1, <5>1 DEF ItemsOf
        <5> QED BY <3>4, <3>5, <5>2
      <4>3. CartProc(proc[h], u, carts) /\ AtCart(proc[h], u)
        BY <1>1, <3>1, <3>3, <3>4, <3>8 DEF IInv, CartCalm, AtCart
      <4>4. CASE proc[h].new
        <5>1. RowsOf(u) = {} /\ c.items = Basket!Empty
          BY <3>1, <3>3, <4>3, <4>4 DEF CartProc, RowsOf
        <5> QED BY <4>2, <5>1 DEF ItemsOf
      <4>5. CASE ~proc[h].new
        <5>1. /\ carts[c.id] # None /\ carts[c.id].user = u
              /\ AsAsked(proc[h].req, carts[c.id].items, c.items)
          BY <3>1, <3>3, <4>3, <4>5 DEF CartProc
        <5>2. RowsOf(u) = {c.id}
          BY <3>4, <3>6, <3>8, <5>1 DEF RowsOf
        <5>3. ItemsOf(u) = carts[c.id].items
          BY <5>2, OneRow
        <5>4. AsAsked(proc[h].req, ItemsOf(u), ItemsOf(u)')
          BY <4>2, <5>1, <5>3
        <5> QED BY <3>3, <3>4, <3>8, <5>4
      <4> QED BY <4>4, <4>5
    <3> QED BY <3>7, <3>8
  <2>3. carts' = carts \/ \E h \in Handlers : Save(h)
    <3>1. CASE UNCHANGED vars
      BY <3>1 DEF vars
    <3>2. ASSUME NEW h \in Handlers, CartStep(h) PROVE carts' = carts \/ Save(h)
      BY <3>2 DEF CartStep, Find, writeCache, Apply, SaveFails, invalidateCache
    <3>3. ASSUME NEW h \in Handlers, DiscountStep(h) PROVE carts' = carts
      BY <3>3 DEF DiscountStep, CreateCode, Lookup, IncrementUsage, DeactivateCode
    <3>4. ASSUME NEW h \in Handlers, TaskStep(h) PROVE carts' = carts
      BY <3>4 DEF TaskStep, Submit, Working, CancelTask, Finish, CreatePushConfig, DeletePushConfig
    <3>5. ASSUME NEW h \in Handlers, Arrive(h) \/ Crash(h) PROVE carts' = carts
      BY <3>5 DEF Arrive, Crash
    <3> QED BY <1>1, <3>1, <3>2, <3>3, <3>4, <3>5 DEF Next
  <2> QED BY <2>1, <2>2, <2>3
<1>2. IInv /\ [Next]_vars => [Asked]_vars
  BY <1>1
<1>3. CartChangesAsAsked <=> [][Asked]_vars
  BY DEF CartChangesAsAsked
<1> HIDE DEF Asked
<1> QED BY <1>2, <1>3, Inductive, PTL DEF Spec

=============================================================================
