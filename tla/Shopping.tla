------------------------------- MODULE Shopping -------------------------------
(***************************************************************************)
(* Carts, discount codes and A2A tasks: domain/cart, domain/discount and   *)
(* domain/a2a, their repositories, the REST and MCP handlers, the JSON-RPC *)
(* endpoint of the agent and its cart skill, which adds items to the same  *)
(* carts.                                                                  *)
(*                                                                         *)
(* Every change reads a copy (of a cart through Redis) and writes the      *)
(* whole row back; only the use of a code is counted in the database.  A   *)
(* task runs inside the request that sends the message, and its row is     *)
(* written at each of its states, mostly without a look at the error.      *)
(*                                                                         *)
(* A cart is read by its user only, so its copy under cart:id: is left     *)
(* out.  cart.updated events are left out: no code consumes them.          *)
(***************************************************************************)
EXTENDS Integers, FiniteSets

CONSTANTS
    Users, Carts, Products, Codes, Tasks, PushConfigs, None,
    Handlers,      \* request handlers, on any replica
    Quantities,    \* quantities a request may give
    Limits,        \* MaxUsages of a new code
    InitialRows,   \* what the tables may hold at first: [carts, codes]
    MaxRequests,   \* bound: requests that arrive
    MaxFaults      \* bound: commands that fail, handlers that die

ASSUME ShoppingAssumption ==
    /\ Quantities \subseteq Int
    /\ Limits \subseteq Nat
    /\ None \notin Users \cup Carts \cup Products \cup Codes \cup Tasks \cup PushConfigs
    /\ Users \cap Codes = {}
    /\ Users \cap Tasks = {}
    /\ Codes \cap Tasks = {}
    /\ MaxRequests \in Nat /\ MaxFaults \in Nat

Basket == INSTANCE Cart
Discount == INSTANCE DiscountCode
Agent == INSTANCE Task

Cart == [id : Carts, user : Users, items : [Products -> Nat]]
Code == [max : Nat, used : Nat, active : BOOLEAN]
Task == [id : Tasks, state : Agent!TaskState, artifact : BOOLEAN, adds : BOOLEAN]

\* Rows are under their id, a user has one cart at most and no code was used
\* more often than it may be.
ASSUME RowsAssumption ==
    /\ None \notin Cart /\ None \notin Code /\ None \notin Task
    /\ \A r \in InitialRows :
          /\ r.carts \in [Carts -> Cart \cup {None}]
          /\ \A c \in Carts : r.carts[c] # None => r.carts[c].id = c
          /\ \A b, c \in Carts :
                r.carts[b] # None /\ r.carts[c] # None /\ r.carts[b].user = r.carts[c].user => b = c
          /\ r.codes \in [Codes -> Code \cup {None}]
          /\ \A d \in Codes : r.codes[d] # None /\ r.codes[d].max > 0 =>
                r.codes[d].used <= r.codes[d].max

VARIABLES
    carts,     \* the carts table, None where there is no row
    cache,     \* cart:user: in Redis
    codes,     \* the discount_codes table
    tasks,     \* the a2a_tasks table
    push,      \* the push configurations: the task of each, None before
    proc,      \* what each handler is doing
    done,      \* tasks whose item was saved (history)
    uses,      \* how often a code was applied (history)
    disturbed, \* users, codes and tasks two handlers were at once at, users
               \* whose copy a fault left behind or whose cart changed hands
    arrived, faults

vars == <<carts, cache, codes, tasks, push, proc, done, uses, disturbed, arrived, faults>>

-----------------------------------------------------------------------------
(* Interfaces: the requests that may arrive *)

Request(op, key, arg) == [op |-> op, key |-> key, arg |-> arg]

Requests(op, keys, args) == {Request(op, k, a) : k \in keys, a \in args}

\* The id a new cart gets, the item.
Item(cart, p, q) == [cart |-> cart, product |-> p, quantity |-> q]

Items(ids, ps) == {Item(c, p, q) : c \in ids, p \in ps, q \in Quantities}

\* Snowflake.NextID: no row has the id and no request holds it.
Fresh ==
    {c \in Carts : /\ carts[c] = None
                   /\ \A h \in Handlers : proc[h].id # c}

NextID == {CHOOSE c \in Fresh : TRUE : x \in {y \in {0} : Fresh # {}}}

\* cart_id of the body, if it is positive, and the id of the path: the id of a
\* cart there is, or one that is as good as fresh.
ClientIds == {c \in Carts : carts[c] # None} \cup NextID

RestCreateOrGet ==
    Requests("CreateOrGet", Users,
             Items(ClientIds, Products) \cup {Item(c, None, 0) : c \in ClientIds})
RestAddItem == Requests("AddItem", Users, Items(ClientIds, Products))
RestGetCart == Requests("GetCart", Users, {Item(None, None, 0)})
RestUpdateQuantity == Requests("UpdateQuantity", Users, Items({None}, Products))
RestRemoveItem == Requests("RemoveItem", Users, {Item(None, p, 0) : p \in Products})
RestClearCart == Requests("ClearCart", Users, {Item(None, None, 0)})

McpAddItem == Requests("AddItem", Users, Items(NextID, Products))
McpGetCart == RestGetCart
McpUpdateQuantity == RestUpdateQuantity
McpRemoveItem == RestRemoveItem
McpClearCart == RestClearCart

RestCreate == Requests("CreateCode", Codes, Limits)
RestValidate == Requests("ValidateCode", Codes, {0})
RestApply == Requests("ApplyCode", Codes, {0})
RestDeactivate == Requests("DeactivateCode", Codes, {0})

McpCreateCode == RestCreate
McpValidateCode == RestValidate
McpApplyCode == RestApply
McpDeactivateCode == RestDeactivate

\* What detectSkill makes of a message: an item for the cart, a look at the
\* cart, another skill, or a skill nobody registered.
Messages ==
    {[skill |-> "cart", product |-> p, quantity |-> q] :
        p \in Products \cup {None}, q \in Quantities}
    \cup {[skill |-> s, product |-> None, quantity |-> 0] : s \in {"other", "unknown"}}

\* Bound: no more messages than there are task ids.
NewTasks == {t \in Tasks : tasks[t] = None}

handleSendMessage == Requests("SendMessage", Users, {m \in Messages : NewTasks # {}})
handleCancelTask == Requests("CancelTask", Tasks, {0})
handleCreatePushConfig == Requests("CreatePushConfig", Tasks, PushConfigs)
handleDeletePushConfig == Requests("DeletePushConfig", PushConfigs, {0})

CartRoutes ==
    RestCreateOrGet \cup RestAddItem \cup RestGetCart \cup RestUpdateQuantity
    \cup RestRemoveItem \cup RestClearCart
CartTools == McpAddItem \cup McpGetCart \cup McpUpdateQuantity \cup McpRemoveItem \cup McpClearCart
DiscountRoutes == RestCreate \cup RestValidate \cup RestApply \cup RestDeactivate
DiscountTools == McpCreateCode \cup McpValidateCode \cup McpApplyCode \cup McpDeactivateCode
ServeJSONRPC ==
    handleSendMessage \cup handleCancelTask \cup handleCreatePushConfig \cup handleDeletePushConfig

\* Where a request starts.
Entry(op) ==
    CASE op \in {"CreateOrGet", "AddItem", "GetCart", "UpdateQuantity", "RemoveItem",
                 "ClearCart"} -> "find"
      [] op = "CreateCode" -> "insert"
      [] op \in {"ValidateCode", "ApplyCode", "DeactivateCode"} -> "lookup"
      [] op = "SendMessage" -> "submit"
      [] op = "CancelTask" -> "cancel"
      [] op = "CreatePushConfig" -> "pushfind"
      [] op = "DeletePushConfig" -> "pushdelete"

-----------------------------------------------------------------------------
(* The steps of a handler *)

Idle == [pc |-> "idle", req |-> Request("none", None, None),
         id |-> None,     \* the cart id the request holds
         new |-> FALSE,   \* the cart in memory was created by this request
         cart |-> None, code |-> None, task |-> None]  \* copies in memory

Init ==
    /\ \E rows \in InitialRows : carts = rows.carts /\ codes = rows.codes
    /\ cache = [u \in Users |-> None]
    /\ tasks = [t \in Tasks |-> None]
    /\ push = [c \in PushConfigs |-> None]
    /\ proc = [h \in Handlers |-> Idle]
    /\ done = {}
    /\ uses = [d \in Codes |-> IF codes[d] = None THEN 0 ELSE codes[d].used]
    /\ disturbed = {}
    /\ arrived = 0
    /\ faults = 0

Fault == faults < MaxFaults /\ faults' = faults + 1

Goto(h, pc) == proc' = [proc EXCEPT ![h].pc = pc]
Return(h) == proc' = [proc EXCEPT ![h] = Idle]

Held(h) ==
    {u \in Users : proc[h].cart # None /\ proc[h].cart.user = u}
    \cup {t \in Tasks : proc[h].task # None /\ proc[h].task.id = t}
    \cup {d \in Codes : proc[h].code # None /\ proc[h].req.key = d}

\* x is about to be held by h: is it held already?
Crowded(h, x) == {y \in {x} : \E g \in Handlers \ {h} : y \in Held(g)}

CartId(r) == IF r.op \in {"CreateOrGet", "AddItem"} THEN r.arg.cart ELSE None

Arrive(h) ==
    /\ proc[h].pc = "idle"
    /\ arrived < MaxRequests
    /\ \E r \in CartRoutes \cup CartTools \cup DiscountRoutes \cup DiscountTools \cup ServeJSONRPC :
          proc' = [proc EXCEPT ![h] = [Idle EXCEPT !.pc = Entry(r.op), !.req = r,
                                                   !.id = CartId(r)]]
    /\ arrived' = arrived + 1
    /\ UNCHANGED <<carts, cache, codes, tasks, push, done, uses, disturbed, faults>>

\* The result of the service goes to the client, or to the task whose skill
\* called it: Handle's error fails the task, else it is completed.
Finished(task, ok) ==
    IF ok THEN Agent!Transition(Agent!AddArtifact(task), "completed")
    ELSE Agent!Transition(task, "failed")

\* Mutation: Handle's error is ignored.
AnswerAnyway(h, ok) ==
    IF proc[h].task = None THEN Return(h)
    ELSE proc' = [proc EXCEPT ![h] = [Idle EXCEPT !.pc = "finish",
                                                  !.task = Finished(proc[h].task, TRUE)]]

Answer(h, ok) ==
    IF proc[h].task = None THEN Return(h)
    ELSE proc' = [proc EXCEPT ![h] = [Idle EXCEPT !.pc = "finish",
                                                  !.task = Finished(proc[h].task, ok)]]

-----------------------------------------------------------------------------
(* Carts *)

RowsOf(u) == {c \in Carts : carts[c] # None /\ carts[c].user = u}

\* FindByUserID: readCache, and on a miss or an error the row.  Without a row
\* GetOrCreateCart makes one, the others answer not found.
Find(h) ==
    LET u == proc[h].req.key
    IN  /\ proc[h].pc = "find"
        /\ \/ /\ cache[u] # None
              /\ proc' = [proc EXCEPT ![h].pc = "apply", ![h].cart = cache[u]]
              /\ disturbed' = disturbed \cup Crowded(h, u)
           \/ \E c \in RowsOf(u) :
                 /\ proc' = [proc EXCEPT ![h].pc = "fill", ![h].cart = carts[c]]
                 /\ disturbed' = disturbed \cup Crowded(h, u)
           \/ /\ RowsOf(u) = {}
              /\ proc[h].req.op \in {"CreateOrGet", "AddItem"}
              /\ proc' = [proc EXCEPT ![h].pc = "save", ![h].new = TRUE,
                                      ![h].cart = Basket!NewCart(proc[h].id, u)]
              /\ disturbed' = disturbed \cup Crowded(h, u)
           \/ /\ RowsOf(u) = {}
              /\ proc[h].req.op \notin {"CreateOrGet", "AddItem"}
              /\ Answer(h, FALSE)
              /\ UNCHANGED disturbed
        /\ UNCHANGED <<carts, cache, codes, tasks, push, done, uses, arrived, faults>>

\* The answer of SET is not looked at.
writeCache(h) ==
    /\ proc[h].pc = "fill"
    /\ cache' \in {cache, [cache EXCEPT ![proc[h].req.key] = proc[h].cart]}
    /\ Goto(h, "apply")
    /\ UNCHANGED <<carts, codes, tasks, push, done, uses, disturbed, arrived, faults>>

\* The method changes the copy, or its error is the answer.
Change(h, cart) ==
    IF cart = None THEN Answer(h, FALSE)
    ELSE proc' = [proc EXCEPT ![h].pc = "save", ![h].cart = cart]

\* CreateOrGet with an item goes on with AddItem, which looks the cart up again.
CreateOrGet(h) ==
    IF proc[h].req.arg.product = None THEN Answer(h, TRUE)
    ELSE proc' = [proc EXCEPT ![h].pc = "find", ![h].req.op = "AddItem", ![h].new = FALSE,
                              ![h].cart = None, ![h].id = proc[h].cart.id]

SvcAddItem(h) == Change(h, Basket!AddItem(proc[h].cart, proc[h].req.arg.product, proc[h].req.arg.quantity))
SvcUpdateQuantity(h) ==
    Change(h, Basket!UpdateQuantity(proc[h].cart, proc[h].req.arg.product, proc[h].req.arg.quantity))
SvcRemoveItem(h) == Change(h, Basket!RemoveItem(proc[h].cart, proc[h].req.arg.product))
SvcClearCart(h) == Change(h, Basket!Clear(proc[h].cart))

\* What the service does with the cart it found.
Apply(h) ==
    LET op == proc[h].req.op
    IN  /\ proc[h].pc = "apply"
        /\ CASE op = "CreateOrGet" -> CreateOrGet(h)
             [] op = "AddItem" -> SvcAddItem(h)
             [] op = "GetCart" -> Answer(h, TRUE)
             [] op = "UpdateQuantity" -> SvcUpdateQuantity(h)
             [] op = "RemoveItem" -> SvcRemoveItem(h)
             [] op = "ClearCart" -> SvcClearCart(h)
        /\ UNCHANGED <<carts, cache, codes, tasks, push, done, uses, disturbed, arrived, faults>>

\* Mutation: a user may have two carts.
NeverTaken(cart) == FALSE

\* A second cart of one user is refused by the UNIQUE column.
Taken(cart) == \E c \in Carts \ {cart.id} : carts[c] # None /\ carts[c].user = cart.user

\* The upsert by id, which also gives the row of another user to this one.
Save(h) ==
    LET cart == proc[h].cart
        owner == IF carts[cart.id] = None THEN cart.user ELSE carts[cart.id].user
    IN  /\ proc[h].pc = "save"
        /\ IF Taken(cart) THEN Answer(h, FALSE) /\ UNCHANGED <<carts, done, disturbed>>
           ELSE /\ carts' = [carts EXCEPT ![cart.id] = cart]
                /\ Goto(h, "del")
                /\ done' = done \cup {t \in Held(h) \cap Tasks : ~proc[h].new}
                /\ disturbed' = disturbed \cup IF owner = cart.user THEN {} ELSE {owner, cart.user}
        /\ UNCHANGED <<cache, codes, tasks, push, uses, arrived, faults>>

SaveFails(h) ==
    /\ proc[h].pc = "save"
    /\ Fault
    /\ Answer(h, FALSE)
    /\ UNCHANGED <<carts, cache, codes, tasks, push, done, uses, disturbed, arrived>>

\* Save is back: of the new cart, which the service goes on with, or of the
\* changed one.
Saved(h) ==
    IF proc[h].new THEN proc' = [proc EXCEPT ![h].pc = "apply", ![h].new = FALSE]
    ELSE Answer(h, TRUE)

\* Mutation: only the copy under cart:id: is deleted.
InvalidateIdOnly(h) ==
    /\ proc[h].pc = "del"
    /\ Saved(h)
    /\ UNCHANGED <<carts, cache, codes, tasks, push, done, uses, disturbed, arrived, faults>>

\* The DEL of cart:user:, whose error is ignored.
invalidateCache(h) ==
    /\ proc[h].pc = "del"
    /\ \/ cache' = [cache EXCEPT ![proc[h].cart.user] = None] /\ UNCHANGED <<disturbed, faults>>
       \/ UNCHANGED cache /\ Fault /\ disturbed' = disturbed \cup {proc[h].cart.user}
    /\ Saved(h)
    /\ UNCHANGED <<carts, codes, tasks, push, done, uses, arrived>>

-----------------------------------------------------------------------------
(* Discount codes *)

\* The INSERT of a new id; a code that exists is refused by the UNIQUE column.
CreateCode(h) ==
    LET d == proc[h].req.key
    IN  /\ proc[h].pc = "insert"
        /\ codes' = IF codes[d] # None THEN codes
                    ELSE [codes EXCEPT ![d] = Discount!NewDiscountCode(proc[h].req.arg)]
        /\ Return(h)
        /\ UNCHANGED <<carts, cache, tasks, push, done, uses, disturbed, arrived, faults>>

\* What a request goes on to do with the code it found.  IsValid may also find
\* it expired or the purchase too small; DeactivateCode does not ask.
Purposes(op, code) ==
    CASE op = "ValidateCode" -> {"refused"}
      [] op = "ApplyCode" -> {"refused"} \cup {x \in {"increment"} : Discount!IsValid(code)}
      [] op = "DeactivateCode" -> {"deactivate"}

\* FindByCode, then IsValid.
Lookup(h) ==
    LET d == proc[h].req.key
    IN  /\ proc[h].pc = "lookup"
        /\ \E pc \in IF codes[d] = None THEN {"refused"} ELSE Purposes(proc[h].req.op, codes[d]) :
              IF pc = "refused" THEN Return(h) /\ UNCHANGED disturbed
              ELSE /\ proc' = [proc EXCEPT ![h].pc = pc, ![h].code = codes[d]]
                   /\ disturbed' = disturbed \cup Crowded(h, d)
        /\ UNCHANGED <<carts, cache, codes, tasks, push, done, uses, arrived, faults>>

\* used_count + 1 in the database: only then is the code applied.
IncrementUsage(h) ==
    LET d == proc[h].req.key
    IN  /\ proc[h].pc = "increment"
        /\ \/ /\ codes' = [codes EXCEPT ![d].used = @ + 1]
              /\ uses' = [uses EXCEPT ![d] = @ + 1]
              /\ UNCHANGED faults
           \/ Fault /\ UNCHANGED <<codes, uses>>
        /\ Return(h)
        /\ UNCHANGED <<carts, cache, tasks, push, done, disturbed, arrived>>

\* The upsert of the whole copy, used_count included.
DeactivateCode(h) ==
    /\ proc[h].pc = "deactivate"
    /\ \/ /\ codes' = [codes EXCEPT ![proc[h].req.key] = Discount!Deactivate(proc[h].code)]
          /\ UNCHANGED faults
       \/ Fault /\ UNCHANGED codes
    /\ Return(h)
    /\ UNCHANGED <<carts, cache, tasks, push, done, uses, disturbed, arrived>>

-----------------------------------------------------------------------------
(* Tasks *)

Write(h) == tasks' = [tasks EXCEPT ![proc[h].task.id] = proc[h].task]

\* SendMessage: the new task is saved as submitted; this error is the answer.
\* A task nobody has a skill for fails, the others are set to work.
Submit(h) ==
    LET m == proc[h].req.arg
        task == Agent!NewTask(CHOOSE t \in NewTasks : TRUE, m.product # None)
    IN  /\ proc[h].pc = "submit"
        /\ \/ /\ NewTasks # {}
              /\ tasks' = [tasks EXCEPT ![task.id] = task]
              /\ proc' = [proc EXCEPT
                     ![h].pc = IF m.skill = "unknown" THEN "finish" ELSE "working",
                     ![h].task = Agent!Transition(task,
                                     IF m.skill = "unknown" THEN "failed" ELSE "working")]
              /\ UNCHANGED faults
           \/ Fault /\ Return(h) /\ UNCHANGED tasks
        /\ UNCHANGED <<carts, cache, codes, push, done, uses, disturbed, arrived>>

\* cartSkillHandler.Handle: AddItem under a fresh id, one unit at least, or a
\* look at the cart.
Handle(h) ==
    LET m == proc[h].req.arg
        q == IF m.quantity <= 0 THEN 1 ELSE m.quantity
        start(op, id) ==
            proc' = [proc EXCEPT ![h].pc = "find", ![h].id = id,
                        ![h].req = Request(op, proc[h].req.key, Item(id, m.product, q))]
    IN  IF m.product = None THEN start("GetCart", None)
        ELSE \E id \in NextID : start("AddItem", id)

\* The state is saved, whatever the answer, and the skill called; skills other
\* than the cart's read and succeed or fail.
Working(h) ==
    /\ proc[h].pc = "working"
    /\ \/ Write(h) /\ UNCHANGED faults
       \/ Fault /\ UNCHANGED tasks
    /\ IF proc[h].req.arg.skill = "cart" THEN Handle(h)
       ELSE \E ok \in BOOLEAN : Answer(h, ok)
    /\ UNCHANGED <<carts, cache, codes, push, done, uses, disturbed, arrived>>

\* Mutation: the state is not looked at.
CancelTaskAnyway(h) ==
    LET t == proc[h].req.key
    IN  /\ proc[h].pc = "cancel"
        /\ IF tasks[t] # None
           THEN /\ proc' = [proc EXCEPT ![h].pc = "finish",
                                        ![h].task = [tasks[t] EXCEPT !.state = "canceled"]]
                /\ disturbed' = disturbed \cup Crowded(h, t)
           ELSE Return(h) /\ UNCHANGED disturbed
        /\ UNCHANGED <<carts, cache, codes, tasks, push, done, uses, arrived, faults>>

CancelTask(h) ==
    LET t == proc[h].req.key
    IN  /\ proc[h].pc = "cancel"
        /\ IF tasks[t] # None /\ Agent!IsCancelable(tasks[t].state)
           THEN /\ proc' = [proc EXCEPT ![h].pc = "finish",
                                        ![h].task = Agent!Transition(tasks[t], "canceled")]
                /\ disturbed' = disturbed \cup Crowded(h, t)
           ELSE Return(h) /\ UNCHANGED disturbed
        /\ UNCHANGED <<carts, cache, codes, tasks, push, done, uses, arrived, faults>>

\* The last state of the task is saved and its error ignored.
Finish(h) ==
    /\ proc[h].pc = "finish"
    /\ \/ Write(h) /\ UNCHANGED faults
       \/ Fault /\ UNCHANGED tasks
    /\ Return(h)
    /\ UNCHANGED <<carts, cache, codes, push, done, uses, disturbed, arrived>>

\* The task is looked up; the id of the configuration is a fresh one.
CreatePushConfig(h) ==
    LET c == proc[h].req.arg
    IN  /\ proc[h].pc = "pushfind"
        /\ push' = IF tasks[proc[h].req.key] = None \/ push[c] # None THEN push
                   ELSE [push EXCEPT ![c] = proc[h].req.key]
        /\ Return(h)
        /\ UNCHANGED <<carts, cache, codes, tasks, done, uses, disturbed, arrived, faults>>

DeletePushConfig(h) ==
    /\ proc[h].pc = "pushdelete"
    /\ push' = [push EXCEPT ![proc[h].req.key] = None]
    /\ Return(h)
    /\ UNCHANGED <<carts, cache, codes, tasks, done, uses, disturbed, arrived, faults>>

\* The server dies: nothing takes up a task it was at, and a DEL it owed is
\* never made.
Crash(h) ==
    /\ proc[h].pc # "idle"
    /\ Fault
    /\ Return(h)
    /\ disturbed' = disturbed \cup IF proc[h].pc = "del" THEN {proc[h].cart.user} ELSE {}
    /\ UNCHANGED <<carts, cache, codes, tasks, push, done, uses, arrived>>

CartStep(h) == Find(h) \/ writeCache(h) \/ Apply(h) \/ Save(h) \/ SaveFails(h) \/ invalidateCache(h)
DiscountStep(h) == CreateCode(h) \/ Lookup(h) \/ IncrementUsage(h) \/ DeactivateCode(h)
TaskStep(h) ==
    Submit(h) \/ Working(h) \/ CancelTask(h) \/ Finish(h) \/ CreatePushConfig(h) \/ DeletePushConfig(h)

Next == \E h \in Handlers : Arrive(h) \/ CartStep(h) \/ DiscountStep(h) \/ TaskStep(h) \/ Crash(h)

Spec == Init /\ [][Next]_vars

-----------------------------------------------------------------------------
(* Properties *)

\* Rows are under their id, a user has one cart at most, a copy is under the
\* user it belongs to, and a push configuration names a task.
TypeOK ==
    /\ \A c \in Carts : carts[c] # None => carts[c] \in Cart /\ carts[c].id = c
    /\ \A u \in Users : Cardinality(RowsOf(u)) <= 1
    /\ \A u \in Users : cache[u] # None => cache[u] \in Cart /\ cache[u].user = u
    /\ \A d \in Codes : codes[d] # None => codes[d] \in Code
    /\ \A t \in Tasks : tasks[t] # None => tasks[t] \in Task /\ tasks[t].id = t
    /\ \A c \in PushConfigs : push[c] # None => tasks[push[c]] # None
    /\ disturbed \subseteq Users \cup Codes \cup Tasks

ItemsOf(u) ==
    IF RowsOf(u) = {} THEN Basket!Empty ELSE carts[CHOOSE c \in RowsOf(u) : TRUE].items

AsAsked(req, before, after) ==
    LET p == req.arg.product
    IN  CASE req.op = "AddItem" -> after = [before EXCEPT ![p] = @ + req.arg.quantity]
          [] req.op = "UpdateQuantity" -> after = [before EXCEPT ![p] = req.arg.quantity]
          [] req.op = "RemoveItem" -> after = [before EXCEPT ![p] = 0]
          [] req.op = "ClearCart" -> after = Basket!Empty
          [] OTHER -> FALSE

\* Whole-row saves of copies: what a user has in the cart changes only by a
\* request of that user and then as the request says, unless two handlers were
\* at the cart at once, a DEL was lost or the cart changed hands.
CartChangesAsAsked ==
    [][\A u \in Users \ disturbed' :
          \/ ItemsOf(u)' = ItemsOf(u)
          \/ \E h \in Handlers : /\ proc[h].pc = "save" /\ proc'[h].pc = "del"
                                 /\ proc[h].req.key = u
                                 /\ AsAsked(proc[h].req, ItemsOf(u), ItemsOf(u)')]_vars

\* MaxUsages and used_count: a code is applied at most as often as its limit
\* says and used_count tells how often, unless two handlers were at it at once.
UsageIsCounted ==
    \A d \in Codes \ disturbed : codes[d] # None =>
        /\ codes[d].used = uses[d]
        /\ codes[d].max > 0 => uses[d] <= codes[d].max

\* What tasks/get tells an agent: a completed task has added its item, a failed
\* one has not, whatever else was going on.
TaskTellsTheTruth ==
    \A t \in Tasks : tasks[t] # None /\ tasks[t].adds =>
        /\ tasks[t].state = "completed" => t \in done
        /\ tasks[t].state = "failed" => t \notin done

\* "task is already in terminal state": the row of a task that has ended stays
\* as it is, unless a cancel met the message that was at work on it.
TaskEndsOnce ==
    [][\A t \in Tasks \ disturbed' :
          tasks[t] # None /\ Agent!IsTerminal(tasks[t].state) => tasks'[t] = tasks[t]]_vars

===============================================================================
