------------------------------- MODULE Accounts -------------------------------
(***************************************************************************)
(* Users, password resets and OAuth tokens: domain/identity and            *)
(* domain/oauth, their repositories and the REST, MCP and admin handlers.  *)
(*                                                                         *)
(* A user has two copies in Redis, under its id and under its email.  Each *)
(* read that misses writes both, each save deletes both, one command at a  *)
(* time.  A reset token, an authorization code and a refresh token are     *)
(* looked up in one statement and spent in another.                        *)
(*                                                                         *)
(* The clock is not modelled: any look at an expiry may find it passed.    *)
(* There is one OAuth client, the one main.go seeds; a request it refuses  *)
(* (secret, redirect, scope) changes nothing and does not arrive.          *)
(***************************************************************************)
EXTENDS Integers, Sequences, FiniteSets

CONSTANTS
    Users, Emails, Passwords, ResetTokens, Codes, RefreshTokens, None,
    Handlers,      \* request handlers, on any replica
    Lower,         \* strings.ToLower on Emails
    InitialRows,   \* what the tables may hold at first: [users, secrets]
    MaxRequests,   \* bound: requests that arrive
    MaxFaults      \* bound: commands that fail, handlers that die

Secrets == ResetTokens \cup Codes \cup RefreshTokens

ASSUME AccountsAssumption ==
    /\ Lower \in [Emails -> Emails]
    /\ \A e \in Emails : Lower[Lower[e]] = Lower[e]
    /\ None \notin Users \cup Emails \cup Secrets
    /\ Users \cap Emails = {}
    /\ (Users \cup Emails) \cap Secrets = {}
    /\ ResetTokens \cap Codes = {}
    /\ (ResetTokens \cup Codes) \cap RefreshTokens = {}
    /\ MaxRequests \in Nat /\ MaxFaults \in Nat

User == [id : Users, email : Emails, password : Passwords, status : {"active", "suspended"}]

Secret == [state : {"new", "live", "spent"}, user : Users \cup {None}]

\* Rows are under their id, emails in lower case, and a secret there is has a
\* user.
ASSUME RowsAssumption ==
    /\ None \notin User
    /\ \A r \in InitialRows :
          /\ r.users \in [Users -> User \cup {None}]
          /\ \A u \in Users : r.users[u] # None =>
                r.users[u].id = u /\ r.users[u].email = Lower[r.users[u].email]
          /\ r.secrets \in [Secrets -> Secret]
          /\ \A x \in Secrets : r.secrets[x].state # "new" => r.secrets[x].user \in Users

VARIABLES
    row,       \* the users table, None where there is no row
    cache,     \* the copies in Redis, by id and by email
    secret,    \* the token tables: [state, user], the user of the row
    proc,      \* what each handler is doing
    uses,      \* how often a secret took effect (history)
    admitted,  \* users Login let in against what their row said (history)
    disturbed, \* users and secrets two handlers were at once at, or whose
               \* copy or mark a fault left behind
    arrived, faults

vars == <<row, cache, secret, proc, uses, admitted, disturbed, arrived, faults>>

-----------------------------------------------------------------------------
(* domain/identity/user.go: methods return None for an error *)

\* Mutation: the email is kept as it was typed.
NewUserAsTyped(u, email, password) ==
    [id |-> u, email |-> email, password |-> password, status |-> "active"]

NewUser(u, email, password) ==
    [id |-> u, email |-> Lower[email], password |-> password, status |-> "active"]

Suspend(user) ==
    IF user.status = "suspended" THEN None ELSE [user EXCEPT !.status = "suspended"]

Activate(user) ==
    IF user.status = "active" THEN None ELSE [user EXCEPT !.status = "active"]

ChangePassword(user, password) == [user EXCEPT !.password = password]

-----------------------------------------------------------------------------
(* Interfaces: the requests that may arrive *)

Request(op, key, arg) == [op |-> op, key |-> key, arg |-> arg]

Requests(op, keys, args) == {Request(op, k, a) : k \in keys, a \in args}

Issued(S) == {x \in S : secret[x].state # "new"}

RestRegister == Requests("Register", Emails, {u \in Users : row[u] = None} \X Passwords)
McpRegister == RestRegister
RestLogin == Requests("Login", Emails, Passwords)
McpLogin == RestLogin
RestGetUser == Requests("GetUser", Users, {None})
McpGetUser == RestGetUser
RestSuspendUser == Requests("SuspendUser", Users, {None})
McpSuspendUser == RestSuspendUser
AdminActivateUser == Requests("ActivateUser", Users, {None})
AdminMcpActivateUser == AdminActivateUser
RestRequestPasswordReset == Requests("RequestPasswordReset", Emails, {None})
RestResetPassword == Requests("ResetPassword", Issued(ResetTokens), Passwords)
RestAuthorize == Requests("Authorize", Users, {None})
McpAuthorize == RestAuthorize
\* The two grant types of the token endpoint.
RestToken ==
    Requests("Exchange", Issued(Codes), {None})
    \cup Requests("Refresh", Issued(RefreshTokens), {None})
McpToken == RestToken
RestRevoke == Requests("Revoke", Issued(RefreshTokens), {None})
McpRevoke == RestRevoke

Routes ==
    RestRegister \cup RestLogin \cup RestGetUser \cup RestSuspendUser
    \cup RestRequestPasswordReset \cup RestResetPassword \cup RestAuthorize
    \cup RestToken \cup RestRevoke \cup AdminActivateUser

IdentityTools == McpRegister \cup McpLogin \cup McpGetUser \cup McpSuspendUser
OAuthTools == McpAuthorize \cup McpToken \cup McpRevoke

\* Where a request starts.
Entry(op) ==
    CASE op \in {"Register", "Login", "GetUser", "SuspendUser", "ActivateUser",
                 "RequestPasswordReset"} -> "find"
      [] op \in {"ResetPassword", "Exchange", "Refresh"} -> "lookup"
      [] op = "Authorize" -> "issue"
      [] op = "Revoke" -> "spend"

-----------------------------------------------------------------------------
(* The steps of a handler *)

Idle == [pc |-> "idle", req |-> Request("none", None, None),
         copy |-> None,   \* the user in memory
         keys |-> <<>>,   \* Redis commands still to send
         token |-> None]  \* the secret in memory

Init ==
    /\ \E rows \in InitialRows : row = rows.users /\ secret = rows.secrets
    /\ cache = [k \in Users \cup Emails |-> None]
    /\ proc = [h \in Handlers |-> Idle]
    /\ uses = [x \in Secrets |-> 0]
    /\ admitted = {}
    /\ disturbed = {}
    /\ arrived = 0
    /\ faults = 0

Fault == faults < MaxFaults /\ faults' = faults + 1

Goto(h, pc) == proc' = [proc EXCEPT ![h].pc = pc]
Return(h) == proc' = [proc EXCEPT ![h] = Idle]

\* Users with a copy in memory, secrets between their lookup and their end.
Held(h) == ({proc[h].token} \cup {u \in Users : proc[h].copy # None /\ proc[h].copy.id = u}) \ {None}

Crowded(h, x) == {y \in {x} : \E g \in Handlers \ {h} : y \in Held(g)}

\* Fresh ids, by the snowflake and by crypto/rand.
Unclaimed(r) ==
    r.op = "Register" => \A g \in Handlers : proc[g].req.op = "Register" => proc[g].req.arg[1] # r.arg[1]

Arrive(h) ==
    /\ proc[h].pc = "idle"
    /\ arrived < MaxRequests
    /\ \E r \in Routes \cup IdentityTools \cup OAuthTools \cup AdminMcpActivateUser :
          /\ Unclaimed(r)
          /\ proc' = [proc EXCEPT ![h] = [Idle EXCEPT !.pc = Entry(r.op), !.req = r]]
    /\ arrived' = arrived + 1
    /\ UNCHANGED <<row, cache, secret, uses, admitted, disturbed, faults>>

\* FindByID looks for token.UserID or the id of the path, FindByEmail for the
\* email as it was typed.
Wanted(h) == IF proc[h].token # None THEN secret[proc[h].token].user ELSE proc[h].req.key

Matches(key) == {u \in Users : row[u] # None /\ key \in {u, row[u].email}}

NotFound(h) == IF proc[h].req.op = "Register" THEN Goto(h, "apply") ELSE Return(h)

\* readCache, and on a miss or an error the row.
Find(h) ==
    /\ proc[h].pc = "find"
    /\ \/ /\ cache[Wanted(h)] # None
          /\ proc' = [proc EXCEPT ![h].pc = "apply", ![h].copy = cache[Wanted(h)]]
          /\ disturbed' = disturbed \cup Crowded(h, cache[Wanted(h)].id)
       \/ \E u \in Matches(Wanted(h)) :
             /\ proc' = [proc EXCEPT ![h].pc = "fill", ![h].copy = row[u],
                                     ![h].keys = <<u, row[u].email>>]
             /\ disturbed' = disturbed \cup Crowded(h, u)
       \/ Matches(Wanted(h)) = {} /\ NotFound(h) /\ UNCHANGED disturbed
    /\ UNCHANGED <<row, cache, secret, uses, admitted, arrived, faults>>

\* writeCache under both keys, whatever the answer of Redis.
writeCache(h) ==
    /\ proc[h].pc = "fill"
    /\ cache' \in {cache, [cache EXCEPT ![Head(proc[h].keys)] = proc[h].copy]}
    /\ proc' = [proc EXCEPT ![h].keys = Tail(@),
                            ![h].pc = IF Len(proc[h].keys) = 1 THEN "apply" ELSE "fill"]
    /\ UNCHANGED <<row, secret, uses, admitted, disturbed, arrived, faults>>

Register(h) ==
    IF proc[h].copy # None THEN Return(h)
    ELSE proc' = [proc EXCEPT ![h].pc = "save",
             ![h].copy = NewUser(proc[h].req.arg[1], proc[h].req.key, proc[h].req.arg[2])]

\* VerifyPassword, then the status.
MayLogin(user, password) == user.password = password /\ user.status # "suspended"

\* The method changes the copy, or its error ends the request.
Change(h, copy) ==
    IF copy = None THEN Return(h)
    ELSE proc' = [proc EXCEPT ![h].pc = "save", ![h].copy = copy]

SuspendUser(h) == Change(h, Suspend(proc[h].copy))
ActivateUser(h) == Change(h, Activate(proc[h].copy))
ResetPassword(h) == Change(h, ChangePassword(proc[h].copy, proc[h].req.arg))

\* What the service does with the user it found.
Apply(h) ==
    LET op == proc[h].req.op
        copy == proc[h].copy
    IN  /\ proc[h].pc = "apply"
        /\ CASE op = "Register" -> Register(h)
             [] op \in {"Login", "GetUser"} -> Return(h)
             [] op = "SuspendUser" -> SuspendUser(h)
             [] op = "ActivateUser" -> ActivateUser(h)
             [] op = "RequestPasswordReset" -> Goto(h, "issue")
             [] op = "ResetPassword" -> ResetPassword(h)
        /\ admitted' = admitted \cup
               {u \in Users : /\ op = "Login" /\ copy.id = u
                              /\ MayLogin(copy, proc[h].req.arg)
                              /\ ~MayLogin(row[u], proc[h].req.arg)}
        /\ UNCHANGED <<row, cache, secret, uses, disturbed, arrived, faults>>

\* Mutation: Save deletes the copy under the id only.
KeysWithoutEmail(user) == <<user.id>>

\* Mutation: Save deletes the copy under the email only.
KeysWithoutId(user) == <<user.email>>

invalidatedKeys(user) == <<user.id, user.email>>

\* Two rows of one email are refused by the UNIQUE column.
Taken(user) == \E v \in Users \ {user.id} : row[v] # None /\ row[v].email = user.email

\* The upsert of the whole user row.
Save(h) ==
    LET user == proc[h].copy
    IN  /\ proc[h].pc = "save"
        /\ IF Taken(user) THEN Return(h) /\ UNCHANGED <<row, uses>>
           ELSE /\ row' = [row EXCEPT ![user.id] = user]
                /\ uses' = [x \in Secrets |-> uses[x] + IF x = proc[h].token THEN 1 ELSE 0]
                /\ proc' = [proc EXCEPT ![h].pc = "del", ![h].keys = invalidatedKeys(user)]
        /\ UNCHANGED <<cache, secret, admitted, disturbed, arrived, faults>>

SaveFails(h) ==
    /\ proc[h].pc = "save"
    /\ Fault
    /\ Return(h)
    /\ UNCHANGED <<row, cache, secret, uses, admitted, disturbed, arrived>>

\* One DEL, whose error is ignored; after the last the request goes on.
invalidateCache(h) ==
    /\ proc[h].pc = "del"
    /\ \/ /\ cache' = [cache EXCEPT ![Head(proc[h].keys)] = None]
          /\ UNCHANGED <<disturbed, faults>>
       \/ UNCHANGED cache /\ Fault /\ disturbed' = disturbed \cup Held(h)
    /\ IF Len(proc[h].keys) > 1 THEN proc' = [proc EXCEPT ![h].keys = Tail(@)]
       ELSE IF proc[h].req.op = "ResetPassword" THEN Goto(h, "spend")
       ELSE Return(h)
    /\ UNCHANGED <<row, secret, uses, admitted, arrived>>

\* FindByHash, FindByCode, FindByID of a refresh token: used, deleted, revoked
\* or expired ones are refused.
Lookup(h) ==
    LET x == proc[h].req.key
    IN  /\ proc[h].pc = "lookup"
        /\ \/ /\ secret[x].state = "live"
              /\ proc' = [proc EXCEPT ![h].token = x,
                     ![h].pc = IF x \in ResetTokens THEN "find" ELSE "spend"]
              /\ disturbed' = disturbed \cup Crowded(h, x)
           \/ Return(h) /\ UNCHANGED disturbed
        /\ UNCHANGED <<row, cache, secret, uses, admitted, arrived, faults>>

\* Mutation: a refresh leaves the token it was given.
SpentUnlessRefreshed(h) ==
    IF proc[h].req.op = "Refresh" THEN secret
    ELSE [secret EXCEPT ![proc[h].req.key].state = "spent"]

\* DELETE of the code, UPDATE of the refresh or the reset token.
Spent(h) == [secret EXCEPT ![proc[h].req.key].state = "spent"]

\* A failed DELETE or UPDATE is logged or ignored by Exchange and Refresh; in
\* ResetPassword and Revoke it is the answer.
Spend(h) ==
    /\ proc[h].pc = "spend"
    /\ \/ secret' = Spent(h) /\ UNCHANGED <<disturbed, faults>>
       \/ UNCHANGED secret /\ Fault /\ disturbed' = disturbed \cup {proc[h].req.key}
    /\ IF proc[h].req.op \in {"Exchange", "Refresh"} THEN Goto(h, "issue") ELSE Return(h)
    /\ UNCHANGED <<row, cache, uses, admitted, arrived>>

\* The table a new secret goes to, and its user.
Table(op) ==
    CASE op = "RequestPasswordReset" -> ResetTokens
      [] op = "Authorize" -> Codes
      [] op \in {"Exchange", "Refresh"} -> RefreshTokens

Owner(h) ==
    CASE proc[h].req.op = "RequestPasswordReset" -> proc[h].copy.id
      [] proc[h].req.op = "Authorize" -> proc[h].req.key
      [] proc[h].req.op \in {"Exchange", "Refresh"} -> secret[proc[h].token].user

\* Authorize looks up no user: the id of the request is the user's.
Issue(h) ==
    LET free == Table(proc[h].req.op) \ Issued(Secrets)
    IN  /\ proc[h].pc = "issue"
        /\ \/ /\ free # {}
              /\ secret' = [secret EXCEPT ![CHOOSE x \in free : TRUE] =
                                             [state |-> "live", user |-> Owner(h)]]
              /\ uses' = [x \in Secrets |-> uses[x] + IF x = proc[h].token THEN 1 ELSE 0]
              /\ UNCHANGED faults
           \/ Fault /\ UNCHANGED <<secret, uses>>
        /\ Return(h)
        /\ UNCHANGED <<row, cache, admitted, disturbed, arrived>>

\* The server dies: a DEL or a mark it owed is never made.
Crash(h) ==
    /\ proc[h].pc # "idle"
    /\ Fault
    /\ Return(h)
    /\ disturbed' = disturbed \cup
           (IF proc[h].pc = "del" \/ (proc[h].pc = "spend" /\ proc[h].req.op = "ResetPassword")
            THEN Held(h) ELSE {})
    /\ UNCHANGED <<row, cache, secret, uses, admitted, arrived>>

Next ==
    \E h \in Handlers :
        \/ Arrive(h) \/ Find(h) \/ writeCache(h) \/ Apply(h) \/ Save(h) \/ SaveFails(h)
        \/ invalidateCache(h) \/ Lookup(h) \/ Spend(h) \/ Issue(h) \/ Crash(h)

Spec == Init /\ [][Next]_vars

-----------------------------------------------------------------------------
(* Properties *)

\* Rows hold users under their id with an email in lower case, copies are
\* under a key of their user, and nobody has a secret that was not issued.
TypeOK ==
    /\ \A u \in Users : row[u] # None =>
           row[u] \in User /\ row[u].id = u /\ row[u].email = Lower[row[u].email]
    /\ \A k \in Users \cup Emails : cache[k] # None =>
           cache[k] \in User /\ k \in {cache[k].id, cache[k].email}
    /\ \A h \in Handlers : proc[h].token # None => proc[h].token \in Issued(Secrets)
    /\ disturbed \subseteq Users \cup Secrets

\* "already used", "revoked": a reset token sets one password, a code and a
\* refresh token give one new token - unless two requests held it at once or
\* the statement that spends it was lost.
SpentOnce == \A x \in Secrets \ disturbed : uses[x] <= 1

\* Login and the copies behind it: nobody logs in who is suspended or has
\* another password by then, unless two handlers were at the user at once or a
\* DEL was lost.
LoginSeesTheRow == admitted \subseteq disturbed

\* Whole-row saves of copies: the status of a user who is not disturbed is
\* changed by SuspendUser and ActivateUser only, the password by ResetPassword
\* only.
ChangedAsAsked ==
    [][\A u \in Users \ disturbed : \A h \in Handlers :
          row[u] # None /\ proc[h].pc = "save" /\ proc'[h].pc = "del" /\ proc[h].copy.id = u =>
              /\ row'[u].status # row[u].status => proc[h].req.op \in {"SuspendUser", "ActivateUser"}
              /\ row'[u].password # row[u].password => proc[h].req.op = "ResetPassword"]_vars

=============================================================================
