---------------------------- MODULE AccountsProofs ----------------------------
(***************************************************************************)
(* Accounts' safety properties for any users, emails, secrets and handlers *)
(* and any number of faults.                                               *)
(*                                                                         *)
(* The properties speak of users and secrets nobody disturbed.  Of such a  *)
(* user one handler at most has a copy, the copy is the row until the      *)
(* service changes it, and Redis has the row too, or nothing, or a key     *)
(* whose DEL is still to come (UserCalm).  Of such a secret one request at *)
(* most is between lookup and end, and it has taken effect only if it is   *)
(* spent or about to be (SecretCalm).  What holds of every user: an email  *)
(* never changes and the id of a new user is nobody else's (ProcsOK).      *)
(***************************************************************************)
EXTENDS Accounts, TLAPS

Reads ==
    {"Register", "Login", "GetUser", "SuspendUser", "ActivateUser", "RequestPasswordReset"}

Writes == {"Register", "SuspendUser", "ActivateUser", "ResetPassword"}

Spends == {"ResetPassword", "Exchange", "Refresh"}

Issues == {"RequestPasswordReset", "Authorize", "Exchange", "Refresh"}

AllRequests ==
    [op: Reads \cup Spends \cup {"Authorize", "Revoke", "none"},
     key: Users \cup Emails \cup Secrets \cup {None},
     arg: {None} \cup Passwords \cup (Users \X Passwords)]

ReqOK(r) ==
    /\ r \in AllRequests
    /\ r.op # "none"
    /\ r.op \in Reads => r.key \in Users \cup Emails
    /\ r.op = "Register" => r.key \in Emails /\ r.arg \in Users \X Passwords
    /\ r.op = "ResetPassword" => r.key \in ResetTokens /\ r.arg \in Passwords
    /\ r.op = "Exchange" => r.key \in Codes
    /\ r.op \in {"Refresh", "Revoke"} => r.key \in RefreshTokens
    /\ r.op = "Authorize" => r.key \in Users

ProcRecord ==
    [pc: {"idle", "find", "fill", "apply", "save", "del", "lookup", "spend", "issue"},
     req: AllRequests, copy: User \cup {None}, keys: Seq(Users \cup Emails),
     token: Secrets \cup {None}]

\* A copy of a user there is, under the email the row rw has.
Known(c, rw) ==
    /\ c \in User
    /\ rw[c.id] # None
    /\ rw[c.id].email = c.email

\* The user in memory is one that is being registered.
New(q) == q.pc = "save" /\ q.req.op = "Register"

\* Where a request of a kind may be.
PlaceOK(q) ==
    /\ q.pc = "idle" => q = Idle
    /\ q.pc # "idle" => ReqOK(q.req)
    /\ q.pc \in {"find", "fill", "apply"} => q.req.op \in Reads \cup {"ResetPassword"}
    /\ q.pc \in {"save", "del"} => q.req.op \in Writes
    /\ q.pc = "lookup" => q.req.op \in Spends
    /\ q.pc = "spend" => q.req.op \in Spends \cup {"Revoke"}
    /\ q.pc = "issue" => q.req.op \in Issues
    /\ q.token = IF q.pc # "lookup" /\ q.req.op \in Spends THEN q.req.key ELSE None

\* When it has a user in memory, and what is still to be sent to Redis.
CopyOK(q) ==
    /\ q.pc \in {"find", "lookup"} => q.copy = None
    /\ q.pc \in {"fill", "save", "del"} => q.copy # None
    /\ q.pc = "apply" /\ q.req.op # "Register" => q.copy # None
    /\ q.pc = "issue" /\ q.req.op = "RequestPasswordReset" => q.copy # None
    /\ q.copy # None => q.copy.email = Lower[q.copy.email]
    /\ q.pc \in {"fill", "del"} =>
          q.keys \in {<<q.copy.id, q.copy.email>>, <<q.copy.email>>}

\* rw are the users' rows, sc the secrets'.
ProcOK(q, rw, sc) ==
    /\ q \in ProcRecord
    /\ PlaceOK(q)
    /\ CopyOK(q)
    /\ q.req.op \in Spends \cup {"Revoke"} => sc[q.req.key].state # "new"
    /\ q.copy # None => Known(q.copy, rw) \/ (New(q) /\ q.copy.id = q.req.arg[1])
    /\ q.req.op = "Register" /\ q.pc \in {"find", "fill", "apply", "save"} =>
          rw[q.req.arg[1]] = None

RowsOK ==
    /\ row \in [Users -> User \cup {None}]
    /\ \A u \in Users : row[u] # None =>
          row[u].id = u /\ row[u].email = Lower[row[u].email]
    /\ cache \in [Users \cup Emails -> User \cup {None}]
    /\ \A k \in Users \cup Emails : cache[k] # None =>
          Known(cache[k], row) /\ k \in {cache[k].id, cache[k].email}

SecretsOK ==
    /\ secret \in [Secrets -> Secret]
    /\ \A x \in Secrets : secret[x].state # "new" => secret[x].user \in Users
    /\ uses \in [Secrets -> Nat]

\* q and r register the same id.
Rivals(q, r) ==
    q.req.op = "Register" /\ r.req.op = "Register" /\ q.req.arg[1] = r.req.arg[1]

ProcsOK ==
    /\ proc \in [Handlers -> ProcRecord]
    /\ \A h \in Handlers : ProcOK(proc[h], row, secret)
    /\ \A g, h \in Handlers : Rivals(proc[g], proc[h]) => g = h

HistoryOK == disturbed \subseteq Users \cup Secrets /\ admitted \subseteq disturbed

At(q, u) == q.copy # None /\ q.copy.id = u

\* The DEL of key k is still to come.
Owes(q, k) == q.pc = "del" /\ (k = q.copy.email \/ Len(q.keys) = 2)

\* What a copy of user u is, r being the row.
UserProc(q, u, r) ==
    At(q, u) =>
        /\ q.pc \in {"fill", "apply"} => q.copy = r
        /\ q.pc = "save" /\ r # None =>
              /\ q.copy.status # r.status => q.req.op \in {"SuspendUser", "ActivateUser"}
              /\ q.copy.password # r.password => q.req.op = "ResetPassword"

UserCalm(u) ==
    /\ \A g, h \in Handlers : At(proc[g], u) /\ At(proc[h], u) => g = h
    /\ \A h \in Handlers : UserProc(proc[h], u, row[u])
    /\ \A k \in Users \cup Emails : cache[k] # None /\ cache[k].id = u =>
          cache[k] = row[u] \/ \E h \in Handlers : At(proc[h], u) /\ Owes(proc[h], k)

\* The secret has set a password and is about to be spent.
Owing(q) == q.req.op = "ResetPassword" /\ q.pc \in {"del", "spend"}

SecretProc(q, x, n, s) ==
    q.token = x => /\ ~Owing(q) => n = 0
                   /\ q.pc = "issue" => s = "spent"

SecretCalm(x) ==
    /\ \A g, h \in Handlers : proc[g].token = x /\ proc[h].token = x => g = h
    /\ uses[x] <= 1
    /\ uses[x] # 0 => \/ secret[x].state = "spent"
                      \/ \E h \in Handlers : proc[h].token = x /\ Owing(proc[h])
    /\ \A h \in Handlers : SecretProc(proc[h], x, uses[x], secret[x].state)

IInv ==
    /\ RowsOK
    /\ SecretsOK
    /\ ProcsOK
    /\ HistoryOK
    /\ \A u \in Users \ disturbed : UserCalm(u)
    /\ \A x \in Secrets \ disturbed : SecretCalm(x)

-----------------------------------------------------------------------------
(* One handler moves on *)

\* The two lists of keys there are.
LEMMA Lists ==
    ASSUME NEW a \in Users \cup Emails, NEW b \in Users \cup Emails
    PROVE  /\ <<a, b>> \in Seq(Users \cup Emails) /\ <<b>> \in Seq(Users \cup Emails)
           /\ Len(<<a, b>>) = 2 /\ Len(<<b>>) = 1
           /\ Head(<<a, b>>) = a /\ Head(<<b>>) = b
           /\ Tail(<<a, b>>) = <<b>> /\ Tail(<<b>>) = <<>>
OBVIOUS

\* At rest a handler has nothing in memory.
LEMMA IdleOK ==
    /\ Idle \in ProcRecord /\ Idle.pc = "idle" /\ Idle.copy = None /\ Idle.token = None
    /\ Idle.req.op = "none"
    /\ \A rw, sc : ProcOK(Idle, rw, sc)
<1>1. /\ Idle \in ProcRecord /\ Idle.pc = "idle" /\ Idle.copy = None /\ Idle.token = None
      /\ Idle.req.op = "none"
  BY DEF Idle, Request, ProcRecord, AllRequests
<1>2. PICK q : q = Idle
  OBVIOUS
<1>3. \A rw, sc : ProcOK(q, rw, sc)
  BY <1>1, <1>2 DEF ProcOK, PlaceOK, CopyOK, Spends
<1> QED BY <1>1, <1>2, <1>3

\* What a handler knows stays true when rows and secrets only grow.
LEMMA ProcStable ==
    ASSUME NEW q, NEW rw, NEW sc, NEW rw2, NEW sc2, ProcOK(q, rw, sc),
           \A u \in Users : rw[u] # None => rw2[u] # None /\ rw2[u].email = rw[u].email,
           \A x \in Secrets : sc[x].state # "new" => sc2[x].state # "new",
           q.req.op = "Register" /\ q.pc \in {"find", "fill", "apply", "save"} =>
              rw2[q.req.arg[1]] = None
    PROVE  ProcOK(q, rw2, sc2)
<1>1. q.req.op \in Spends \cup {"Revoke"} => q.req.key \in Secrets
  BY DEF ProcOK, PlaceOK, ReqOK, Spends, Idle, Request, Secrets
<1>2. q.copy # None /\ Known(q.copy, rw) => Known(q.copy, rw2)
  BY DEF Known, User
<1> QED BY <1>1, <1>2 DEF ProcOK

\* One handler moves on to q.
LEMMA ProcStep ==
    ASSUME IInv, NEW h \in Handlers, NEW q, proc' = [proc EXCEPT ![h] = q],
           ProcOK(q, row', secret'),
           \A g \in Handlers \ {h} : ~Rivals(proc[g], q),
           \A u \in Users : row[u] # None => row'[u] # None /\ row'[u].email = row[u].email,
           \A x \in Secrets : secret[x].state # "new" => secret'[x].state # "new",
           \A g \in Handlers \ {h} :
              proc[g].req.op = "Register" /\ proc[g].pc \in {"find", "fill", "apply", "save"} =>
                 row'[proc[g].req.arg[1]] = None
    PROVE  ProcsOK'
<1>1. /\ proc' \in [Handlers -> ProcRecord]
      /\ \A g \in Handlers : proc'[g] = IF g = h THEN q ELSE proc[g]
  BY DEF IInv, ProcsOK, ProcOK
<1>2. ASSUME NEW g \in Handlers PROVE ProcOK(proc'[g], row', secret')
  <2>1. CASE g = h
    BY <1>1, <2>1
  <2>2. CASE g # h
    <3>1. ProcOK(proc[g], row, secret)
      BY DEF IInv, ProcsOK
    <3> QED BY <1>1, <2>2, <3>1, ProcStable
  <2> QED BY <2>1, <2>2
<1>3. \A f, g \in Handlers : Rivals(proc'[f], proc'[g]) => f = g
  BY <1>1 DEF IInv, ProcsOK, Rivals
<1> QED BY <1>1, <1>2, <1>3 DEF ProcsOK

\* A user nobody disturbs stays calm when h moves on to q.
UserSafe(h, q, u) ==
    /\ UserProc(q, u, row[u])
    /\ At(q, u) /\ ~At(proc[h], u) => \A g \in Handlers \ {h} : ~At(proc[g], u)

\* A step that leaves a user's row alone keeps the caches honest about it.
LEMMA UserStep ==
    ASSUME IInv, NEW u \in Users \ disturbed, NEW h \in Handlers, NEW q,
           proc' = [proc EXCEPT ![h] = q], UserSafe(h, q, u), row'[u] = row[u],
           \A k \in Users \cup Emails : cache'[k] # None /\ cache'[k].id = u =>
              \/ cache'[k] = row[u]
              \/ /\ cache'[k] = cache[k]
                 /\ At(proc[h], u) /\ Owes(proc[h], k) => At(q, u) /\ Owes(q, k)
    PROVE  UserCalm(u)'
<1>1. \A g \in Handlers : proc'[g] = IF g = h THEN q ELSE proc[g]
  BY DEF IInv, ProcsOK
<1>2. UserCalm(u)
  BY DEF IInv
<1>3. \A f, g \in Handlers : At(proc'[f], u) /\ At(proc'[g], u) => f = g
  BY <1>1, <1>2 DEF UserCalm, UserSafe
<1>4. \A g \in Handlers : UserProc(proc'[g], u, row'[u])
  BY <1>1, <1>2 DEF UserCalm, UserSafe
<1>5. ASSUME NEW k \in Users \cup Emails, cache'[k] # None, cache'[k].id = u
      PROVE  cache'[k] = row[u] \/ \E g \in Handlers : At(proc'[g], u) /\ Owes(proc'[g], k)
  <2>1. CASE cache'[k] = row[u]
    BY <2>1
  <2>2. CASE /\ cache'[k] = cache[k] /\ cache[k] # row[u]
             /\ At(proc[h], u) /\ Owes(proc[h], k) => At(q, u) /\ Owes(q, k)
    <3>1. PICK g \in Handlers : At(proc[g], u) /\ Owes(proc[g], k)
      BY <1>2, <1>5, <2>2 DEF UserCalm
    <3> QED BY <1>1, <2>2, <3>1
  <2> QED BY <1>5, <2>1, <2>2
<1> QED BY <1>3, <1>4, <1>5 DEF UserCalm

\* A secret nobody disturbs stays calm when h moves on to q and leaves its
\* state at s.
SecretSafe(h, q, x, s) ==
    /\ SecretProc(q, x, uses[x], s)
    /\ q.token = x /\ proc[h].token # x => \A g \in Handlers \ {h} : proc[g].token # x
    /\ proc[h].token = x /\ Owing(proc[h]) => (q.token = x /\ Owing(q)) \/ s = "spent"

\* A step that does not use a secret keeps the count of its uses in line with its state.
LEMMA SecretStep ==
    ASSUME IInv, NEW x \in Secrets \ disturbed, NEW h \in Handlers, NEW q,
           proc' = [proc EXCEPT ![h] = q], SecretSafe(h, q, x, secret'[x].state),
           uses'[x] = uses[x], secret[x].state = "spent" => secret'[x].state = "spent"
    PROVE  SecretCalm(x)'
<1>1. \A g \in Handlers : proc'[g] = IF g = h THEN q ELSE proc[g]
  BY DEF IInv, ProcsOK
<1>2. SecretCalm(x)
  BY DEF IInv
<1>3. \A f, g \in Handlers : proc'[f].token = x /\ proc'[g].token = x => f = g
  BY <1>1, <1>2 DEF SecretCalm, SecretSafe
<1>4. \A g \in Handlers : SecretProc(proc'[g], x, uses'[x], secret'[x].state)
  BY <1>1, <1>2 DEF SecretCalm, SecretSafe, SecretProc
<1>5. uses[x] # 0 => \/ secret'[x].state = "spent"
                     \/ \E g \in Handlers : proc'[g].token = x /\ Owing(proc'[g])
  <2>1. ASSUME NEW g \in Handlers, proc[g].token = x, Owing(proc[g])
        PROVE  \/ secret'[x].state = "spent"
               \/ \E f \in Handlers : proc'[f].token = x /\ Owing(proc'[f])
    BY <1>1, <2>1 DEF SecretSafe
  <2> QED BY <1>2, <2>1 DEF SecretCalm
<1> QED BY <1>2, <1>3, <1>4, <1>5 DEF SecretCalm

\* A step that leaves the tables and Redis alone.
LEMMA QuietStep ==
    ASSUME IInv, NEW h \in Handlers, NEW q, proc' = [proc EXCEPT ![h] = q],
           UNCHANGED <<row, cache, secret, uses>>,
           NEW D, disturbed' = D, disturbed \subseteq D, D \subseteq Users \cup Secrets,
           admitted' \subseteq D, ProcOK(q, row, secret),
           \A g \in Handlers \ {h} : ~Rivals(proc[g], q),
           \A u \in Users \ D : /\ UserSafe(h, q, u)
                                /\ At(proc[h], u) => proc[h].pc # "del",
           \A x \in Secrets \ D : SecretSafe(h, q, x, secret[x].state)
    PROVE  IInv'
<1>1. \A g \in Handlers : proc[g].req.op = "Register" /\ proc[g].pc \in {"find", "fill", "apply", "save"} =>
                             row'[proc[g].req.arg[1]] = None
  BY DEF IInv, ProcsOK, ProcOK
<1>2. ProcsOK'
  BY <1>1, ProcStep
<1>3. RowsOK' /\ SecretsOK' /\ HistoryOK'
  BY DEF IInv, RowsOK, SecretsOK, HistoryOK
<1>4. ASSUME NEW u \in Users \ D PROVE UserCalm(u)'
  BY <1>4, UserStep DEF Owes
<1>5. ASSUME NEW x \in Secrets \ D PROVE SecretCalm(x)'
  BY <1>5, SecretStep
<1> QED BY <1>2, <1>3, <1>4, <1>5 DEF IInv

\* The handler ends: what it owed Redis or the secret disturbs both.
LEMMA LeaveStep ==
    ASSUME IInv, NEW h \in Handlers, Return(h),
           UNCHANGED <<row, cache, secret, uses>>,
           disturbed \subseteq disturbed', disturbed' \subseteq Users \cup Secrets,
           admitted' \subseteq disturbed',
           proc[h].pc = "del" \/ Owing(proc[h]) => Held(h) \subseteq disturbed'
    PROVE  IInv'
<1>1. PICK q, D : q = Idle /\ D = disturbed'
  OBVIOUS
<1>2. /\ proc' = [proc EXCEPT ![h] = q] /\ q.copy = None /\ q.token = None
      /\ q.req.op = "none" /\ ProcOK(q, row, secret)
  BY <1>1, IdleOK DEF Return
<1>3. ASSUME NEW u \in Users \ D PROVE UserSafe(h, q, u) /\ (At(proc[h], u) => proc[h].pc # "del")
  BY <1>1, <1>2, <1>3, AccountsAssumption DEF UserSafe, UserProc, At, Held
<1>4. ASSUME NEW x \in Secrets \ D PROVE SecretSafe(h, q, x, secret[x].state)
  BY <1>1, <1>2, <1>4, AccountsAssumption DEF SecretSafe, SecretProc, Held, Secrets
<1>5. \A g \in Handlers \ {h} : ~Rivals(proc[g], q)
  BY <1>2 DEF Rivals
<1> QED BY <1>1, <1>2, <1>3, <1>4, <1>5, QuietStep

-----------------------------------------------------------------------------
(* The actions *)

\* What every action may use of the handler it is about.
LEMMA Facts ==
    ASSUME IInv, NEW h \in Handlers
    PROVE  /\ proc \in [Handlers -> ProcRecord] /\ proc[h] \in ProcRecord
           /\ ProcOK(proc[h], row, secret) /\ PlaceOK(proc[h]) /\ CopyOK(proc[h])
           /\ \A g \in Handlers \ {h} : ~Rivals(proc[g], proc[h])
           /\ disturbed \subseteq Users \cup Secrets /\ admitted \subseteq disturbed
BY DEF IInv, ProcsOK, ProcOK, HistoryOK

\* What a request is made of.
LEMMA RequestFields ==
    ASSUME NEW op \in Reads \cup Spends \cup {"Authorize", "Revoke"},
           NEW keys, keys \subseteq Users \cup Emails \cup Secrets,
           NEW args, args \subseteq {None} \cup Passwords \cup (Users \X Passwords),
           NEW r \in Requests(op, keys, args)
    PROVE  r \in AllRequests /\ r.op = op /\ r.key \in keys /\ r.arg \in args
<1>1. PICK k \in keys, a \in args : r = [op |-> op, key |-> k, arg |-> a]
  BY DEF Requests, Request
<1> QED BY <1>1 DEF AllRequests

\* Where requests start.
LEMMA Entries ==
    /\ \A op \in Reads : Entry(op) = "find"
    /\ \A op \in Spends : Entry(op) = "lookup"
    /\ Entry("Authorize") = "issue"
    /\ Entry("Revoke") = "spend"
<1>1. \A op \in Reads : Entry(op) = "find"
  BY DEF Entry, Reads
<1>2. \A op \in Spends : Entry(op) = "lookup"
  BY DEF Entry, Spends
<1>3. Entry("Authorize") = "issue" /\ Entry("Revoke") = "spend"
  BY DEF Entry
<1> QED BY <1>1, <1>2, <1>3

\* The requests that may arrive are sound.
LEMMA RequestsOK ==
    ASSUME NEW r \in Routes \cup IdentityTools \cup OAuthTools \cup AdminMcpActivateUser
    PROVE  /\ ReqOK(r)
           /\ r.op \in Spends \cup {"Revoke"} => secret[r.key].state # "new"
           /\ r.op = "Register" => row[r.arg[1]] = None
<1>1. CASE r \in RestRegister
  <2>1. r \in AllRequests /\ r.op = "Register" /\ r.key \in Emails
        /\ r.arg \in {u \in Users : row[u] = None} \X Passwords
    BY <1>1, RequestFields DEF RestRegister, Reads
  <2> QED BY <2>1 DEF ReqOK, Reads, Spends
<1>2. CASE r \in RestLogin
  <2>1. r \in AllRequests /\ r.op = "Login" /\ r.key \in Emails
    BY <1>2, RequestFields DEF RestLogin, Reads
  <2> QED BY <2>1 DEF ReqOK, Reads, Spends
<1>3. CASE r \in RestGetUser \cup RestSuspendUser \cup AdminActivateUser \cup RestAuthorize
  <2>1. /\ r \in AllRequests /\ r.key \in Users
        /\ r.op \in {"GetUser", "SuspendUser", "ActivateUser", "Authorize"}
    BY <1>3, RequestFields DEF RestGetUser, RestSuspendUser, AdminActivateUser, RestAuthorize, Reads
  <2> QED BY <2>1 DEF ReqOK, Reads, Spends
<1>4. CASE r \in RestRequestPasswordReset
  <2>1. r \in AllRequests /\ r.op = "RequestPasswordReset" /\ r.key \in Emails
    BY <1>4, RequestFields DEF RestRequestPasswordReset, Reads
  <2> QED BY <2>1 DEF ReqOK, Reads, Spends
<1>5. CASE r \in RestResetPassword
  <2>1. /\ r \in AllRequests /\ r.op = "ResetPassword"
        /\ r.key \in Issued(ResetTokens) /\ r.arg \in Passwords
    BY <1>5, RequestFields DEF RestResetPassword, Spends, Issued, Secrets
  <2> QED BY <2>1 DEF ReqOK, Reads, Spends, Issued
<1>6. CASE r \in RestToken \cup RestRevoke
  <2>0. Issued(Codes) \subseteq Secrets /\ Issued(RefreshTokens) \subseteq Secrets
    BY DEF Issued, Secrets
  <2>1. /\ r \in AllRequests
        /\ \/ r.op = "Exchange" /\ r.key \in Issued(Codes)
           \/ r.op \in {"Refresh", "Revoke"} /\ r.key \in Issued(RefreshTokens)
    <3>1. CASE r \in Requests("Exchange", Issued(Codes), {None})
      BY <2>0, <3>1, RequestFields DEF Spends
    <3>2. CASE r \in Requests("Refresh", Issued(RefreshTokens), {None})
      BY <2>0, <3>2, RequestFields DEF Spends
    <3>3. CASE r \in Requests("Revoke", Issued(RefreshTokens), {None})
      BY <2>0, <3>3, RequestFields
    <3> QED BY <1>6, <3>1, <3>2, <3>3 DEF RestToken, RestRevoke
  <2> QED BY <2>1 DEF ReqOK, Reads, Spends, Issued
<1> QED BY <1>1, <1>2, <1>3, <1>4, <1>5, <1>6 DEF Routes, IdentityTools, OAuthTools, McpRegister,
       McpLogin, McpGetUser, McpSuspendUser, AdminMcpActivateUser, McpAuthorize, McpToken,
       McpRevoke

\* A request arrives with an id nobody else registers.
LEMMA ArriveOK ==
    ASSUME IInv, NEW h \in Handlers, Arrive(h) PROVE IInv'
<1>1. PICK r \in Routes \cup IdentityTools \cup OAuthTools \cup AdminMcpActivateUser :
          /\ Unclaimed(r)
          /\ proc' = [proc EXCEPT ![h] = [Idle EXCEPT !.pc = Entry(r.op), !.req = r]]
  BY DEF Arrive
<1>2. PICK q, D : q = [Idle EXCEPT !.pc = Entry(r.op), !.req = r] /\ D = disturbed
  OBVIOUS
<1>3. PICK e : e = Entry(r.op)
  OBVIOUS
<1>4. /\ ReqOK(r)
      /\ \/ r.op \in Reads /\ e = "find"
         \/ r.op \in Spends /\ e = "lookup"
         \/ r.op = "Authorize" /\ e = "issue"
         \/ r.op = "Revoke" /\ e = "spend"
      /\ r.op \in Spends \cup {"Revoke"} => secret[r.key].state # "new"
      /\ r.op = "Register" => row[r.arg[1]] = None
  <2>1. r.op \in Reads \cup Spends \cup {"Authorize", "Revoke"}
    BY RequestsOK DEF ReqOK, AllRequests
  <2> QED BY <1>3, <2>1, RequestsOK, Entries
<1>5. /\ q.pc = e /\ q.req = r /\ q.copy = None /\ q.token = None /\ q \in ProcRecord
  <2>1. r \in AllRequests /\ e \in {"find", "lookup", "issue", "spend"}
    BY <1>4 DEF ReqOK
  <2> QED BY <1>2, <1>3, <2>1, IdleOK DEF ProcRecord
<1>6. ProcOK(q, row, secret)
  <2>1. PlaceOK(q)
    BY <1>4, <1>5 DEF PlaceOK, Spends, Reads, Issues
  <2>2. CopyOK(q)
    BY <1>4, <1>5 DEF CopyOK, Reads
  <2> QED BY <1>4, <1>5, <2>1, <2>2 DEF ProcOK
<1>7. \A g \in Handlers \ {h} : ~Rivals(proc[g], q)
  BY <1>1, <1>5 DEF Unclaimed, Rivals
<1>8. /\ UNCHANGED <<row, cache, secret, uses, disturbed, admitted>> /\ proc[h].pc = "idle"
      /\ proc' = [proc EXCEPT ![h] = q]
  BY <1>1, <1>2 DEF Arrive
<1>9. proc[h].copy = None /\ proc[h].token = None
  BY <1>8, Facts, IdleOK DEF PlaceOK
<1>10. ASSUME NEW u \in Users \ D PROVE UserSafe(h, q, u) /\ (At(proc[h], u) => proc[h].pc # "del")
  BY <1>5, <1>8 DEF UserSafe, UserProc, At
<1>11. ASSUME NEW x \in Secrets \ D PROVE SecretSafe(h, q, x, secret[x].state)
  BY <1>5, <1>9, <1>11, AccountsAssumption DEF SecretSafe, SecretProc
<1>12. disturbed' = D /\ disturbed \subseteq D /\ D \subseteq Users \cup Secrets /\ admitted' \subseteq D
  BY <1>2, <1>8, Facts
<1> QED BY <1>6, <1>7, <1>8, <1>10, <1>11, <1>12, QuietStep

\* A save that fails ends the request before anything was done.
LEMMA SaveFailsOK ==
    ASSUME IInv, NEW h \in Handlers, SaveFails(h) PROVE IInv'
<1>1. /\ proc[h].pc = "save" /\ Return(h)
      /\ UNCHANGED <<row, cache, secret, uses, admitted, disturbed>>
  BY DEF SaveFails
<1> QED BY <1>1, Facts, LeaveStep DEF Owing

\* The server dies.
LEMMA CrashOK ==
    ASSUME IInv, NEW h \in Handlers, Crash(h) PROVE IInv'
<1>1. /\ Return(h) /\ UNCHANGED <<row, cache, secret, uses, admitted>>
      /\ disturbed' = disturbed \cup
           (IF proc[h].pc = "del" \/ (proc[h].pc = "spend" /\ proc[h].req.op = "ResetPassword")
            THEN Held(h) ELSE {})
  BY DEF Crash
<1>2. Held(h) \subseteq Users \cup Secrets
  BY Facts DEF Held, ProcRecord
<1>3. disturbed \subseteq disturbed' /\ disturbed' \subseteq Users \cup Secrets
  BY <1>1, <1>2, Facts
<1>4. proc[h].pc = "del" \/ Owing(proc[h]) => Held(h) \subseteq disturbed'
  BY <1>1 DEF Owing
<1> QED BY <1>1, <1>3, <1>4, Facts, LeaveStep

\* A live secret is looked up: whoever else holds it, it is disturbed.
LEMMA LookupOK ==
    ASSUME IInv, NEW h \in Handlers, Lookup(h) PROVE IInv'
<1>0. PICK x : x = proc[h].req.key
  OBVIOUS
<1>1. /\ proc[h].pc = "lookup" /\ UNCHANGED <<row, cache, secret, uses, admitted>>
      /\ proc[h].copy = None /\ proc[h].token = None /\ x \in Secrets
      /\ proc[h].req.op \in Spends /\ ReqOK(proc[h].req)
  BY <1>0, Facts DEF Lookup, PlaceOK, CopyOK, ReqOK, Spends, Secrets
<1>2. CASE Return(h) /\ UNCHANGED disturbed
  BY <1>1, <1>2, Facts, LeaveStep DEF Owing
<1>3. CASE /\ secret[x].state = "live"
           /\ proc' = [proc EXCEPT ![h].token = x,
                     ![h].pc = IF x \in ResetTokens THEN "find" ELSE "spend"]
           /\ disturbed' = disturbed \cup Crowded(h, x)
  <2>1. PICK q, D : /\ q = [proc[h] EXCEPT !.token = x, !.pc = IF x \in ResetTokens THEN "find" ELSE "spend"]
                    /\ D = disturbed'
    OBVIOUS
  <2>2. /\ proc' = [proc EXCEPT ![h] = q] /\ q \in ProcRecord /\ q.token = x
        /\ q.pc = IF x \in ResetTokens THEN "find" ELSE "spend"
        /\ q.copy = None /\ q.req = proc[h].req
    BY <1>1, <1>3, <2>1, Facts DEF ProcRecord
  <2>3. x \in ResetTokens <=> proc[h].req.op = "ResetPassword"
    BY <1>0, <1>1, AccountsAssumption DEF ReqOK, Spends
  <2>4. ProcOK(q, row, secret)
    <3>1. PlaceOK(q)
      BY <1>0, <1>1, <2>2, <2>3 DEF PlaceOK, Spends
    <3>2. CopyOK(q)
      BY <1>1, <2>2 DEF CopyOK
    <3> QED BY <1>0, <1>1, <1>3, <2>2, <3>1, <3>2 DEF ProcOK, Spends
  <2>5. D = disturbed \cup Crowded(h, x) /\ Crowded(h, x) \subseteq {x}
    BY <1>3, <2>1 DEF Crowded
  <2>6. ASSUME NEW u \in Users \ D PROVE UserSafe(h, q, u) /\ (At(proc[h], u) => proc[h].pc # "del")
    BY <1>1, <2>2 DEF UserSafe, UserProc, At
  <2>7. ASSUME NEW y \in Secrets \ D PROVE SecretSafe(h, q, y, secret[y].state)
    <3>1. CASE y = x
      <4>1. \A g \in Handlers \ {h} : proc[g].token # x
        BY <1>1, <2>5, <2>7, <3>1, AccountsAssumption DEF Crowded, Held
      <4>2. uses[x] = 0
        <5>1. SecretCalm(x)
          BY <2>5, <2>7, <3>1 DEF IInv
        <5>2. proc[h].token # x
          BY <1>1, AccountsAssumption
        <5> QED BY <1>3, <4>1, <5>1, <5>2 DEF SecretCalm
      <4> QED BY <1>1, <2>2, <3>1, <4>1, <4>2 DEF SecretSafe, SecretProc, Owing
    <3>2. CASE y # x
      BY <1>1, <2>2, <3>2, <2>7, AccountsAssumption DEF SecretSafe, SecretProc, Owing
    <3> QED BY <3>1, <3>2
  <2>8. \A g \in Handlers \ {h} : ~Rivals(proc[g], q)
    BY <2>2, Facts DEF Rivals
  <2>9. disturbed \subseteq D /\ D \subseteq Users \cup Secrets /\ admitted' \subseteq D
    BY <1>1, <2>5, Facts
  <2> QED BY <1>1, <2>1, <2>2, <2>4, <2>6, <2>7, <2>8, <2>9, QuietStep
<1> QED BY <1>0, <1>2, <1>3 DEF Lookup

\* Where FindByID and FindByEmail look.
LEMMA WantedOK ==
    ASSUME IInv, NEW h \in Handlers, proc[h].pc = "find"
    PROVE  Wanted(h) \in Users \cup Emails
<1>1. /\ proc[h].req.op \in Reads => proc[h].token = None /\ proc[h].req.key \in Users \cup Emails
      /\ proc[h].req.op = "ResetPassword" =>
            /\ proc[h].token = proc[h].req.key /\ proc[h].req.key \in ResetTokens
            /\ secret[proc[h].req.key].state # "new"
      /\ proc[h].req.op \in Reads \cup {"ResetPassword"}
  BY Facts DEF ProcOK, PlaceOK, ReqOK, Reads, Spends
<1>2. CASE proc[h].req.op \in Reads
  BY <1>1, <1>2 DEF Wanted
<1>3. CASE proc[h].req.op = "ResetPassword"
  <2>1. proc[h].token \in Secrets /\ proc[h].token # None
    BY <1>1, <1>3, AccountsAssumption DEF Secrets
  <2> QED BY <1>1, <1>3, <2>1 DEF Wanted, IInv, SecretsOK
<1> QED BY <1>1, <1>2, <1>3

\* A user is found, in Redis or in the table: h goes on with the copy c.
LEMMA FoundOK ==
    ASSUME IInv, NEW h \in Handlers, proc[h].pc = "find", NEW c \in User,
           NEW q, proc' = [proc EXCEPT ![h] = q], q \in ProcRecord,
           q.req = proc[h].req, q.token = proc[h].token, q.copy = c,
           \/ q.pc = "apply"
           \/ q.pc = "fill" /\ q.keys = <<c.id, c.email>> /\ c = row[c.id],
           Known(c, row),
           c = row[c.id] \/ \E k \in Users \cup Emails : c = cache[k],
           disturbed' = disturbed \cup Crowded(h, c.id),
           UNCHANGED <<row, cache, secret, uses, admitted>>
    PROVE  IInv'
<1>1. /\ proc[h].copy = None /\ proc[h].req.op \in Reads \cup {"ResetPassword"}
      /\ ReqOK(proc[h].req) /\ c # None /\ c.id \in Users
  BY Facts, RowsAssumption DEF PlaceOK, CopyOK, User
<1>2. c.email = Lower[c.email]
  BY <1>1 DEF Known, IInv, RowsOK
<1>3. ProcOK(q, row, secret)
  <2>1. PlaceOK(q)
    BY <1>1, Facts DEF PlaceOK
  <2>2. CopyOK(q)
    BY <1>1, <1>2 DEF CopyOK
  <2>3. ProcOK(proc[h], row, secret)
    BY Facts
  <2> QED BY <1>1, <2>1, <2>2, <2>3 DEF ProcOK
<1>4. PICK D : D = disturbed \cup Crowded(h, c.id)
  OBVIOUS
<1>5. ASSUME NEW u \in Users \ D PROVE UserSafe(h, q, u) /\ (At(proc[h], u) => proc[h].pc # "del")
  <2>1. CASE c.id = u
    <3>1. \A g \in Handlers \ {h} : ~At(proc[g], u)
      BY <1>4, <1>5, <2>1, AccountsAssumption DEF Crowded, Held, At
    <3>2. c = row[u]
      <4>1. UserCalm(u) /\ \A g \in Handlers : ~At(proc[g], u)
        BY <1>1, <1>4, <1>5, <3>1 DEF IInv, At
      <4> QED BY <1>1, <2>1, <4>1 DEF UserCalm
    <3> QED BY <1>1, <2>1, <3>1, <3>2 DEF UserSafe, UserProc, At
  <2>2. CASE c.id # u
    BY <2>2 DEF UserSafe, UserProc, At
  <2> QED BY <2>1, <2>2
<1>6. ASSUME NEW x \in Secrets \ D PROVE SecretSafe(h, q, x, secret[x].state)
  <2>1. SecretProc(proc[h], x, uses[x], secret[x].state)
    BY <1>4, <1>6 DEF IInv, SecretCalm
  <2> QED BY <2>1 DEF SecretSafe, SecretProc, Owing
<1>7. \A g \in Handlers \ {h} : ~Rivals(proc[g], q)
  BY Facts DEF Rivals
<1>8. disturbed' = D /\ disturbed \subseteq D /\ D \subseteq Users \cup Secrets /\ admitted' \subseteq D
  BY <1>1, <1>4, Facts DEF Crowded
<1> QED BY <1>3, <1>5, <1>6, <1>7, <1>8, QuietStep

\* FindByID, FindByEmail.
LEMMA FindOK ==
    ASSUME IInv, NEW h \in Handlers, Find(h) PROVE IInv'
<1>1. proc[h].pc = "find" /\ UNCHANGED <<row, cache, secret, uses, admitted>>
  BY DEF Find
<1>2. PICK w \in Users \cup Emails : w = Wanted(h)
  BY <1>1, WantedOK
<1>3. CASE /\ cache[w] # None
           /\ proc' = [proc EXCEPT ![h].pc = "apply", ![h].copy = cache[w]]
           /\ disturbed' = disturbed \cup Crowded(h, cache[w].id)
  <2>1. PICK c : c = cache[w]
    OBVIOUS
  <2>2. c \in User /\ Known(c, row)
    BY <1>3, <2>1 DEF IInv, RowsOK, Known
  <2>3. PICK q : q = [proc[h] EXCEPT !.pc = "apply", !.copy = c]
    OBVIOUS
  <2>4. /\ proc' = [proc EXCEPT ![h] = q] /\ q \in ProcRecord /\ q.pc = "apply" /\ q.copy = c
        /\ q.req = proc[h].req /\ q.token = proc[h].token
    BY <1>3, <2>1, <2>2, <2>3, Facts DEF ProcRecord
  <2> QED BY <1>1, <1>3, <2>1, <2>2, <2>4, FoundOK
<1>4. ASSUME NEW u \in Matches(w),
             proc' = [proc EXCEPT ![h].pc = "fill", ![h].copy = row[u],
                                  ![h].keys = <<u, row[u].email>>],
             disturbed' = disturbed \cup Crowded(h, u)
      PROVE  IInv'
  <2>1. PICK c : c = row[u]
    OBVIOUS
  <2>2. c \in User /\ c.id = u /\ Known(c, row) /\ u \in Users /\ c.email \in Emails
    BY <1>4, <2>1 DEF Matches, IInv, RowsOK, Known, User
  <2>3. PICK q : q = [proc[h] EXCEPT !.pc = "fill", !.copy = c, !.keys = <<u, c.email>>]
    OBVIOUS
  <2>4. <<u, c.email>> \in Seq(Users \cup Emails)
    BY <2>2
  <2>5. /\ proc' = [proc EXCEPT ![h] = q] /\ q \in ProcRecord /\ q.pc = "fill" /\ q.copy = c
        /\ q.req = proc[h].req /\ q.token = proc[h].token /\ q.keys = <<u, c.email>>
    BY <1>4, <2>1, <2>2, <2>3, <2>4, Facts DEF ProcRecord
  <2> QED BY <1>1, <1>4, <2>1, <2>2, <2>5, FoundOK
<1>5. CASE NotFound(h) /\ UNCHANGED disturbed
  <2>1. CASE Return(h)
    BY <1>1, <1>5, <2>1, Facts, LeaveStep DEF Owing
  <2>2. CASE proc[h].req.op = "Register" /\ Goto(h, "apply")
    <3>1. PICK q, D : q = [proc[h] EXCEPT !.pc = "apply"] /\ D = disturbed
      OBVIOUS
    <3>2. /\ proc' = [proc EXCEPT ![h] = q] /\ q \in ProcRecord /\ q.pc = "apply"
          /\ q.copy = None /\ q.req = proc[h].req /\ q.token = proc[h].token
      BY <1>1, <2>2, <3>1, Facts DEF ProcRecord, Goto, CopyOK
    <3>3. ProcOK(q, row, secret)
      <4>1. PlaceOK(q)
        BY <1>1, <3>2, Facts DEF PlaceOK
      <4>2. CopyOK(q)
        BY <2>2, <3>2 DEF CopyOK
      <4>3. ProcOK(proc[h], row, secret)
        BY Facts
      <4> QED BY <1>1, <3>2, <4>1, <4>2, <4>3 DEF ProcOK
    <3>4. ASSUME NEW u \in Users \ D
          PROVE  UserSafe(h, q, u) /\ (At(proc[h], u) => proc[h].pc # "del")
      BY <1>1, <3>2 DEF UserSafe, UserProc, At
    <3>5. ASSUME NEW x \in Secrets \ D PROVE SecretSafe(h, q, x, secret[x].state)
      <4>1. SecretProc(proc[h], x, uses[x], secret[x].state)
        BY <3>1, <3>5 DEF IInv, SecretCalm
      <4> QED BY <1>1, <3>2, <4>1 DEF SecretSafe, SecretProc, Owing
    <3>6. \A g \in Handlers \ {h} : ~Rivals(proc[g], q)
      BY <3>2, Facts DEF Rivals
    <3>7. disturbed' = D /\ disturbed \subseteq D /\ D \subseteq Users \cup Secrets /\ admitted' \subseteq D
      BY <1>1, <1>5, <3>1, Facts
    <3> QED BY <1>1, <3>2, <3>3, <3>4, <3>5, <3>6, <3>7, QuietStep
  <2> QED BY <1>5, <2>1, <2>2 DEF NotFound
<1> QED BY <1>2, <1>3, <1>4, <1>5 DEF Find

\* The service changed the copy to c, or made one of a new user.
LEMMA ChangedOK ==
    ASSUME IInv, NEW h \in Handlers, proc[h].pc = "apply", NEW c \in User,
           c.email = Lower[c.email],
           proc' = [proc EXCEPT ![h].pc = "save", ![h].copy = c],
           \/ /\ proc[h].req.op = "Register" /\ proc[h].copy = None
              /\ c.id = proc[h].req.arg[1]
           \/ /\ proc[h].req.op \in Writes \ {"Register"} /\ proc[h].copy # None
              /\ c.id = proc[h].copy.id /\ c.email = proc[h].copy.email
              /\ c.status # proc[h].copy.status => proc[h].req.op \in {"SuspendUser", "ActivateUser"}
              /\ c.password # proc[h].copy.password => proc[h].req.op = "ResetPassword",
           UNCHANGED <<row, cache, secret, uses, admitted, disturbed>>
    PROVE  IInv'
<1>1. PICK q, D : q = [proc[h] EXCEPT !.pc = "save", !.copy = c] /\ D = disturbed
  OBVIOUS
<1>2. /\ proc' = [proc EXCEPT ![h] = q] /\ q \in ProcRecord /\ q.pc = "save" /\ q.copy = c
      /\ q.req = proc[h].req /\ q.token = proc[h].token /\ c # None
  BY <1>1, Facts, RowsAssumption DEF ProcRecord
<1>3. proc[h].req.op \in Writes
  BY DEF Writes
<1>4. ProcOK(proc[h], row, secret)
  BY Facts
<1>5. ProcOK(q, row, secret)
  <2>1. PlaceOK(q)
    BY <1>2, <1>3, Facts DEF PlaceOK
  <2>2. CopyOK(q)
    BY <1>2 DEF CopyOK
  <2>3. Known(c, row) \/ (New(q) /\ c.id = q.req.arg[1])
    BY <1>2, <1>4 DEF ProcOK, Known, New
  <2> QED BY <1>2, <1>4, <2>1, <2>2, <2>3 DEF ProcOK
<1>6. ASSUME NEW u \in Users \ D PROVE UserSafe(h, q, u) /\ (At(proc[h], u) => proc[h].pc # "del")
  <2>0. UserCalm(u) /\ UserProc(proc[h], u, row[u])
    BY <1>1, <1>6 DEF IInv, UserCalm
  <2>1. CASE proc[h].copy # None
    BY <1>2, <2>0, <2>1 DEF UserSafe, UserProc, At
  <2>2. CASE proc[h].copy = None /\ proc[h].req.op = "Register" /\ c.id = proc[h].req.arg[1]
    <3>1. row[c.id] = None
      BY <1>4, <2>2 DEF ProcOK
    <3>2. ASSUME NEW g \in Handlers \ {h}, At(proc[g], c.id) PROVE FALSE
      <4>1. ProcOK(proc[g], row, secret) /\ ~Rivals(proc[g], proc[h])
        BY <3>2, Facts
      <4>2. ~Known(proc[g].copy, row)
        BY <3>1, <3>2 DEF Known, At
      <4>3. New(proc[g]) /\ proc[g].copy.id = proc[g].req.arg[1]
        BY <3>2, <4>1, <4>2 DEF ProcOK, At
      <4> QED BY <2>2, <3>2, <4>1, <4>3 DEF New, Rivals, At
    <3> QED BY <1>2, <2>2, <3>1, <3>2 DEF UserSafe, UserProc, At
  <2> QED BY <2>1, <2>2
<1>7. ASSUME NEW x \in Secrets \ D PROVE SecretSafe(h, q, x, secret[x].state)
  <2>1. SecretProc(proc[h], x, uses[x], secret[x].state)
    BY <1>1, <1>7 DEF IInv, SecretCalm
  <2> QED BY <1>2, <2>1 DEF SecretSafe, SecretProc, Owing
<1>8. \A g \in Handlers \ {h} : ~Rivals(proc[g], q)
  BY <1>2, Facts DEF Rivals
<1>9. disturbed' = D /\ disturbed \subseteq D /\ D \subseteq Users \cup Secrets /\ admitted' \subseteq D
  BY <1>1, Facts
<1> QED BY <1>2, <1>5, <1>6, <1>7, <1>8, <1>9, QuietStep

\* The methods of the aggregate change the status or the password, no more.
LEMMA MethodsOK ==
    ASSUME NEW user \in User, user.email = Lower[user.email]
    PROVE  /\ Suspend(user) # None => Suspend(user) = [user EXCEPT !.status = "suspended"]
           /\ Activate(user) # None => Activate(user) = [user EXCEPT !.status = "active"]
           /\ \A s \in {"active", "suspended"} :
                 LET c == [user EXCEPT !.status = s]
                 IN  c \in User /\ c.id = user.id /\ c.email = user.email /\ c.password = user.password
           /\ \A p \in Passwords :
                 LET c == ChangePassword(user, p)
                 IN  c \in User /\ c.id = user.id /\ c.email = user.email /\ c.status = user.status
BY DEF Suspend, Activate, ChangePassword, User

\* What the service does with the user it found.
LEMMA ApplyOK ==
    ASSUME IInv, NEW h \in Handlers, Apply(h) PROVE IInv'
<1>0. /\ proc[h].pc = "apply" /\ UNCHANGED <<row, cache, secret, uses, disturbed>>
      /\ proc[h].req.op \in Reads \cup {"ResetPassword"} /\ ReqOK(proc[h].req)
      /\ proc[h].req.op # "Register" => proc[h].copy # None
      /\ proc[h].copy # None => proc[h].copy \in User /\ proc[h].copy.email = Lower[proc[h].copy.email]
  BY Facts DEF Apply, PlaceOK, CopyOK, ProcRecord
<1>1. admitted' \subseteq disturbed
  <2>1. admitted' = admitted \cup
               {u \in Users : /\ proc[h].req.op = "Login" /\ proc[h].copy.id = u
                              /\ MayLogin(proc[h].copy, proc[h].req.arg)
                              /\ ~MayLogin(row[u], proc[h].req.arg)}
    BY DEF Apply
  <2>2. ASSUME NEW u \in Users \ disturbed, proc[h].req.op = "Login", proc[h].copy.id = u
        PROVE  proc[h].copy = row[u]
    <3>1. UserProc(proc[h], u, row[u])
      BY <2>2 DEF IInv, UserCalm
    <3> QED BY <1>0, <2>2, <3>1 DEF UserProc, At
  <2> QED BY <2>1, <2>2, Facts
<1>2. CASE Return(h)
  BY <1>0, <1>1, <1>2, Facts, LeaveStep DEF Owing
<1>3. CASE proc[h].req.op \notin {"Login"} /\ admitted' = admitted
  <2>1. CASE proc[h].req.op = "Register" /\ Register(h)
    <3>1. CASE proc[h].copy # None
      BY <1>2, <2>1, <3>1 DEF Register
    <3>2. CASE proc[h].copy = None
      <4>1. PICK c : c = NewUser(proc[h].req.arg[1], proc[h].req.key, proc[h].req.arg[2])
        OBVIOUS
      <4>2. /\ proc[h].req.arg[1] \in Users /\ proc[h].req.arg[2] \in Passwords
            /\ proc[h].req.key \in Emails
        BY <1>0, <2>1 DEF ReqOK
      <4>3. c \in User /\ c.email = Lower[c.email] /\ c.id = proc[h].req.arg[1]
        BY <4>1, <4>2, AccountsAssumption DEF NewUser, User
      <4>4. proc' = [proc EXCEPT ![h].pc = "save", ![h].copy = c]
        BY <2>1, <3>2, <4>1 DEF Register
      <4> QED BY <1>0, <1>3, <2>1, <3>2, <4>3, <4>4, ChangedOK
    <3> QED BY <3>1, <3>2
  <2>2. CASE proc[h].req.op = "SuspendUser" /\ SuspendUser(h)
    <3>1. PICK c : c = Suspend(proc[h].copy)
      OBVIOUS
    <3>2. CASE c = None
      BY <1>2, <2>2, <3>1, <3>2 DEF SuspendUser, Change
    <3>3. CASE c # None
      <4>1. /\ c \in User /\ c.id = proc[h].copy.id /\ c.email = proc[h].copy.email
            /\ c.password = proc[h].copy.password
        BY <1>0, <2>2, <3>1, <3>3, MethodsOK
      <4>2. proc' = [proc EXCEPT ![h].pc = "save", ![h].copy = c]
        BY <2>2, <3>1, <3>3 DEF SuspendUser, Change
      <4>3. proc[h].req.op \in Writes \ {"Register"} /\ proc[h].copy # None /\ c.email = Lower[c.email]
        BY <1>0, <2>2, <4>1 DEF Writes
      <4> QED BY <1>0, <1>3, <2>2, <4>1, <4>2, <4>3, ChangedOK
    <3> QED BY <3>2, <3>3
  <2>3. CASE proc[h].req.op = "ActivateUser" /\ ActivateUser(h)
    <3>1. PICK c : c = Activate(proc[h].copy)
      OBVIOUS
    <3>2. CASE c = None
      BY <1>2, <2>3, <3>1, <3>2 DEF ActivateUser, Change
    <3>3. CASE c # None
      <4>1. /\ c \in User /\ c.id = proc[h].copy.id /\ c.email = proc[h].copy.email
            /\ c.password = proc[h].copy.password
        BY <1>0, <2>3, <3>1, <3>3, MethodsOK
      <4>2. proc' = [proc EXCEPT ![h].pc = "save", ![h].copy = c]
        BY <2>3, <3>1, <3>3 DEF ActivateUser, Change
      <4>3. proc[h].req.op \in Writes \ {"Register"} /\ proc[h].copy # None /\ c.email = Lower[c.email]
        BY <1>0, <2>3, <4>1 DEF Writes
      <4> QED BY <1>0, <1>3, <2>3, <4>1, <4>2, <4>3, ChangedOK
    <3> QED BY <3>2, <3>3
  <2>4. CASE proc[h].req.op = "ResetPassword" /\ ResetPassword(h)
    <3>1. PICK c : c = ChangePassword(proc[h].copy, proc[h].req.arg)
      OBVIOUS
    <3>2. /\ c \in User /\ c.id = proc[h].copy.id /\ c.email = proc[h].copy.email
          /\ c.status = proc[h].copy.status
      BY <1>0, <2>4, <3>1, MethodsOK DEF ReqOK
    <3>3. proc' = [proc EXCEPT ![h].pc = "save", ![h].copy = c]
      BY <2>4, <3>1, <3>2, RowsAssumption DEF ResetPassword, Change
    <3>4. proc[h].req.op \in Writes \ {"Register"} /\ proc[h].copy # None /\ c.email = Lower[c.email]
      BY <1>0, <2>4, <3>2 DEF Writes
    <3> QED BY <1>0, <1>3, <2>4, <3>2, <3>3, <3>4, ChangedOK
  <2>5. CASE proc[h].req.op = "RequestPasswordReset" /\ Goto(h, "issue")
    <3>1. PICK q, D : q = [proc[h] EXCEPT !.pc = "issue"] /\ D = disturbed
      OBVIOUS
    <3>2. /\ proc' = [proc EXCEPT ![h] = q] /\ q \in ProcRecord /\ q.pc = "issue"
          /\ q.copy = proc[h].copy /\ q.req = proc[h].req /\ q.token = proc[h].token
      BY <2>5, <3>1, Facts DEF ProcRecord, Goto
    <3>3. proc[h].token = None
      BY <1>0, <2>5, Facts DEF PlaceOK, Spends
    <3>4. ProcOK(q, row, secret)
      <4>1. PlaceOK(q)
        BY <1>0, <2>5, <3>2, Facts DEF PlaceOK, Issues
      <4>2. CopyOK(q)
        BY <1>0, <2>5, <3>2 DEF CopyOK
      <4>3. ProcOK(proc[h], row, secret)
        BY Facts
      <4> QED BY <1>0, <2>5, <3>2, <4>1, <4>2, <4>3 DEF ProcOK, New
    <3>5. ASSUME NEW u \in Users \ D
          PROVE  UserSafe(h, q, u) /\ (At(proc[h], u) => proc[h].pc # "del")
      BY <1>0, <3>2 DEF UserSafe, UserProc, At
    <3>6. ASSUME NEW x \in Secrets \ D PROVE SecretSafe(h, q, x, secret[x].state)
      BY <3>2, <3>3, <3>6, AccountsAssumption DEF SecretSafe, SecretProc
    <3>7. \A g \in Handlers \ {h} : ~Rivals(proc[g], q)
      BY <3>2, Facts DEF Rivals
    <3>8. disturbed' = D /\ disturbed \subseteq D /\ D \subseteq Users \cup Secrets /\ admitted' \subseteq D
      BY <1>0, <1>3, <3>1, Facts
    <3> QED BY <1>0, <3>2, <3>4, <3>5, <3>6, <3>7, <3>8, QuietStep
  <2> QED BY <1>0, <1>2, <1>3, <2>1, <2>2, <2>3, <2>4, <2>5 DEF Apply, Reads
<1> QED BY <1>0, <1>2, <1>3 DEF Apply, Reads

\* The keys of a copy, and where their list goes on.
LEMMA KeysOK ==
    ASSUME IInv, NEW h \in Handlers, proc[h].pc \in {"fill", "del"}
    PROVE  /\ proc[h].copy # None /\ proc[h].copy \in User /\ Known(proc[h].copy, row)
           /\ proc[h].copy.id \in Users /\ proc[h].copy.email \in Emails
           /\ \/ /\ proc[h].keys = <<proc[h].copy.id, proc[h].copy.email>>
                 /\ Len(proc[h].keys) = 2 /\ Head(proc[h].keys) = proc[h].copy.id
                 /\ Tail(proc[h].keys) = <<proc[h].copy.email>>
              \/ /\ proc[h].keys = <<proc[h].copy.email>>
                 /\ Len(proc[h].keys) = 1 /\ Head(proc[h].keys) = proc[h].copy.email
                 /\ Tail(proc[h].keys) = <<>>
<1>1. proc[h].copy # None /\ proc[h].copy \in User /\ proc[h].copy.id \in Users /\ proc[h].copy.email \in Emails
  BY Facts DEF CopyOK, ProcRecord, User
<1>2. Known(proc[h].copy, row)
  BY <1>1, Facts DEF ProcOK, New
<1>3. PICK a \in Users \cup Emails, b \in Users \cup Emails :
          a = proc[h].copy.id /\ b = proc[h].copy.email /\ proc[h].keys \in {<<a, b>>, <<b>>}
  BY <1>1, Facts DEF CopyOK
<1>4. CASE proc[h].keys = <<a, b>>
  BY <1>1, <1>2, <1>3, <1>4, Lists
<1>5. CASE proc[h].keys = <<b>>
  BY <1>1, <1>2, <1>3, <1>5, Lists
<1> QED BY <1>3, <1>4, <1>5

\* writeCache: of a user nobody disturbed, the row as it stands.
LEMMA writeCacheOK ==
    ASSUME IInv, NEW h \in Handlers, writeCache(h) PROVE IInv'
<1>0. proc[h].pc = "fill" /\ UNCHANGED <<row, secret, uses, admitted, disturbed>>
  BY DEF writeCache
<1>1. PICK c, k : c = proc[h].copy /\ k = Head(proc[h].keys)
  OBVIOUS
<1>2. c # None /\ c \in User /\ Known(c, row) /\ k \in {c.id, c.email} /\ k \in Users \cup Emails
  BY <1>0, <1>1, KeysOK
<1>3. /\ cache' \in [Users \cup Emails -> User \cup {None}]
      /\ \A j \in Users \cup Emails : cache'[j] = cache[j] \/ (j = k /\ cache'[j] = c)
  <2>1. cache' \in {cache, [cache EXCEPT ![k] = c]}
    BY <1>1 DEF writeCache
  <2> QED BY <1>2, <2>1 DEF IInv, RowsOK
<1>4. PICK t, p : t = Tail(proc[h].keys) /\ p = IF Len(proc[h].keys) = 1 THEN "apply" ELSE "fill"
  OBVIOUS
<1>5. PICK q : q = [proc[h] EXCEPT !.keys = t, !.pc = p]
  OBVIOUS
<1>6. /\ t \in Seq(Users \cup Emails) /\ p \in {"apply", "fill"}
      /\ p = "fill" => t = <<c.email>>
  BY <1>0, <1>1, <1>4, KeysOK
<1>7. /\ proc' = [proc EXCEPT ![h] = q] /\ q \in ProcRecord /\ q.pc = p /\ q.keys = t
      /\ q.copy = c /\ q.req = proc[h].req /\ q.token = proc[h].token
  BY <1>1, <1>4, <1>5, <1>6, Facts DEF writeCache, ProcRecord
<1>8. ProcOK(q, row, secret)
  <2>1. PlaceOK(q)
    BY <1>0, <1>6, <1>7, Facts DEF PlaceOK
  <2>2. CopyOK(q)
    BY <1>0, <1>1, <1>2, <1>6, <1>7, Facts DEF CopyOK
  <2>3. ProcOK(proc[h], row, secret)
    BY Facts
  <2> QED BY <1>0, <1>2, <1>6, <1>7, <2>1, <2>2, <2>3 DEF ProcOK
<1>9. \A g \in Handlers \ {h} : ~Rivals(proc[g], q)
  BY <1>7, Facts DEF Rivals
<1>10. \A g \in Handlers : proc[g].req.op = "Register" /\ proc[g].pc \in {"find", "fill", "apply", "save"} =>
                              row'[proc[g].req.arg[1]] = None
  BY <1>0 DEF IInv, ProcsOK, ProcOK
<1>11. ProcsOK'
  BY <1>0, <1>7, <1>8, <1>9, <1>10, ProcStep
<1>12. RowsOK'
  BY <1>0, <1>2, <1>3 DEF IInv, RowsOK
<1>13. SecretsOK' /\ HistoryOK'
  BY <1>0 DEF IInv, SecretsOK, HistoryOK
<1>14. ASSUME NEW u \in Users \ disturbed PROVE UserCalm(u)'
  <2>1. UserProc(proc[h], u, row[u])
    BY <1>14 DEF IInv, UserCalm
  <2>2. UserSafe(h, q, u)
    BY <1>0, <1>1, <1>6, <1>7, <2>1 DEF UserSafe, UserProc, At
  <2>3. c.id = u => c = row[u]
    BY <1>0, <1>1, <1>2, <2>1 DEF UserProc, At
  <2> QED BY <1>0, <1>3, <1>7, <1>14, <2>2, <2>3, UserStep DEF Owes
<1>15. ASSUME NEW x \in Secrets \ disturbed PROVE SecretCalm(x)'
  <2>1. SecretProc(proc[h], x, uses[x], secret[x].state)
    BY <1>15 DEF IInv, SecretCalm
  <2>2. SecretSafe(h, q, x, secret[x].state)
    BY <1>0, <1>6, <1>7, <2>1 DEF SecretSafe, SecretProc, Owing
  <2> QED BY <1>0, <1>7, <1>15, <2>2, SecretStep
<1> QED BY <1>0, <1>11, <1>12, <1>13, <1>14, <1>15 DEF IInv

\* Where a handler goes after a DEL.
LEMMA AfterDel ==
    ASSUME IInv, NEW h \in Handlers, proc[h].pc = "del", UNCHANGED <<row, secret, uses>>,
           IF Len(proc[h].keys) > 1 THEN proc' = [proc EXCEPT ![h].keys = Tail(@)]
           ELSE IF proc[h].req.op = "ResetPassword" THEN Goto(h, "spend")
           ELSE Return(h)
    PROVE  \E q : /\ proc' = [proc EXCEPT ![h] = q] /\ ProcOK(q, row, secret)
                  /\ \A g \in Handlers \ {h} : ~Rivals(proc[g], q)
                  /\ \/ /\ q.pc = "del" /\ q.copy = proc[h].copy /\ q.token = proc[h].token
                        /\ q.req = proc[h].req /\ Len(proc[h].keys) = 2
                     \/ /\ Owing(proc[h]) /\ Owing(q) /\ q.pc = "spend" /\ q.copy = proc[h].copy
                        /\ q.token = proc[h].token /\ Len(proc[h].keys) = 1
                     \/ /\ q.copy = None /\ q.token = None /\ ~Owing(proc[h])
                        /\ Len(proc[h].keys) = 1
<1>1. /\ ProcOK(proc[h], row, secret) /\ PlaceOK(proc[h]) /\ CopyOK(proc[h])
      /\ proc[h] \in ProcRecord /\ proc \in [Handlers -> ProcRecord]
      /\ \A g \in Handlers \ {h} : ~Rivals(proc[g], proc[h])
  BY Facts
<1>2. CASE Len(proc[h].keys) > 1
  <2>1. PICK t : t = Tail(proc[h].keys)
    OBVIOUS
  <2>2. PICK q : q = [proc[h] EXCEPT !.keys = t]
    OBVIOUS
  <2>3. /\ t = <<proc[h].copy.email>> /\ t \in Seq(Users \cup Emails) /\ Len(proc[h].keys) = 2
    BY <1>2, <2>1, KeysOK
  <2>4. /\ proc' = [proc EXCEPT ![h] = q] /\ q \in ProcRecord /\ q.pc = "del" /\ q.keys = t
        /\ q.copy = proc[h].copy /\ q.req = proc[h].req /\ q.token = proc[h].token
    BY <1>1, <1>2, <2>1, <2>2, <2>3 DEF ProcRecord
  <2>5. PlaceOK(q)
    BY <1>1, <2>4 DEF PlaceOK
  <2>6. CopyOK(q)
    BY <1>1, <2>3, <2>4 DEF CopyOK
  <2>7. ProcOK(q, row, secret)
    BY <1>1, <2>4, <2>5, <2>6 DEF ProcOK, New
  <2>8. \A g \in Handlers \ {h} : ~Rivals(proc[g], q)
    BY <1>1, <2>4 DEF Rivals
  <2> QED BY <2>3, <2>4, <2>7, <2>8
<1>3. CASE ~(Len(proc[h].keys) > 1) /\ proc[h].req.op = "ResetPassword"
  <2>1. PICK q : q = [proc[h] EXCEPT !.pc = "spend"]
    OBVIOUS
  <2>2. /\ proc' = [proc EXCEPT ![h] = q] /\ q \in ProcRecord /\ q.pc = "spend"
        /\ q.copy = proc[h].copy /\ q.req = proc[h].req /\ q.token = proc[h].token
    BY <1>1, <1>3, <2>1 DEF ProcRecord, Goto
  <2>3. PlaceOK(q)
    BY <1>1, <1>3, <2>2 DEF PlaceOK, Spends
  <2>4. CopyOK(q)
    BY <1>1, <1>3, <2>2 DEF CopyOK
  <2>5. ProcOK(q, row, secret)
    BY <1>1, <1>3, <2>2, <2>3, <2>4 DEF ProcOK, New
  <2>6. \A g \in Handlers \ {h} : ~Rivals(proc[g], q)
    BY <1>1, <2>2 DEF Rivals
  <2>7. Len(proc[h].keys) = 1
    BY <1>3, KeysOK
  <2> QED BY <1>3, <2>2, <2>5, <2>6, <2>7 DEF Owing
<1>4. CASE ~(Len(proc[h].keys) > 1) /\ proc[h].req.op # "ResetPassword"
  <2>1. PICK q : q = Idle
    OBVIOUS
  <2>2. /\ proc' = [proc EXCEPT ![h] = q] /\ q.copy = None /\ q.token = None
        /\ ProcOK(q, row, secret) /\ q.req.op = "none"
    BY <1>4, <2>1, IdleOK DEF Return
  <2>3. Len(proc[h].keys) = 1
    BY <1>4, KeysOK
  <2> QED BY <1>4, <2>2, <2>3 DEF Rivals, Owing
<1> QED BY <1>2, <1>3, <1>4

\* A DEL, or its loss.
LEMMA invalidateCacheOK ==
    ASSUME IInv, NEW h \in Handlers, invalidateCache(h) PROVE IInv'
<1>0. proc[h].pc = "del" /\ UNCHANGED <<row, secret, uses, admitted>>
  BY DEF invalidateCache
<1>1. PICK q : /\ proc' = [proc EXCEPT ![h] = q] /\ ProcOK(q, row, secret)
               /\ \A g \in Handlers \ {h} : ~Rivals(proc[g], q)
               /\ \/ /\ q.pc = "del" /\ q.copy = proc[h].copy /\ q.token = proc[h].token
                     /\ q.req = proc[h].req /\ Len(proc[h].keys) = 2
                  \/ /\ Owing(proc[h]) /\ Owing(q) /\ q.pc = "spend" /\ q.copy = proc[h].copy
                     /\ q.token = proc[h].token /\ Len(proc[h].keys) = 1
                  \/ /\ q.copy = None /\ q.token = None /\ ~Owing(proc[h])
                     /\ Len(proc[h].keys) = 1
  BY <1>0, AfterDel DEF invalidateCache
<1>2. PICK c, k : c = proc[h].copy /\ k = Head(proc[h].keys)
  OBVIOUS
<1>3. /\ c # None /\ c.id \in Users /\ k \in Users \cup Emails /\ k \in {c.id, c.email}
      /\ Len(proc[h].keys) = 1 => k = c.email
      /\ Len(proc[h].keys) = 2 => k = c.id
  <2>1. PICK n : n = Len(proc[h].keys)
    OBVIOUS
  <2>2. /\ c # None /\ c.id \in Users /\ c.email \in Emails
        /\ (n = 2 /\ k = c.id) \/ (n = 1 /\ k = c.email)
    BY <1>0, <1>2, <2>1, KeysOK
  <2> QED BY <2>1, <2>2
<1>4. \A g \in Handlers : proc[g].req.op = "Register" /\ proc[g].pc \in {"find", "fill", "apply", "save"} =>
                              row'[proc[g].req.arg[1]] = None
  BY <1>0 DEF IInv, ProcsOK, ProcOK
<1>5. ProcsOK'
  BY <1>0, <1>1, <1>4, ProcStep
<1>6. ASSUME NEW u \in Users PROVE UserSafe(h, q, u)
  <2>1. At(q, u) => At(proc[h], u) /\ q.pc \notin {"fill", "apply", "save"}
    BY <1>1 DEF At
  <2> QED BY <2>1 DEF UserSafe, UserProc
<1>7. ASSUME NEW x \in Secrets \ disturbed PROVE SecretSafe(h, q, x, secret[x].state)
  <2>1. SecretProc(proc[h], x, uses[x], secret[x].state)
    BY <1>7 DEF IInv, SecretCalm
  <2>2. SecretProc(q, x, uses[x], secret[x].state)
    BY <1>1, <1>7, <2>1, AccountsAssumption DEF SecretProc, Owing
  <2>3. Owing(proc[h]) => q.token = proc[h].token /\ Owing(q)
    BY <1>1 DEF Owing
  <2>4. q.token = x => proc[h].token = x
    BY <1>1, <1>7, AccountsAssumption
  <2> QED BY <2>2, <2>3, <2>4 DEF SecretSafe
<1>8. CASE cache' = [cache EXCEPT ![k] = None] /\ UNCHANGED disturbed
  <2>1. /\ cache' \in [Users \cup Emails -> User \cup {None}]
        /\ \A j \in Users \cup Emails : cache'[j] = IF j = k THEN None ELSE cache[j]
    BY <1>3, <1>8 DEF IInv, RowsOK
  <2>2. RowsOK'
    BY <1>0, <2>1 DEF IInv, RowsOK
  <2>3. ASSUME NEW u \in Users \ disturbed PROVE UserCalm(u)'
    <3>1. ASSUME NEW j \in Users \cup Emails, cache'[j] # None, cache'[j].id = u,
                 At(proc[h], u), Owes(proc[h], j)
          PROVE  At(q, u) /\ Owes(q, j)
      <4>1. cache[j] # None /\ j # k /\ cache[j].id = u
        BY <2>1, <3>1
      <4>2. j \in {u, cache[j].email} /\ Known(cache[j], row)
        BY <4>1 DEF IInv, RowsOK
      <4>3. c.id = u /\ Known(c, row)
        BY <1>0, <1>2, <3>1, KeysOK DEF At
      <4>4. cache[j].email = c.email
        BY <4>1, <4>2, <4>3 DEF Known
      <4>5. j = c.email /\ Len(proc[h].keys) = 2
        BY <1>0, <1>1, <1>2, <1>3, <3>1, <4>1, <4>2, <4>3, <4>4 DEF Owes
      <4> QED BY <1>1, <1>2, <3>1, <4>5 DEF At, Owes
    <3>2. \A j \in Users \cup Emails : cache'[j] # None /\ cache'[j].id = u =>
             /\ cache'[j] = cache[j]
             /\ At(proc[h], u) /\ Owes(proc[h], j) => At(q, u) /\ Owes(q, j)
      BY <2>1, <3>1
    <3> QED BY <1>0, <1>1, <1>6, <2>3, <3>2, UserStep
  <2>4. ASSUME NEW x \in Secrets \ disturbed PROVE SecretCalm(x)'
    BY <1>0, <1>1, <1>7, <2>4, SecretStep
  <2>5. SecretsOK' /\ HistoryOK'
    BY <1>0, <1>8 DEF IInv, SecretsOK, HistoryOK
  <2> QED BY <1>5, <1>8, <2>2, <2>3, <2>4, <2>5 DEF IInv
<1>9. CASE UNCHANGED cache /\ disturbed' = disturbed \cup Held(h)
  <2>1. PICK D : D = disturbed \cup Held(h)
    OBVIOUS
  <2>2. disturbed \subseteq D /\ D \subseteq Users \cup Secrets /\ disturbed' = D /\ admitted' \subseteq D
    BY <1>0, <1>9, <2>1, Facts DEF Held, ProcRecord
  <2>3. \A u \in Users \ D : UserSafe(h, q, u) /\ ~At(proc[h], u)
    BY <1>6, <2>1, AccountsAssumption DEF Held, At
  <2>4. \A x \in Secrets \ D : SecretSafe(h, q, x, secret[x].state)
    BY <1>7, <2>1
  <2> QED BY <1>0, <1>1, <1>9, <2>2, <2>3, <2>4, QuietStep
<1> QED BY <1>2, <1>8, <1>9 DEF invalidateCache

\* The upsert of the user row.
LEMMA SaveOK ==
    ASSUME IInv, NEW h \in Handlers, Save(h) PROVE IInv'
<1>0. proc[h].pc = "save" /\ UNCHANGED <<cache, secret, admitted, disturbed>>
  BY DEF Save
<1>1. PICK c, x : c = proc[h].copy /\ x = proc[h].token
  OBVIOUS
<1>2. /\ c # None /\ c \in User /\ c.id \in Users /\ c.email \in Emails
      /\ c.email = Lower[c.email] /\ proc[h].req.op \in Writes
  BY <1>0, <1>1, Facts DEF CopyOK, PlaceOK, ProcRecord, User
<1>3. ProcOK(proc[h], row, secret) /\ \A g \in Handlers \ {h} : ~Rivals(proc[g], proc[h])
  BY Facts
<1>4. CASE Taken(c)
  <2>1. Return(h) /\ UNCHANGED <<row, uses>>
    BY <1>1, <1>4 DEF Save
  <2> QED BY <1>0, <2>1, Facts, LeaveStep DEF Owing
<1>5. CASE ~Taken(c)
  <2>1. PICK q : q = [proc[h] EXCEPT !.pc = "del", !.keys = <<c.id, c.email>>]
    OBVIOUS
  <2>2. <<c.id, c.email>> \in Seq(Users \cup Emails) /\ Len(<<c.id, c.email>>) = 2
    BY <1>2
  <2>3. /\ proc' = [proc EXCEPT ![h] = q] /\ row' = [row EXCEPT ![c.id] = c]
        /\ uses' = [y \in Secrets |-> uses[y] + IF y = x THEN 1 ELSE 0]
    BY <1>1, <1>5, <2>1, Facts DEF Save, invalidatedKeys
  <2>4. /\ q \in ProcRecord /\ q.pc = "del" /\ q.keys = <<c.id, c.email>> /\ q.copy = c
        /\ q.req = proc[h].req /\ q.token = x
    BY <1>1, <2>1, <2>2, Facts DEF ProcRecord
  <2>5. /\ row' \in [Users -> User \cup {None}]
        /\ \A u \in Users : row'[u] = IF u = c.id THEN c ELSE row[u]
    BY <1>2, <2>3 DEF IInv, RowsOK
  <2>6. row[c.id] # None => row[c.id].email = c.email
    BY <1>1, <1>2, <1>3 DEF ProcOK, New, Known
  <2>7. \A u \in Users : row[u] # None => row'[u] # None /\ row'[u].email = row[u].email
    BY <1>2, <2>5, <2>6
  <2>8. RowsOK'
    <3>1. \A k \in Users \cup Emails : cache[k] # None =>
              Known(cache[k], row') /\ k \in {cache[k].id, cache[k].email}
      BY <2>7 DEF IInv, RowsOK, Known, User
    <3> QED BY <1>0, <1>2, <2>5, <3>1 DEF IInv, RowsOK
  <2>9. ProcOK(q, row', secret)
    <3>1. PlaceOK(q)
      BY <1>0, <1>1, <1>2, <2>4, Facts DEF PlaceOK
    <3>2. CopyOK(q)
      BY <1>2, <2>4 DEF CopyOK
    <3>3. Known(c, row')
      BY <1>2, <2>5 DEF Known
    <3> QED BY <1>3, <2>4, <3>1, <3>2, <3>3 DEF ProcOK
  <2>10. ASSUME NEW g \in Handlers \ {h}, proc[g].req.op = "Register",
                proc[g].pc \in {"find", "fill", "apply", "save"}
         PROVE  row'[proc[g].req.arg[1]] = None
    <3>1. ProcOK(proc[g], row, secret) /\ PlaceOK(proc[g]) /\ ~Rivals(proc[g], proc[h])
      BY <1>3, <2>10, Facts
    <3>2. row[proc[g].req.arg[1]] = None /\ proc[g].req.arg[1] \in Users
      BY <2>10, <3>1 DEF ProcOK, PlaceOK, ReqOK
    <3>3. proc[g].req.arg[1] # c.id
      <4>1. CASE row[c.id] # None
        BY <3>2, <4>1
      <4>2. CASE row[c.id] = None
        <5>1. New(proc[h]) /\ c.id = proc[h].req.arg[1]
          BY <1>1, <1>2, <1>3, <4>2 DEF ProcOK, Known
        <5> QED BY <2>10, <3>1, <5>1 DEF New, Rivals
      <4> QED BY <4>1, <4>2
    <3> QED BY <2>5, <3>2, <3>3
  <2>11. \A g \in Handlers \ {h} : ~Rivals(proc[g], q)
    BY <1>3, <2>4 DEF Rivals
  <2>12. ProcsOK'
    BY <1>0, <2>3, <2>7, <2>9, <2>10, <2>11, ProcStep
  <2>13. SecretsOK' /\ HistoryOK'
    BY <1>0, <2>3 DEF IInv, SecretsOK, HistoryOK
  <2>14. ASSUME NEW u \in Users \ disturbed PROVE UserCalm(u)'
    <3>1. CASE u # c.id
      <4>1. UserSafe(h, q, u) /\ ~At(proc[h], u) /\ row'[u] = row[u]
        BY <1>1, <2>4, <2>5, <3>1 DEF UserSafe, UserProc, At
      <4> QED BY <1>0, <2>3, <2>14, <4>1, UserStep
    <3>2. CASE u = c.id
      <4>1. \A g \in Handlers : proc'[g] = IF g = h THEN q ELSE proc[g]
        BY <2>3, Facts
      <4>2. At(proc[h], u) /\ At(q, u) /\ UserCalm(u)
        BY <1>1, <1>2, <2>4, <2>14, <3>2 DEF At, IInv
      <4>3. \A g \in Handlers \ {h} : ~At(proc[g], u)
        BY <4>2 DEF UserCalm
      <4>4. \A k : Owes(q, k)
        BY <2>2, <2>4 DEF Owes
      <4>5. \A g \in Handlers : UserProc(proc'[g], u, row'[u])
        BY <2>4, <4>1, <4>3 DEF UserProc
      <4>6. \A f, g \in Handlers : At(proc'[f], u) /\ At(proc'[g], u) => f = g
        BY <4>1, <4>3
      <4>7. \A k \in Users \cup Emails : \E g \in Handlers : At(proc'[g], u) /\ Owes(proc'[g], k)
        BY <4>1, <4>2, <4>4
      <4> QED BY <4>5, <4>6, <4>7 DEF UserCalm
    <3> QED BY <3>1, <3>2
  <2>15. ASSUME NEW y \in Secrets \ disturbed PROVE SecretCalm(y)'
    <3>0. SecretCalm(y) /\ uses[y] \in Nat /\ SecretProc(proc[h], y, uses[y], secret[y].state)
      BY <2>15 DEF IInv, SecretCalm, SecretsOK
    <3>1. CASE y # x
      <4>1. SecretSafe(h, q, y, secret[y].state)
        BY <1>1, <2>4, <3>1 DEF SecretSafe, SecretProc
      <4>2. uses'[y] = uses[y]
        BY <2>3, <3>0, <3>1
      <4> QED BY <1>0, <2>3, <2>15, <4>1, <4>2, SecretStep
    <3>2. CASE y = x
      <4>1. proc[h].req.op = "ResetPassword"
        <5>1. x # None
          BY <3>2, AccountsAssumption
        <5> QED BY <1>1, <1>2, <5>1, Facts DEF PlaceOK, Spends, Writes
      <4>2. uses[y] = 0 /\ uses'[y] = 1
        BY <1>0, <1>1, <2>3, <3>0, <3>2 DEF SecretProc, Owing
      <4>3. Owing(q) /\ q.token = y /\ q.pc # "issue"
        BY <2>4, <3>2, <4>1 DEF Owing
      <4>4. \A g \in Handlers : proc'[g] = IF g = h THEN q ELSE proc[g]
        BY <2>3, Facts
      <4>5. \A g \in Handlers \ {h} : proc[g].token # y
        BY <1>1, <3>0, <3>2 DEF SecretCalm
      <4>6. \A f, g \in Handlers : proc'[f].token = y /\ proc'[g].token = y => f = g
        BY <4>4, <4>5
      <4>7. \A g \in Handlers : SecretProc(proc'[g], y, uses'[y], secret'[y].state)
        BY <4>3, <4>4, <4>5 DEF SecretProc
      <4>8. \E g \in Handlers : proc'[g].token = y /\ Owing(proc'[g])
        BY <4>3, <4>4
      <4> QED BY <4>2, <4>6, <4>7, <4>8 DEF SecretCalm
    <3> QED BY <3>1, <3>2
  <2> QED BY <1>0, <2>8, <2>12, <2>13, <2>14, <2>15 DEF IInv
<1> QED BY <1>4, <1>5

\* A step that changes secrets only, and they only ever go on: h moves on to q.
LEMMA SecretsStep ==
    ASSUME IInv, NEW h \in Handlers, NEW q, proc' = [proc EXCEPT ![h] = q],
           UNCHANGED <<row, cache, admitted>>, disturbed \subseteq disturbed',
           disturbed' \subseteq Users \cup Secrets, SecretsOK',
           \A x \in Secrets : secret[x].state # "new" => secret'[x].state # "new",
           ProcOK(q, row, secret'), proc[h].pc # "del", q.pc \notin {"fill", "apply", "save"},
           \A g \in Handlers \ {h} : ~Rivals(proc[g], q),
           q.copy = proc[h].copy \/ q.copy = None,
           \A x \in Secrets \ disturbed' : SecretCalm(x)'
    PROVE  IInv'
<1>1. \A g \in Handlers : proc[g].req.op = "Register" /\ proc[g].pc \in {"find", "fill", "apply", "save"} =>
                              row'[proc[g].req.arg[1]] = None
  BY DEF IInv, ProcsOK, ProcOK
<1>2. ProcsOK'
  BY <1>1, ProcStep
<1>3. RowsOK' /\ HistoryOK'
  BY DEF IInv, RowsOK, HistoryOK
<1>4. ASSUME NEW u \in Users \ disturbed' PROVE UserCalm(u)'
  <2>1. UserSafe(h, q, u) /\ u \in Users \ disturbed
    BY DEF UserSafe, UserProc, At
  <2> QED BY <2>1, UserStep DEF Owes
<1> QED BY <1>2, <1>3, <1>4 DEF IInv

\* The statement that spends the secret, or its loss.
LEMMA SpendOK ==
    ASSUME IInv, NEW h \in Handlers, Spend(h) PROVE IInv'
<1>0. /\ proc[h].pc = "spend" /\ UNCHANGED <<row, cache, uses, admitted>>
      /\ proc[h].req.op \in Spends \cup {"Revoke"} /\ ReqOK(proc[h].req)
  BY Facts DEF Spend, PlaceOK
<1>1. PICK x : x = proc[h].req.key
  OBVIOUS
<1>2. /\ x \in Secrets /\ secret[x].state # "new" /\ proc[h].token \in {None, x}
      /\ proc[h].req.op \in Spends => proc[h].token = x
  BY <1>0, <1>1, Facts DEF ReqOK, ProcOK, PlaceOK, Spends, Secrets
<1>3. PICK q : /\ proc' = [proc EXCEPT ![h] = q]
               /\ \/ /\ q \in ProcRecord /\ q.pc = "issue" /\ q.token = proc[h].token
                     /\ q.req = proc[h].req /\ q.copy = proc[h].copy
                     /\ proc[h].req.op \in {"Exchange", "Refresh"}
                  \/ q = Idle /\ proc[h].req.op \notin {"Exchange", "Refresh"}
  <2>1. CASE proc[h].req.op \in {"Exchange", "Refresh"}
    <3>1. PICK q : q = [proc[h] EXCEPT !.pc = "issue"]
      OBVIOUS
    <3>2. /\ proc' = [proc EXCEPT ![h] = q] /\ q \in ProcRecord /\ q.pc = "issue"
          /\ q.token = proc[h].token /\ q.req = proc[h].req /\ q.copy = proc[h].copy
      BY <2>1, <3>1, Facts DEF Spend, Goto, ProcRecord
    <3> QED BY <2>1, <3>2
  <2>2. CASE proc[h].req.op \notin {"Exchange", "Refresh"}
    BY <2>2 DEF Spend, Return
  <2> QED BY <2>1, <2>2
<1>4. /\ q.pc \in {"issue", "idle"} /\ q.token \in {None, x} /\ (q.token # None => q.token = proc[h].token)
      /\ q.copy = proc[h].copy \/ q.copy = None
      /\ q.pc = "issue" => q.req = proc[h].req
  <2>1. CASE q = Idle
    BY <2>1, IdleOK
  <2>2. CASE q.pc = "issue" /\ q.token = proc[h].token /\ q.req = proc[h].req /\ q.copy = proc[h].copy
    BY <1>2, <2>2
  <2> QED BY <1>3, <2>1, <2>2
<1>5. /\ secret' \in [Secrets -> Secret]
      /\ \A y \in Secrets : /\ secret'[y].user = secret[y].user
                            /\ secret'[y].state \in {secret[y].state, "spent"}
                            /\ y # x => secret'[y].state = secret[y].state
      /\ x \in Secrets \ disturbed' => secret'[x].state = "spent"
      /\ disturbed \subseteq disturbed' /\ disturbed' \subseteq Users \cup Secrets
  <2>1. CASE secret' = Spent(h) /\ UNCHANGED disturbed
    BY <1>1, <1>2, <2>1, Facts DEF Spent, IInv, SecretsOK, Secret
  <2>2. CASE UNCHANGED secret /\ disturbed' = disturbed \cup {proc[h].req.key}
    BY <1>1, <1>2, <2>2, Facts DEF IInv, SecretsOK
  <2> QED BY <2>1, <2>2 DEF Spend
<1>6. ProcOK(q, row, secret')
  <2>1. CASE q = Idle
    BY <2>1, IdleOK
  <2>2. CASE q \in ProcRecord /\ q.pc = "issue" /\ proc[h].req.op \in {"Exchange", "Refresh"}
             /\ q.token = proc[h].token /\ q.req = proc[h].req /\ q.copy = proc[h].copy
    <3>1. PlaceOK(q)
      BY <1>0, <1>1, <1>2, <2>2, Facts DEF PlaceOK, Spends, Issues
    <3>2. CopyOK(q)
      BY <2>2, Facts DEF CopyOK
    <3>3. ProcOK(proc[h], row, secret)
      BY Facts
    <3> QED BY <1>0, <1>1, <1>2, <1>5, <2>2, <3>1, <3>2, <3>3 DEF ProcOK, New
  <2> QED BY <1>3, <2>1, <2>2
<1>7. SecretsOK'
  BY <1>0, <1>2, <1>5 DEF IInv, SecretsOK
<1>8. \A y \in Secrets : secret[y].state # "new" => secret'[y].state # "new"
  BY <1>5
<1>9. \A g \in Handlers \ {h} : ~Rivals(proc[g], q)
  BY <1>3, Facts, IdleOK DEF Rivals
<1>10. ASSUME NEW y \in Secrets \ disturbed' PROVE SecretCalm(y)'
  <2>1. SecretProc(proc[h], y, uses[y], secret[y].state) /\ y \in Secrets \ disturbed
    BY <1>5, <1>10 DEF IInv, SecretCalm
  <2>2. y = x => secret'[y].state = "spent"
    BY <1>5, <1>10
  <2>3. SecretProc(q, y, uses[y], secret'[y].state)
    <3>1. ASSUME q.token = y PROVE uses[y] = 0 /\ secret'[y].state = "spent"
      <4>1. y = x /\ q.token # None /\ proc[h].token = y
        BY <1>4, <3>1, AccountsAssumption
      <4>2. ~Owing(proc[h])
        BY <1>3, <4>1, IdleOK DEF Owing
      <4> QED BY <2>1, <2>2, <4>1, <4>2 DEF SecretProc
    <3> QED BY <3>1 DEF SecretProc
  <2>4. SecretSafe(h, q, y, secret'[y].state)
    <3>1. q.token = y => proc[h].token = y
      BY <1>4, AccountsAssumption
    <3>2. proc[h].token = y => y = x
      BY <1>2, AccountsAssumption
    <3> QED BY <2>2, <2>3, <3>1, <3>2 DEF SecretSafe
  <2> QED BY <1>0, <1>3, <1>5, <2>1, <2>4, SecretStep
<1> QED BY <1>0, <1>3, <1>4, <1>5, <1>6, <1>7, <1>8, <1>9, <1>10, SecretsStep

\* A new secret, and with it the effect of the one that was spent for it.
LEMMA IssueOK ==
    ASSUME IInv, NEW h \in Handlers, Issue(h) PROVE IInv'
<1>0. /\ proc[h].pc = "issue" /\ UNCHANGED <<row, cache, admitted, disturbed>> /\ Return(h)
      /\ proc[h].req.op \in Issues /\ ReqOK(proc[h].req)
  BY Facts DEF Issue, PlaceOK
<1>1. CASE UNCHANGED <<secret, uses>>
  BY <1>0, <1>1, Facts, LeaveStep DEF Owing
<1>2. ASSUME Table(proc[h].req.op) \ Issued(Secrets) # {},
             secret' = [secret EXCEPT ![CHOOSE x \in Table(proc[h].req.op) \ Issued(Secrets) : TRUE] =
                                             [state |-> "live", user |-> Owner(h)]],
             uses' = [x \in Secrets |-> uses[x] + IF x = proc[h].token THEN 1 ELSE 0]
      PROVE  IInv'
  <2>1. PICK n : n = CHOOSE x \in Table(proc[h].req.op) \ Issued(Secrets) : TRUE
    OBVIOUS
  <2>2. n \in Table(proc[h].req.op) \ Issued(Secrets)
    BY <1>2, <2>1
  <2>3. n \in Secrets /\ secret[n].state = "new"
    <3>1. Table(proc[h].req.op) \subseteq Secrets
      BY <1>0 DEF Table, Issues, Secrets
    <3> QED BY <2>2, <3>1 DEF Issued
  <2>4. PICK t : t = proc[h].token
    OBVIOUS
  <2>5. /\ proc[h].req.op \in {"Exchange", "Refresh"} =>
              t = proc[h].req.key /\ t \in Secrets /\ secret[t].state # "new"
        /\ proc[h].req.op \notin {"Exchange", "Refresh"} => t = None
    BY <1>0, <2>4, Facts DEF PlaceOK, ProcOK, ReqOK, Spends, Issues, Secrets
  <2>6. Owner(h) \in Users
    <3>1. CASE proc[h].req.op = "RequestPasswordReset"
      BY <1>0, <3>1, Facts DEF Owner, CopyOK, ProcRecord, User
    <3>2. CASE proc[h].req.op = "Authorize"
      BY <1>0, <3>2 DEF Owner, ReqOK
    <3>3. CASE proc[h].req.op \in {"Exchange", "Refresh"}
      BY <2>4, <2>5, <3>3 DEF Owner, IInv, SecretsOK
    <3> QED BY <1>0, <3>1, <3>2, <3>3 DEF Issues
  <2>7. PICK s : s = [state |-> "live", user |-> Owner(h)]
    OBVIOUS
  <2>8. s \in Secret /\ s.state = "live" /\ s.user \in Users
    BY <2>6, <2>7 DEF Secret
  <2>9. /\ secret' \in [Secrets -> Secret]
        /\ \A y \in Secrets : secret'[y] = IF y = n THEN s ELSE secret[y]
    BY <1>2, <2>1, <2>3, <2>7, <2>8 DEF IInv, SecretsOK
  <2>10. SecretsOK'
    BY <1>2, <2>8, <2>9 DEF IInv, SecretsOK
  <2>11. PICK q : q = Idle
    OBVIOUS
  <2>12. /\ proc' = [proc EXCEPT ![h] = q] /\ q.pc = "idle" /\ q.copy = None /\ q.token = None
         /\ q.req.op = "none" /\ ProcOK(q, row, secret')
    BY <1>0, <2>11, IdleOK DEF Return
  <2>13. ASSUME NEW y \in Secrets \ disturbed' PROVE SecretCalm(y)'
    <3>0. /\ SecretCalm(y) /\ uses[y] \in Nat /\ y \in Secrets \ disturbed
          /\ SecretProc(proc[h], y, uses[y], secret[y].state)
      BY <1>0, <2>13 DEF IInv, SecretCalm, SecretsOK
    <3>1. CASE y # t
      <4>1. SecretSafe(h, q, y, secret'[y].state)
        BY <2>4, <2>12, <3>0, <3>1, AccountsAssumption DEF SecretSafe, SecretProc
      <4>2. uses'[y] = uses[y]
        BY <1>2, <2>4, <3>0, <3>1
      <4>3. secret[y].state = "spent" => secret'[y].state = "spent"
        BY <2>3, <2>9, <3>0
      <4> QED BY <2>12, <3>0, <4>1, <4>2, <4>3, SecretStep
    <3>2. CASE y = t
      <4>1. y # n
        BY <2>3, <2>5, <3>2, <3>0, AccountsAssumption
      <4>2. uses[y] = 0 /\ secret[y].state = "spent"
        BY <1>0, <2>4, <3>0, <3>2 DEF SecretProc, Owing
      <4>3. uses'[y] = 1 /\ secret'[y].state = "spent"
        BY <1>2, <2>4, <2>9, <3>0, <3>2, <4>1, <4>2
      <4>4. \A g \in Handlers : proc'[g] = IF g = h THEN q ELSE proc[g]
        BY <2>12, Facts
      <4>5. \A g \in Handlers : proc'[g].token # y
        BY <2>4, <2>12, <3>0, <3>2, <4>4, AccountsAssumption DEF SecretCalm
      <4> QED BY <4>3, <4>5 DEF SecretCalm, SecretProc
    <3> QED BY <3>1, <3>2
  <2>14. \A y \in Secrets : secret[y].state # "new" => secret'[y].state # "new"
    BY <2>8, <2>9
  <2>15. \A g \in Handlers \ {h} : ~Rivals(proc[g], q)
    BY <2>12 DEF Rivals
  <2>16. disturbed \subseteq disturbed' /\ disturbed' \subseteq Users \cup Secrets
    BY <1>0, Facts
  <2> QED BY <1>0, <2>10, <2>12, <2>13, <2>14, <2>15, <2>16, SecretsStep
<1> QED BY <1>1, <1>2 DEF Issue

-----------------------------------------------------------------------------
(* The inductive invariant *)

\* Nobody is at work, Redis is empty and no secret has taken effect.
LEMMA InitOK ==
    ASSUME Init PROVE IInv
<1>1. /\ cache = [k \in Users \cup Emails |-> None] /\ proc = [h \in Handlers |-> Idle]
      /\ uses = [x \in Secrets |-> 0] /\ admitted = {} /\ disturbed = {}
  BY DEF Init
<1>2. PICK r \in InitialRows : row = r.users /\ secret = r.secrets
  BY DEF Init
<1>3. RowsOK
  BY <1>1, <1>2, RowsAssumption DEF RowsOK
<1>4. SecretsOK
  BY <1>1, <1>2, RowsAssumption DEF SecretsOK
<1>5. \A h \in Handlers : /\ proc[h] = Idle /\ proc[h].copy = None /\ proc[h].token = None
                          /\ proc[h].req.op = "none" /\ ProcOK(proc[h], row, secret)
  BY <1>1, IdleOK
<1>6. ProcsOK
  <2>1. proc \in [Handlers -> ProcRecord]
    BY <1>1, IdleOK
  <2> QED BY <1>5, <2>1 DEF ProcsOK, Rivals
<1>7. HistoryOK
  BY <1>1 DEF HistoryOK
<1>8. \A u \in Users : UserCalm(u)
  BY <1>1, <1>5 DEF UserCalm, UserProc, At
<1>9. \A x \in Secrets : SecretCalm(x)
  BY <1>1, <1>5, AccountsAssumption DEF SecretCalm, SecretProc
<1> QED BY <1>3, <1>4, <1>6, <1>7, <1>8, <1>9 DEF IInv

\* Every step keeps the invariant.
LEMMA NextOK ==
    ASSUME IInv, [Next]_vars PROVE IInv'
<1>1. CASE Next
  BY <1>1, ArriveOK, FindOK, writeCacheOK, ApplyOK, SaveOK, SaveFailsOK, invalidateCacheOK,
     LookupOK, SpendOK, IssueOK, CrashOK DEF Next
<1>2. CASE UNCHANGED vars
  BY <1>2 DEF vars, IInv, RowsOK, SecretsOK, ProcsOK, HistoryOK, UserCalm, SecretCalm
<1> QED BY <1>1, <1>2

\* The invariant of every reachable state.
LEMMA Inductive == Spec => []IInv
BY InitOK, NextOK, PTL DEF Spec

-----------------------------------------------------------------------------
(* What it gives *)

\* Rows and copies hold whole users, under their keys and in lower case, and
\* nobody is at work with a secret that was not issued.
THEOREM TypeCorrect == Spec => []TypeOK
<1>1. ASSUME IInv PROVE TypeOK
  <2>1. \A u \in Users : row[u] # None =>
           row[u] \in User /\ row[u].id = u /\ row[u].email = Lower[row[u].email]
    BY <1>1 DEF IInv, RowsOK
  <2>2. \A k \in Users \cup Emails : cache[k] # None =>
           cache[k] \in User /\ k \in {cache[k].id, cache[k].email}
    BY <1>1 DEF IInv, RowsOK
  <2>3. ASSUME NEW h \in Handlers, proc[h].token # None PROVE proc[h].token \in Issued(Secrets)
    <3>1. ProcOK(proc[h], row, secret) /\ PlaceOK(proc[h]) /\ proc[h] \in ProcRecord
      BY <1>1, Facts
    <3>2. proc[h].token = proc[h].req.key /\ proc[h].req.op \in Spends /\ proc[h].token \in Secrets
      BY <2>3, <3>1 DEF PlaceOK, ProcRecord
    <3> QED BY <3>1, <3>2 DEF ProcOK, Issued
  <2> QED BY <1>1, <2>1, <2>2, <2>3 DEF TypeOK, IInv, HistoryOK
<1> QED BY <1>1, Inductive, PTL

\* ResetPassword, Exchange, Refresh: a secret takes effect once, unless two
\* requests held it at once or the statement that spends it was lost.
THEOREM SecretsAreSpentOnce == Spec => []SpentOnce
<1>1. ASSUME IInv PROVE SpentOnce
  BY <1>1 DEF IInv, SecretCalm, SpentOnce
<1> QED BY <1>1, Inductive, PTL

\* Login: of a user nobody disturbed, the copy it looks at is the row.
THEOREM LoginIsCurrent == Spec => []LoginSeesTheRow
<1>1. ASSUME IInv PROVE LoginSeesTheRow
  BY <1>1 DEF IInv, HistoryOK, LoginSeesTheRow
<1> QED BY <1>1, Inductive, PTL

\* Save: a status is changed by SuspendUser and ActivateUser only, a password
\* by ResetPassword only, of a user nobody disturbed.
THEOREM SavedAsAsked == Spec => ChangedAsAsked
<1> DEFINE Asked == \A u \in Users \ disturbed : \A h \in Handlers :
          row[u] # None /\ proc[h].pc = "save" /\ proc'[h].pc = "del" /\ proc[h].copy.id = u =>
              /\ row'[u].status # row[u].status => proc[h].req.op \in {"SuspendUser", "ActivateUser"}
              /\ row'[u].password # row[u].password => proc[h].req.op = "ResetPassword"
<1>1. ASSUME IInv, [Next]_vars, NEW u \in Users \ disturbed, NEW h \in Handlers,
             row[u] # None, proc[h].pc = "save", proc'[h].pc = "del", proc[h].copy.id = u
      PROVE  /\ row'[u].status # row[u].status => proc[h].req.op \in {"SuspendUser", "ActivateUser"}
             /\ row'[u].password # row[u].password => proc[h].req.op = "ResetPassword"
  <2>1. CASE row' = row
    BY <2>1
  <2>2. ASSUME NEW g \in Handlers, Save(g), row' # row
        PROVE  /\ row'[u].status # row[u].status => proc[h].req.op \in {"SuspendUser", "ActivateUser"}
               /\ row'[u].password # row[u].password => proc[h].req.op = "ResetPassword"
    <3>1. proc' = [proc EXCEPT ![g].pc = "del", ![g].keys = invalidatedKeys(proc[g].copy)]
          /\ row' = [row EXCEPT ![proc[g].copy.id] = proc[g].copy]
      BY <2>2 DEF Save
    <3>2. g = h
      BY <1>1, <3>1, Facts
    <3>3. row'[u] = proc[h].copy
      BY <1>1, <3>1, <3>2 DEF IInv, RowsOK
    <3>4. UserProc(proc[h], u, row[u]) /\ At(proc[h], u)
      BY <1>1, Facts DEF IInv, UserCalm, CopyOK, At
    <3> QED BY <1>1, <3>3, <3>4 DEF UserProc
  <2>3. row' = row \/ \E g \in Handlers : Save(g)
    BY <1>1 DEF Next, Arrive, Find, writeCache, Apply, SaveFails, invalidateCache, Lookup, Spend,
       Issue, Crash, vars
  <2> QED BY <2>1, <2>2, <2>3
<1>2. IInv /\ [Next]_vars => [Asked]_vars
  BY <1>1
<1>3. ChangedAsAsked <=> [][Asked]_vars
  BY DEF ChangedAsAsked
<1> HIDE DEF Asked
<1> QED BY <1>2, <1>3, Inductive, PTL DEF Spec

=============================================================================
