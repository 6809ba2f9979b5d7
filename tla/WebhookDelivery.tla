--------------------------- MODULE WebhookDelivery ---------------------------
(***************************************************************************)
(* Order events on their way to the customers' webhooks: the JetStream     *)
(* consumer of main.go, WebhookDeliverer with its delivery log, the retry  *)
(* worker, the administrator's manual retry, and the registration and      *)
(* deletion of webhooks.                                                   *)
(***************************************************************************)
EXTENDS Integers, Sequences, FiniteSets, SequencesExt

CONSTANTS
    Orders,        \* events on the stream "orders"
    Webhooks, None,
    Subscribed,    \* the events each webhook lists
    BadURLs,       \* webhooks whose URL makes no request: it was only not empty
    InitialWebhooks, \* what the webhooks table may hold at first
    Consumers, Retriers, Admins,
    MaxRetries,    \* posts of one delivery: 3
    Limit,         \* entries the retry worker takes at a time: 50
    MaxPublished,  \* bound: events that are published
    MaxFaults,     \* bound: posts, writes and processes that fail
    MaxRequests    \* bound: requests of users and administrators

VARIABLES
    published,  \* events in the streams
    acked,      \* order events that are acknowledged
    webhook,    \* the webhooks table: "none", "active" or "deleted"
    log,        \* webhook_delivery_log, oldest first
    proc,       \* consumers, retry workers and administrators
    received,   \* how often an endpoint got an event, at most Often
    owed,       \* webhooks that were there when an event was published (history)
    dbFailed,   \* a write or a query failed (history)
    faults, requests

Processes == Consumers \cup Retriers \cup Admins

Often == 2

Active(w) == webhook[w] = "active"

-----------------------------------------------------------------------------
(* The log *)

Row(x) == CHOOSE i \in DOMAIN log : log[i].ID = x

Logged(x) == \E i \in DOMAIN log : log[i].ID = x

\* Entries somebody works on.
Held == {proc[p].entry : p \in Processes} \ {0}

\* Delivered and retried entries are never looked at again.  Those nobody
\* holds are dropped when the next one is written, to keep the log finite.
Open == {i \in DOMAIN log : log[i].Status \in {"pending", "failed"} \/ log[i].ID \in Held}

Used == Held \cup {log[i].ID : i \in Open}

FreshID == CHOOSE n \in 1..(Cardinality(Used) + 1) : n \notin Used

\* A set of numbers as a sequence, in ascending order, and the entries there:
\* each the one element of its set.
InOrder(S) == {f \in SetToSeqs(S) : \A i, j \in DOMAIN f : i < j => f[i] < f[j]}

Kept(S) == {[i \in DOMAIN f |-> log[f[i]]] : f \in InOrder(S)}

Job(w, e) == [webhook |-> w, event |-> e]

Entry(x, job) ==
    [ID |-> x, WebhookID |-> job.webhook, Event |-> job.event, Status |-> "pending",
     NextRetry |-> None]

\* The upsert: an entry that went with its webhook cannot come back.
Save(x, status, next) ==
    log' = IF Logged(x)
           THEN [log EXCEPT ![Row(x)].Status = status, ![Row(x)].NextRetry = next]
           ELSE log

MarkRetried(x) == Save(x, "retried", log[Row(x)].NextRetry)

\* NextRetry: None, which is taken at once, "later", and "due" once it is past.
ListFailedDueForRetry ==
    LET due == {i \in DOMAIN log : log[i].Status = "failed" /\ log[i].NextRetry # "later"}
    IN  {i \in due : Cardinality({j \in due : j < i}) < Limit}

FindByEvent(e) == {w \in Webhooks : Active(w) /\ e \in Subscribed[w]}

-----------------------------------------------------------------------------
Idle == [pc |-> "idle", event |-> None, todo |-> <<>>, entry |-> 0, try |-> 0]

WebhookInit ==
    /\ acked = {}
    /\ webhook \in InitialWebhooks
    /\ log = <<>>
    /\ proc = [p \in Processes |-> Idle]
    /\ received = [w \in Webhooks |-> [e \in Orders |-> 0]]
    /\ owed = {}
    /\ dbFailed = FALSE

Fault == faults < MaxFaults /\ faults' = faults + 1

DbFault == Fault /\ dbFailed' = TRUE

Request == requests < MaxRequests /\ requests' = requests + 1

\* The order service publishes an event.
Announce(e) ==
    /\ e \in Orders \ published
    /\ Cardinality(published) < MaxPublished
    /\ published' = published \cup {e}
    /\ owed' = owed \cup {<<w, e>> : w \in FindByEvent(e)}
    /\ UNCHANGED <<acked, webhook, log, proc, received, dbFailed, faults, requests>>

RestRegister == {w \in Webhooks : webhook[w] = "none"}
McpRegister == RestRegister
RestDelete == {w \in Webhooks : Active(w)}
McpDelete == RestDelete

Register(w) ==
    /\ Request
    /\ w \in RestRegister \cup McpRegister
    /\ webhook' = [webhook EXCEPT ![w] = "active"]
    /\ UNCHANGED <<published, acked, log, proc, received, owed, dbFailed, faults>>

\* Mutation: the log entries stay.
DeleteKeepsLog(w) ==
    /\ Request
    /\ Active(w)
    /\ webhook' = [webhook EXCEPT ![w] = "deleted"]
    /\ UNCHANGED <<published, acked, log, proc, received, owed, dbFailed, faults>>

\* The log entries go with the webhook (ON DELETE CASCADE).
Delete(w) ==
    /\ Request
    /\ w \in RestDelete \cup McpDelete
    /\ webhook' = [webhook EXCEPT ![w] = "deleted"]
    /\ log' \in Kept({i \in DOMAIN log : log[i].WebhookID # w})
    /\ UNCHANGED <<published, acked, proc, received, owed, dbFailed, faults>>

-----------------------------------------------------------------------------
(* The consumer of order.> *)

\* Mutation: the event is acknowledged before it is delivered.
ConsumeAck(c) ==
    /\ proc[c].pc = "idle"
    /\ \E e \in (published \cap Orders) \ acked :
          /\ acked' = acked \cup {e}
          /\ \E ws \in SetToSeqs(FindByEvent(e)) :
                proc' = [proc EXCEPT ![c] =
                    [Idle EXCEPT !.pc = "next", !.event = e,
                                 !.todo = [i \in DOMAIN ws |-> Job(ws[i], e)]]]
    /\ UNCHANGED <<published, webhook, log, received, owed, dbFailed, faults, requests>>

\* An event another consumer still works on is delivered again after AckWait,
\* which three posts of ten seconds outlast.  A query that fails, like one
\* that finds no webhook, acknowledges the event.
Consume(c) ==
    /\ proc[c].pc = "idle"
    /\ \E e \in (published \cap Orders) \ acked :
          /\ IF \E d \in Consumers : proc[d].event = e THEN Fault ELSE UNCHANGED faults
          /\ IF FindByEvent(e) = {}
             THEN acked' = acked \cup {e} /\ UNCHANGED proc
             ELSE /\ \E ws \in SetToSeqs(FindByEvent(e)) :
                        proc' = [proc EXCEPT ![c] =
                            [Idle EXCEPT !.pc = "next", !.event = e,
                                         !.todo = [i \in DOMAIN ws |-> Job(ws[i], e)]]]
                  /\ UNCHANGED acked
    /\ UNCHANGED <<published, webhook, log, received, owed, dbFailed, requests>>

ConsumeBlind(c) ==
    /\ proc[c].pc = "idle"
    /\ DbFault
    /\ \E e \in (published \cap Orders) \ acked : acked' = acked \cup {e}
    /\ UNCHANGED <<published, webhook, log, proc, received, owed, requests>>

\* Every webhook was tried: the event is acknowledged, whatever came of it.
Ack(c) ==
    /\ proc[c].pc = "next"
    /\ proc[c].todo = <<>>
    /\ acked' = acked \cup {proc[c].event}
    /\ proc' = [proc EXCEPT ![c] = Idle]
    /\ UNCHANGED <<published, webhook, log, received, owed, dbFailed, faults, requests>>

-----------------------------------------------------------------------------
(* The retry worker *)

\* runOnce, up to the loop.  An entry stays failed when its event is delivered
\* again, under an entry of its own.  (Nothing makes a webhook inactive, so its
\* entries are never marked retried here.)
Tick(r) ==
    LET due == ListFailedDueForRetry
    IN  /\ proc[r].pc = "idle"
        /\ due # {}
        /\ \E ids \in InOrder(due) :
              proc' = [proc EXCEPT ![r] =
                  [Idle EXCEPT !.pc = "next",
                               !.todo = [i \in DOMAIN ids |->
                                   Job(log[ids[i]].WebhookID, log[ids[i]].Event)]]]
        /\ UNCHANGED <<published, acked, webhook, log, received, owed, dbFailed,
                       faults, requests>>

\* runOnce, after the loop.
Rest(r) ==
    /\ proc[r].pc = "next"
    /\ proc[r].todo = <<>>
    /\ proc' = [proc EXCEPT ![r] = Idle]
    /\ UNCHANGED <<published, acked, webhook, log, received, owed, dbFailed, faults, requests>>

\* Thirty seconds pass.
FallDue(i) ==
    /\ log[i].NextRetry = "later"
    /\ log' = [log EXCEPT ![i].NextRetry = "due"]
    /\ UNCHANGED <<published, acked, webhook, proc, received, owed, dbFailed, faults, requests>>

-----------------------------------------------------------------------------
(* Deliver *)

Next1(p) == [Idle EXCEPT !.pc = "next", !.event = proc[p].event, !.todo = Tail(proc[p].todo)]

\* The pending entry comes first: when it cannot be written, because the
\* webhook is gone or the write fails, nothing is posted.
Deliver(p) ==
    /\ proc[p].pc = "next"
    /\ proc[p].todo # <<>>
    /\ LET job == Head(proc[p].todo)
       IN  \/ /\ Active(job.webhook)
              /\ \E open \in Kept(Open) : log' = Append(open, Entry(FreshID, job))
              /\ proc' = [proc EXCEPT ![p].pc = "post", ![p].entry = FreshID, ![p].try = 1]
              /\ UNCHANGED <<dbFailed, faults>>
           \/ /\ IF Active(job.webhook) THEN DbFault ELSE UNCHANGED <<dbFailed, faults>>
              /\ proc' = [proc EXCEPT ![p] = Next1(p)]
              /\ UNCHANGED log
    /\ UNCHANGED <<published, acked, webhook, received, owed, requests>>

\* NewRequest refuses the URL: the entry stays pending, which nobody retries.
NewRequestFails(p) ==
    /\ proc[p].pc = "post"
    /\ Head(proc[p].todo).webhook \in BadURLs
    /\ proc' = [proc EXCEPT ![p] = Next1(p)]
    /\ UNCHANGED <<published, acked, webhook, log, received, owed, dbFailed, faults, requests>>

More(n) == IF n < Often THEN n + 1 ELSE n

Got(w, e) == received' = [received EXCEPT ![w][e] = More(@)]

\* The POST: accepted, refused, or accepted without the answer coming back.
Post(p) ==
    /\ proc[p].pc = "post"
    /\ Head(proc[p].todo).webhook \notin BadURLs
    /\ LET job == Head(proc[p].todo)
       IN  \/ /\ Got(job.webhook, job.event)
              /\ proc' = [proc EXCEPT ![p].pc = "accepted"]
              /\ UNCHANGED faults
           \/ /\ Fault
              /\ received' = received \/ Got(job.webhook, job.event)
              /\ proc' = [proc EXCEPT ![p].pc = "refused"]
    /\ UNCHANGED <<published, acked, webhook, log, owed, dbFailed, requests>>

\* A write of the log whose error is ignored.
Log(x, status, next) ==
    \/ Save(x, status, next) /\ UNCHANGED <<dbFailed, faults>>
    \/ UNCHANGED log /\ DbFault

\* Mutation: the entry is marked delivered whatever the answer was.
AnyAnswer(p) ==
    /\ proc[p].pc \in {"accepted", "refused"}
    /\ Log(proc[p].entry, "delivered", None)
    /\ proc' = [proc EXCEPT ![p] = Next1(p)]
    /\ UNCHANGED <<published, acked, webhook, received, owed, requests>>

\* Mutation: the delivery goes on after an accepted post.
AcceptedGoesOn(p) ==
    /\ proc[p].pc = "accepted"
    /\ Log(proc[p].entry, "delivered", None)
    /\ proc' = [proc EXCEPT ![p].pc = IF proc[p].try < MaxRetries THEN "post" ELSE "later",
                            ![p].try = @ + 1]
    /\ UNCHANGED <<published, acked, webhook, received, owed, requests>>

Accepted(p) ==
    /\ proc[p].pc = "accepted"
    /\ Log(proc[p].entry, "delivered", None)
    /\ proc' = [proc EXCEPT ![p] = Next1(p)]
    /\ UNCHANGED <<published, acked, webhook, received, owed, requests>>

\* Every refusal is logged as failed, with no NextRetry: the retry worker may
\* take the entry while this delivery is still trying.
Refused(p) ==
    /\ proc[p].pc = "refused"
    /\ Log(proc[p].entry, "failed", None)
    /\ proc' = [proc EXCEPT ![p].pc = IF proc[p].try < MaxRetries THEN "post" ELSE "later",
                            ![p].try = @ + 1]
    /\ UNCHANGED <<published, acked, webhook, received, owed, requests>>

Later(p) ==
    /\ proc[p].pc = "later"
    /\ Log(proc[p].entry, "failed", "later")
    /\ proc' = [proc EXCEPT ![p] = Next1(p)]
    /\ UNCHANGED <<published, acked, webhook, received, owed, requests>>

-----------------------------------------------------------------------------
(* The administrator's retry *)

RetryDelivery(a) ==
    /\ proc[a].pc = "idle"
    /\ Request
    /\ \E i \in DOMAIN log :
          /\ log[i].Status = "failed"
          /\ proc' = [proc EXCEPT ![a] =
                [Idle EXCEPT !.pc = "retry", !.entry = log[i].ID,
                             !.todo = <<Job(log[i].WebhookID, log[i].Event)>>]]
    /\ UNCHANGED <<published, acked, webhook, log, received, owed, dbFailed, faults>>

\* One POST; an entry that failed has a URL that makes a request.
Repost(a) ==
    /\ proc[a].pc = "retry"
    /\ LET job == Head(proc[a].todo)
       IN  \/ /\ Got(job.webhook, job.event)
              /\ proc' = [proc EXCEPT ![a].pc = "reaccepted"]
              /\ UNCHANGED faults
           \/ /\ Fault
              /\ received' = received \/ Got(job.webhook, job.event)
              /\ proc' = [proc EXCEPT ![a].pc = "rerefused"]
    /\ UNCHANGED <<published, acked, webhook, log, owed, dbFailed, requests>>

\* Retried, or failed with no NextRetry.  The errors of both are ignored.
Answer(a) ==
    LET x == proc[a].entry
    IN  /\ \/ /\ proc[a].pc = "reaccepted"
              /\ IF Logged(x) THEN MarkRetried(x) ELSE UNCHANGED log
              /\ UNCHANGED <<dbFailed, faults>>
           \/ proc[a].pc = "reaccepted" /\ UNCHANGED log /\ DbFault
           \/ proc[a].pc = "rerefused" /\ Log(x, "failed", None)
        /\ proc' = [proc EXCEPT ![a] = Idle]
        /\ UNCHANGED <<published, acked, webhook, received, owed, requests>>

\* The process dies; an event it had not acknowledged comes again.
Crash(p) ==
    /\ proc[p].pc # "idle"
    /\ Fault
    /\ proc' = [proc EXCEPT ![p] = Idle]
    /\ UNCHANGED <<published, acked, webhook, log, received, owed, dbFailed, requests>>

-----------------------------------------------------------------------------
WebhookStep(p) ==
    \/ Deliver(p) \/ NewRequestFails(p) \/ Post(p) \/ Accepted(p) \/ Refused(p) \/ Later(p)
    \/ p \in Consumers /\ (Consume(p) \/ Ack(p))
    \/ p \in Retriers /\ (Tick(p) \/ Rest(p))
    \/ p \in Admins /\ (Repost(p) \/ Answer(p))

WebhookNext ==
    \/ \E e \in Orders : Announce(e)
    \/ \E w \in Webhooks : Register(w) \/ Delete(w)
    \/ \E p \in Processes : WebhookStep(p) \/ Crash(p)
    \/ \E c \in Consumers : ConsumeBlind(c)
    \/ \E a \in Admins : RetryDelivery(a)
    \/ \E i \in DOMAIN log : FallDue(i)

=============================================================================
