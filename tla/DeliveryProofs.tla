--------------------------- MODULE DeliveryProofs ---------------------------
(***************************************************************************)
(* Delivery's invariants for every set of events, webhooks, processes and  *)
(* users' requests, and any number of faults.                              *)
(*                                                                         *)
(* Webhooks: an entry of the log and the process that holds its id agree   *)
(* on webhook and event, though entries come and go under the process;     *)
(* hence whoever writes "delivered" has posted what the entry names.       *)
(* Without a fault nothing ever fails, so no retry begins, and an event is *)
(* with one consumer whose list still names what was not posted yet.       *)
(*                                                                         *)
(* Notices: the row of preferences allows no more than the user's wishes,  *)
(* and a handler's copy is the row with its own change, unless two edits   *)
(* overlap.                                                                *)
(***************************************************************************)
EXTENDS Delivery, FiniteSetTheorems, TLAPS

LogEntry ==
    [ID: Nat \ {0}, WebhookID: Webhooks, Event: Orders,
     Status: {"pending", "failed", "delivered", "retried"},
     NextRetry: {None, "later", "due"}]

Jobs == [webhook: Webhooks, event: Orders]

Delivering == {"post", "accepted", "refused", "later"}
Retrying == {"retry", "reaccepted", "rerefused"}

Proc ==
    [pc: {"idle", "next"} \cup Delivering \cup Retrying, event: Orders \cup {None},
     todo: Seq(Jobs), entry: Nat, try: Nat]

HookTypes ==
    /\ published \subseteq Orders \cup Renewals
    /\ acked \subseteq published
    /\ webhook \in [Webhooks -> {"none", "active", "deleted"}]
    /\ log \in Seq(LogEntry)
    /\ proc \in [Hooks!Processes -> Proc]
    /\ received \in [Webhooks -> [Orders -> Nat]]
    /\ faults \in Nat

\* The log: one row for each id, rows go with their webhook, and what reads
\* delivered was received.
LogOK(l, hooks, got) ==
    /\ \A i, j \in DOMAIN l : l[i].ID = l[j].ID => i = j
    /\ \A i \in DOMAIN l : hooks[l[i].WebhookID] = "active"
    /\ \A i \in DOMAIN l : l[i].Status \in {"delivered", "retried"} =>
          got[l[i].WebhookID][l[i].Event] > 0

\* The id a process holds names the webhook and the event it is at.
HoldsItsEntry(q, l) ==
    \A i \in DOMAIN l : l[i].ID = q.entry =>
        l[i].WebhookID = q.todo[1].webhook /\ l[i].Event = q.todo[1].event

\* What process p may be doing.
ProcOK(p, q, l, got, pub) ==
    /\ q.pc \in Retrying => p \in Admins
    /\ q.pc \in {"next"} \cup Delivering => p \notin Admins
    /\ q.pc = "idle" => q.event = None
    /\ p \in Consumers /\ q.pc # "idle" => q.event \in pub
    /\ p \notin Consumers => q.event = None
    /\ q.pc \in {"idle", "next"} => q.entry = 0
    /\ q.pc \in Delivering \cup Retrying =>
          q.entry # 0 /\ q.todo # <<>> /\ HoldsItsEntry(q, l)
    /\ q.pc \in {"accepted", "reaccepted"} =>
          got[q.todo[1].webhook][q.todo[1].event] > 0

HookInv ==
    /\ HookTypes
    /\ LogOK(log, webhook, received)
    /\ \A p \in Hooks!Processes : ProcOK(p, proc[p], log, received, published)

\* Nothing has failed: there is nothing to retry, and a consumer has posted
\* what is no longer on its list, once.
Posted(q, got) ==
    /\ q.pc \notin {"refused", "later"}
    /\ \A j \in DOMAIN q.todo : q.todo[j].event = q.event
    /\ \A j, k \in DOMAIN q.todo : q.todo[j].webhook = q.todo[k].webhook => j = k
    /\ \A j \in DOMAIN q.todo :
          got[q.todo[j].webhook][q.event] = 0 \/ (j = 1 /\ q.pc = "accepted")

NothingFailed ==
    /\ \A i \in DOMAIN log : log[i].Status # "failed"
    /\ \A p \in Retriers \cup Admins : proc[p].pc = "idle"
    /\ \A c \in Consumers : proc[c].event \notin acked /\ Posted(proc[c], received)
    /\ \A c, d \in Consumers :
          proc[c].event # None /\ proc[c].event = proc[d].event => c = d
    /\ \A e \in Orders \ acked : (\A c \in Consumers : proc[c].event # e) =>
          \A w \in Webhooks : received[w][e] = 0
    /\ \A w \in Webhooks, e \in Orders : received[w][e] <= 1

OnceInv == faults = 0 => NothingFailed

-----------------------------------------------------------------------------
(* The notices *)

Edit == {Notes!Still} \cup [pc: {"upsert"}, copy: Notes!Preferences, change: Notes!Change]

\* A callback is at a published event that somebody is told of.
CallbackOK(j) ==
    \/ j = Notes!Resting
    \/ /\ j \in [pc: {"email", "in_app", "ack"}, event: published]
       /\ Notes!NoticeOf(j.event) # None

NoteTypes ==
    /\ answered \cup mailed \cup calm \subseteq published
    /\ prefs \in {None} \cup [Enabled: SUBSET Notes!Channels, Types: SUBSET NotificationTypes]
    /\ notice \in [Notices -> Notes!Notice \cup {None}]
    /\ \A n \in Notices : notice[n] # None => notice[n].event \in published
    /\ DOMAIN job = Notifiers
    /\ \A n \in Notifiers : CallbackOK(job[n])
    /\ edit \in [Editors -> Edit]
    /\ wish \in Notes!Change
    /\ overlap \in BOOLEAN

\* Without a fault an event is with one callback, and is noted when that is
\* done with it.
NotedOnce ==
    /\ \A m, n \in Notifiers : job[m].event # None /\ job[m].event = job[n].event => m = n
    /\ \A n \in Notifiers : job[n].event \notin answered
    /\ \A x \in Notices : notice[x] # None =>
          \/ notice[x].event \in answered
          \/ \E n \in Notifiers : job[n] = [pc |-> "ack", event |-> notice[x].event]
    /\ \A x, y \in Notices :
          notice[x] # None /\ notice[y] # None /\ notice[x].event = notice[y].event => x = y

\* The row p allows no more than the user's wishes w.
Obeys(p, w) ==
    IF p = None
    THEN w.email = None /\ w.inApp = None /\ w.types = None
    ELSE /\ "email" \in p.Enabled => w.email # FALSE
         /\ "in_app" \in p.Enabled => w.inApp # FALSE
         /\ w.types # None => p.Types = w.types

Row == IF prefs = None THEN Notes!NewNotificationPreferences ELSE prefs

\* Edits one after the other: a copy is the row with the change asked for.
OneEdit ==
    /\ \A g, h \in Editors : edit[g] # Notes!Still /\ edit[h] # Notes!Still => g = h
    /\ \A h \in Editors : edit[h] # Notes!Still =>
          edit[h].copy = Notes!SvcUpdatePreferences(Row, edit[h].change)
    /\ Obeys(prefs, wish)

NoteInv ==
    /\ NoteTypes
    /\ Notes!Editing => calm = {}
    /\ faults = 0 => NotedOnce
    /\ faults = 0 /\ ~overlap => OneEdit
    /\ OptedOutIsSpared

IInv == HookInv /\ OnceInv /\ NoteInv

-----------------------------------------------------------------------------
(* The log *)

\* Both modules count alike.
LEMMA SameCardinality == ASSUME NEW S PROVE Hooks!Cardinality(S) = Cardinality(S)
BY DEF Hooks!Cardinality, Cardinality

\* A set in order is a sequence of its elements without repetition.
LEMMA OrderedSet ==
    ASSUME NEW S, IsFiniteSet(S), NEW f \in Hooks!SetToSeqs(S)
    PROVE  /\ Cardinality(S) \in Nat
           /\ f \in [1..Cardinality(S) -> S]
           /\ \A i, j \in 1..Cardinality(S) : f[i] = f[j] => i = j
BY FS_CardinalityType, SameCardinality DEF Hooks!SetToSeqs

\* The rows that are kept are rows of the log, each once.
LEMMA KeptRows ==
    ASSUME log \in Seq(LogEntry), NEW S \in SUBSET (DOMAIN log), NEW l \in Hooks!Kept(S)
    PROVE  /\ l \in Seq(LogEntry)
           /\ \E f \in [DOMAIN l -> S] :
                 /\ \A i, j \in DOMAIN l : f[i] = f[j] => i = j
                 /\ \A i \in DOMAIN l : l[i] = log[f[i]]
<1>1. IsFiniteSet(S)
  <2>1. Len(log) \in Nat /\ DOMAIN log = 1..Len(log)
    OBVIOUS
  <2>2. IsFiniteSet(1..Len(log))
    BY <2>1, FS_Interval
  <2> QED BY <2>1, <2>2, FS_Subset
<1>2. PICK f \in Hooks!SetToSeqs(S) : l = [i \in DOMAIN f |-> log[f[i]]]
  BY DEF Hooks!Kept, Hooks!InOrder
<1> DEFINE n == Cardinality(S)
<1>3. n \in Nat /\ f \in [1..n -> S] /\ \A i, j \in 1..n : f[i] = f[j] => i = j
  BY <1>1, OrderedSet
<1> HIDE DEF n
<1>4. DOMAIN l = 1..n /\ \A i \in 1..n : l[i] = log[f[i]] /\ log[f[i]] \in LogEntry
  BY <1>2, <1>3
<1>5. l \in [1..n -> LogEntry]
  BY <1>2, <1>3, <1>4
<1>6. l \in Seq(LogEntry)
  BY <1>3, <1>5
<1> QED BY <1>3, <1>4, <1>6

\* Whatever rows are kept, the log stays in order.
LEMMA KeptOK ==
    ASSUME log \in Seq(LogEntry), LogOK(log, webhook, received),
           NEW S \in SUBSET (DOMAIN log), NEW l \in Hooks!Kept(S)
    PROVE  LogOK(l, webhook, received)
<1>1. PICK f \in [DOMAIN l -> S] :
         /\ \A i, j \in DOMAIN l : f[i] = f[j] => i = j
         /\ \A i \in DOMAIN l : l[i] = log[f[i]]
  BY KeptRows
<1> QED BY <1>1 DEF LogOK

\* There is an id nobody uses.
LEMMA FreshIDIsFresh ==
    ASSUME HookTypes
    PROVE  Hooks!FreshID \in Nat \ {0} /\ Hooks!FreshID \notin Hooks!Used
<1>1. IsFiniteSet(Hooks!Used)
  <2>1. IsFiniteSet(Hooks!Processes)
    BY WebhookAssumption
  <2>2. IsFiniteSet({proc[p].entry : p \in Hooks!Processes})
    <3> DEFINE T == {proc[p].entry : p \in Hooks!Processes}
               f == [p \in Hooks!Processes |-> proc[p].entry]
    <3>1. f \in Surjection(Hooks!Processes, T)
      BY DEF Surjection
    <3> HIDE DEF f, T
    <3>2. IsFiniteSet(T)
      BY <2>1, <3>1, FS_Surjection
    <3> QED BY <3>2 DEF T
  <2>3. IsFiniteSet(Hooks!Held)
    BY <2>2, FS_Subset DEF Hooks!Held
  <2>4. IsFiniteSet(Hooks!Open)
    <3>1. Len(log) \in Nat /\ DOMAIN log = 1..Len(log)
      BY DEF HookTypes
    <3>2. IsFiniteSet(1..Len(log))
      BY <3>1, FS_Interval
    <3> QED BY <3>1, <3>2, FS_Subset DEF Hooks!Open
  <2>5. IsFiniteSet({log[i].ID : i \in Hooks!Open})
    <3> DEFINE T == {log[i].ID : i \in Hooks!Open}
               f == [i \in Hooks!Open |-> log[i].ID]
    <3>1. f \in Surjection(Hooks!Open, T)
      BY DEF Surjection
    <3> HIDE DEF f, T
    <3>2. IsFiniteSet(T)
      BY <2>4, <3>1, FS_Surjection
    <3> QED BY <3>2 DEF T
  <2> QED BY <2>3, <2>5, FS_Union DEF Hooks!Used
<1> DEFINE n == Cardinality(Hooks!Used)
<1>2. n \in Nat
  BY <1>1, FS_CardinalityType
<1>3. \E x \in 1..(n + 1) : x \notin Hooks!Used
  <2>1. SUFFICES ASSUME 1..(n + 1) \subseteq Hooks!Used PROVE FALSE
    OBVIOUS
  <2>2. Cardinality(1..(n + 1)) = n + 1
    <3> HIDE DEF n
    <3>1. 1 \in Int /\ n + 1 \in Int /\ 1 <= n + 1
      BY <1>2
    <3>2. Cardinality(1..(n + 1)) = (n + 1) - 1 + 1
      BY <1>2, <3>1, FS_Interval
    <3> QED BY <1>2, <3>2
  <2>3. Cardinality(1..(n + 1)) <= n
    BY <1>1, <2>1, FS_Subset
  <2> HIDE DEF n
  <2> QED BY <1>2, <2>2, <2>3
<1> HIDE DEF n
<1>4. Hooks!FreshID = CHOOSE x \in 1..(n + 1) : x \notin Hooks!Used
  BY SameCardinality DEF Hooks!FreshID, n
<1>5. Hooks!FreshID \in 1..(n + 1) /\ Hooks!FreshID \notin Hooks!Used
  BY <1>3, <1>4
<1> QED BY <1>2, <1>5

\* The rows of l2 are rows of l, whatever their status, or have a fresh id.
LogFollows(l, l2) ==
    \A j \in DOMAIN l2 :
        \/ \E i \in DOMAIN l : /\ l2[j].ID = l[i].ID
                               /\ l2[j].WebhookID = l[i].WebhookID
                               /\ l2[j].Event = l[i].Event
        \/ l2[j].ID \notin Hooks!Held

\* Endpoints forget nothing.
GotGrows(got, got2) ==
    \A w \in Webhooks, e \in Orders : got[w][e] > 0 => got2[w][e] > 0

\* Rows that are kept keep their id, webhook and event.
LEMMA KeptFollows ==
    ASSUME log \in Seq(LogEntry), NEW S \in SUBSET (DOMAIN log), NEW l \in Hooks!Kept(S)
    PROVE  LogFollows(log, l)
<1>1. PICK f \in [DOMAIN l -> S] : \A i \in DOMAIN l : l[i] = log[f[i]]
  BY KeptRows
<1> QED BY <1>1 DEF LogFollows

\* A write of one row: its status changes, and nothing else that matters.
LEMMA SaveChanges ==
    ASSUME HookInv, NEW x,
           NEW status \in {"pending", "failed", "delivered", "retried"},
           NEW next \in {None, "later", "due"}, Hooks!Save(x, status, next)
    PROVE  /\ log' \in Seq(LogEntry) /\ DOMAIN log' = DOMAIN log
           /\ \A i \in DOMAIN log :
                 /\ log'[i].ID = log[i].ID
                 /\ log'[i].WebhookID = log[i].WebhookID
                 /\ log'[i].Event = log[i].Event
                 /\ log'[i].Status = IF log[i].ID = x THEN status ELSE log[i].Status
<1> USE DEF HookInv, HookTypes
<1>1. CASE ~Hooks!Logged(x)
  BY <1>1 DEF Hooks!Save, Hooks!Logged
<1>2. CASE Hooks!Logged(x)
  <2>1. PICK r \in DOMAIN log : r = Hooks!Row(x) /\ log[r].ID = x
    BY <1>2 DEF Hooks!Logged, Hooks!Row
  <2>2. \A i \in DOMAIN log : log[i].ID = x <=> i = r
    BY <2>1 DEF LogOK
  <2>3. log' = [log EXCEPT ![r] = [log[r] EXCEPT !.Status = status, !.NextRetry = next]]
    BY <1>2, <2>1 DEF Hooks!Save
  <2>4. PICK e : e = [log[r] EXCEPT !.Status = status, !.NextRetry = next]
    OBVIOUS
  <2>5. log[r] \in LogEntry
    BY <2>1
  <2>6. /\ e \in LogEntry /\ e.ID = log[r].ID /\ e.WebhookID = log[r].WebhookID
        /\ e.Event = log[r].Event /\ e.Status = status
    BY <2>4, <2>5 DEF LogEntry
  <2>7. log' = [log EXCEPT ![r] = e]
    BY <2>3, <2>4
  <2> QED BY <2>1, <2>2, <2>6, <2>7
<1> QED BY <1>1, <1>2

\* What reads delivered after a write was received.
LEMMA SaveOK ==
    ASSUME HookInv, NEW x,
           NEW status \in {"pending", "failed", "delivered", "retried"},
           NEW next \in {None, "later", "due"}, Hooks!Save(x, status, next),
           status \in {"delivered", "retried"} =>
               \A i \in DOMAIN log : log[i].ID = x =>
                   received[log[i].WebhookID][log[i].Event] > 0
    PROVE  LogOK(log', webhook, received) /\ LogFollows(log, log')
<1>1. /\ DOMAIN log' = DOMAIN log
      /\ \A i \in DOMAIN log :
            /\ log'[i].ID = log[i].ID
            /\ log'[i].WebhookID = log[i].WebhookID
            /\ log'[i].Event = log[i].Event
            /\ log'[i].Status = IF log[i].ID = x THEN status ELSE log[i].Status
  BY SaveChanges
<1> QED BY <1>1 DEF HookInv, LogOK, LogFollows

\* A process stays as it should be while others write, post and publish.
LEMMA ProcStays ==
    ASSUME NEW p \in Hooks!Processes, NEW q, q = proc[p], q \in Proc,
           NEW l, NEW got, NEW pub, NEW l2, NEW got2, NEW pub2,
           ProcOK(p, q, l, got, pub), LogFollows(l, l2), GotGrows(got, got2), pub \subseteq pub2
    PROVE  ProcOK(p, q, l2, got2, pub2)
<1>1. q.pc \in Delivering \cup Retrying => HoldsItsEntry(q, l2)
  <2>1. SUFFICES ASSUME q.entry # 0, HoldsItsEntry(q, l) PROVE HoldsItsEntry(q, l2)
    BY DEF ProcOK
  <2>2. q.entry \in Hooks!Held
    BY <2>1 DEF Hooks!Held
  <2> QED BY <2>1, <2>2 DEF LogFollows, HoldsItsEntry
<1>2. q.pc \in {"accepted", "reaccepted"} => got2[q.todo[1].webhook][q.todo[1].event] > 0
  <2>1. SUFFICES ASSUME q.pc \in {"accepted", "reaccepted"}
                 PROVE  got2[q.todo[1].webhook][q.todo[1].event] > 0
    OBVIOUS
  <2>2. q.todo \in Seq(Jobs) /\ q.todo # <<>>
    BY <2>1 DEF ProcOK, Proc, Delivering, Retrying
  <2>3. q.todo[1] \in Jobs
    BY <2>2
  <2> QED BY <2>1, <2>3 DEF ProcOK, GotGrows, Jobs
<1> QED BY <1>1, <1>2 DEF ProcOK

\* One process moves on, the others stay.
LEMMA ProcMoves ==
    ASSUME HookInv, NEW p \in Hooks!Processes, NEW q \in Proc,
           proc' = [proc EXCEPT ![p] = q],
           ProcOK(p, q, log', received', published'),
           LogFollows(log, log'), GotGrows(received, received'), published \subseteq published'
    PROVE  /\ proc' \in [Hooks!Processes -> Proc]
           /\ \A x \in Hooks!Processes : ProcOK(x, proc'[x], log', received', published')
<1>1. proc \in [Hooks!Processes -> Proc]
  BY DEF HookInv, HookTypes
<1>2. ASSUME NEW x \in Hooks!Processes PROVE ProcOK(x, proc'[x], log', received', published')
  <2>1. CASE x = p
    BY <1>1, <2>1
  <2>2. CASE x # p
    <3>1. /\ proc'[x] = proc[x] /\ proc[x] \in Proc
          /\ ProcOK(x, proc[x], log, received, published)
      BY <1>1, <2>2 DEF HookInv
    <3> QED BY <3>1, ProcStays
  <2> QED BY <2>1, <2>2
<1> QED BY <1>1, <1>2

-----------------------------------------------------------------------------
(* The steps of the webhook side *)

\* A process that rests is fine, whoever it is.
LEMMA IdleProc ==
    /\ Hooks!Idle \in Proc
    /\ Hooks!Idle.pc = "idle" /\ Hooks!Idle.event = None /\ Hooks!Idle.todo = <<>>
    /\ \A p, l, got, pub : ProcOK(p, Hooks!Idle, l, got, pub)
<1>1. << >> \in Seq(Jobs)
  OBVIOUS
<1> QED BY <1>1 DEF Hooks!Idle, Proc, ProcOK, Delivering, Retrying

\* A post that arrives: one endpoint has one event once more.
LEMMA GotOK ==
    ASSUME received \in [Webhooks -> [Orders -> Nat]],
           NEW w \in Webhooks, NEW e \in Orders, Hooks!Got(w, e)
    PROVE  /\ received' \in [Webhooks -> [Orders -> Nat]]
           /\ GotGrows(received, received')
           /\ received'[w][e] > 0
           /\ received[w][e] = 0 => received'[w][e] = 1
           /\ \A x \in Webhooks, y \in Orders :
                 <<x, y>> # <<w, e>> => received'[x][y] = received[x][y]
<1> DEFINE n == received[w][e]
           m == Hooks!More(n)
<1>1. n \in Nat /\ m \in Nat /\ m > 0 /\ (n = 0 => m = 1)
  BY DEF Hooks!More, Hooks!Often
<1> HIDE DEF m
<1>2. received' = [received EXCEPT ![w] = [received[w] EXCEPT ![e] = m]]
  BY DEF Hooks!Got, m
<1>3. /\ received'[w][e] = m
      /\ \A x \in Webhooks, y \in Orders :
            <<x, y>> # <<w, e>> => received'[x][y] = received[x][y]
  BY <1>2
<1>4. received' \in [Webhooks -> [Orders -> Nat]]
  BY <1>1, <1>2
<1>5. GotGrows(received, received')
  BY <1>1, <1>3 DEF GotGrows
<1> QED BY <1>1, <1>3, <1>4, <1>5

\* The log stays in order when endpoints get more.
LEMMA LogStays ==
    ASSUME HookInv, NEW got, GotGrows(received, got)
    PROVE  LogOK(log, webhook, got)
<1>1. \A i \in DOMAIN log : log[i] \in LogEntry
  BY DEF HookInv, HookTypes
<1>2. \A i \in DOMAIN log : log[i].WebhookID \in Webhooks /\ log[i].Event \in Orders
  BY <1>1 DEF LogEntry
<1> QED BY <1>2 DEF HookInv, LogOK, GotGrows

\* Nothing written and nothing received.
LEMMA Unwritten == LogFollows(log, log) /\ GotGrows(received, received)
BY DEF LogFollows, GotGrows

\* What a process that has something on its list is at.
LEMMA CurrentJob ==
    ASSUME HookInv, NEW p \in Hooks!Processes, proc[p].todo # <<>>
    PROVE  /\ proc[p] \in Proc /\ ProcOK(p, proc[p], log, received, published)
           /\ proc[p].todo \in Seq(Jobs) /\ Head(proc[p].todo) = proc[p].todo[1]
           /\ proc[p].todo[1] \in Jobs
           /\ proc[p].todo[1].webhook \in Webhooks /\ proc[p].todo[1].event \in Orders
           /\ Tail(proc[p].todo) \in Seq(Jobs)
<1>1. proc[p] \in Proc /\ ProcOK(p, proc[p], log, received, published)
  BY DEF HookInv, HookTypes
<1>2. proc[p].todo \in Seq(Jobs)
  BY <1>1 DEF Proc
<1>3. /\ Head(proc[p].todo) = proc[p].todo[1] /\ proc[p].todo[1] \in Jobs
      /\ Tail(proc[p].todo) \in Seq(Jobs)
  BY <1>2
<1> QED BY <1>1, <1>2, <1>3 DEF Jobs

\* On to the next webhook.
LEMMA NextJob ==
    ASSUME HookInv, NEW p \in Hooks!Processes, proc[p].todo # <<>>,
           proc[p].pc \in {"next"} \cup Delivering
    PROVE  /\ Hooks!Next1(p) \in Proc
           /\ Hooks!Next1(p).pc = "next" /\ Hooks!Next1(p).event = proc[p].event
           /\ Hooks!Next1(p).todo = Tail(proc[p].todo)
           /\ \A l, got : ProcOK(p, Hooks!Next1(p), l, got, published)
<1>1. PICK q : q = Hooks!Next1(p)
  OBVIOUS
<1>2. /\ proc[p] \in Proc /\ ProcOK(p, proc[p], log, received, published)
      /\ Tail(proc[p].todo) \in Seq(Jobs)
  BY CurrentJob
<1>3. /\ q.pc = "next" /\ q.event = proc[p].event /\ q.todo = Tail(proc[p].todo)
      /\ q.entry = 0 /\ q.try = 0
  BY <1>1 DEF Hooks!Next1, Hooks!Idle
<1>4. q \in Proc
  BY <1>1, <1>2 DEF Hooks!Next1, Hooks!Idle, Proc
<1>5. ASSUME NEW l, NEW got PROVE ProcOK(p, q, l, got, published)
  BY <1>2, <1>3 DEF ProcOK, Delivering, Retrying
<1> QED BY <1>1, <1>3, <1>4, <1>5

\* The invariant after a step of process p that leaves webhooks alone.
LEMMA HookStep ==
    ASSUME HookInv, NEW p \in Hooks!Processes, NEW q \in Proc,
           proc' = [proc EXCEPT ![p] = q], ProcOK(p, q, log', received', published'),
           published' \subseteq Orders \cup Renewals, published \subseteq published',
           acked' \subseteq published', webhook' = webhook,
           log' \in Seq(LogEntry), LogFollows(log, log'), LogOK(log', webhook, received'),
           received' \in [Webhooks -> [Orders -> Nat]], GotGrows(received, received'),
           faults' \in Nat
    PROVE  HookInv'
<1>1. /\ proc' \in [Hooks!Processes -> Proc]
      /\ \A x \in Hooks!Processes : ProcOK(x, proc'[x], log', received', published')
  BY ProcMoves
<1>2. webhook \in [Webhooks -> {"none", "active", "deleted"}]
  BY DEF HookInv, HookTypes
<1>3. HookTypes'
  BY <1>1, <1>2 DEF HookTypes
<1> QED BY <1>1, <1>3 DEF HookInv

\* No process moves.
LEMMA HookWait ==
    ASSUME HookInv, proc' = proc,
           published' \subseteq Orders \cup Renewals, published \subseteq published',
           acked' \subseteq published',
           webhook' \in [Webhooks -> {"none", "active", "deleted"}],
           log' \in Seq(LogEntry), LogFollows(log, log'), LogOK(log', webhook', received),
           received' = received, faults' \in Nat
    PROVE  HookInv'
<1>1. proc \in [Hooks!Processes -> Proc] /\ received \in [Webhooks -> [Orders -> Nat]]
  BY DEF HookInv, HookTypes
<1>2. ASSUME NEW x \in Hooks!Processes
      PROVE  ProcOK(x, proc'[x], log', received', published')
  <2>1. proc[x] \in Proc /\ ProcOK(x, proc[x], log, received, published)
    BY <1>1 DEF HookInv
  <2> QED BY <2>1, ProcStays, Unwritten
<1>3. HookTypes'
  BY <1>1 DEF HookTypes
<1> QED BY <1>2, <1>3 DEF HookInv

\* A fault is counted, or there is none.
LEMMA FaultsCounted ==
    ASSUME faults \in Nat
    PROVE  /\ Hooks!Fault => faults' \in Nat /\ faults' # 0
           /\ Notes!Fault => faults' \in Nat /\ faults' # 0
           /\ Hooks!DbFault => faults' \in Nat /\ faults' # 0
           /\ UNCHANGED faults => faults' \in Nat
BY DEF Hooks!Fault, Hooks!DbFault, Notes!Fault

\* The list of a consumer: every webhook that is found, once, with the event.
LEMMA ConsumerList ==
    ASSUME NEW e \in Orders, NEW ws \in Hooks!SetToSeqs(Hooks!FindByEvent(e)), NEW list,
           list = [i \in DOMAIN ws |-> Hooks!Job(ws[i], e)]
    PROVE  /\ list \in Seq(Jobs)
           /\ \A i \in DOMAIN list : list[i].event = e
           /\ \A i, j \in DOMAIN list : list[i].webhook = list[j].webhook => i = j
<1> DEFINE S == Hooks!FindByEvent(e)
           n == Cardinality(S)
<1>1. S \in SUBSET Webhooks /\ IsFiniteSet(S)
  BY WebhookAssumption, FS_Subset DEF Hooks!FindByEvent
<1>2. n \in Nat /\ ws \in [1..n -> S] /\ \A i, j \in 1..n : ws[i] = ws[j] => i = j
  BY <1>1, OrderedSet
<1> HIDE DEF n, S
<1>3. DOMAIN list = 1..n /\ \A i \in 1..n : list[i] = [webhook |-> ws[i], event |-> e]
  BY <1>2 DEF Hooks!Job
<1>4. \A i \in 1..n : /\ list[i] \in Jobs
                      /\ list[i].event = e /\ list[i].webhook = ws[i]
  BY <1>1, <1>2, <1>3 DEF Jobs
<1>5. list \in [1..n -> Jobs]
  BY <1>2, <1>3, <1>4
<1>6. list \in Seq(Jobs)
  BY <1>2, <1>5
<1> QED BY <1>2, <1>3, <1>4, <1>6

\* The steps of a consumer that end or drop its work, a retry worker that
\* rests, and a crash.
LEMMA GoesIdle ==
    ASSUME HookInv, NEW p \in Hooks!Processes,
           \/ p \in Consumers /\ Hooks!Ack(p)
           \/ Hooks!Rest(p) \/ Hooks!Crash(p)
    PROVE  HookInv'
<1>0. HookTypes /\ LogOK(log, webhook, received)
      /\ ProcOK(p, proc[p], log, received, published)
  BY DEF HookInv
<1>1. /\ proc' = [proc EXCEPT ![p] = Hooks!Idle]
      /\ UNCHANGED <<published, webhook, log, received>>
  BY DEF Hooks!Ack, Hooks!Rest, Hooks!Crash
<1>2. acked' \subseteq published'
  BY <1>0 DEF Hooks!Ack, Hooks!Rest, Hooks!Crash, ProcOK, HookTypes
<1>3. faults' \in Nat
  BY <1>0, FaultsCounted DEF Hooks!Ack, Hooks!Rest, Hooks!Crash, HookTypes
<1> QED BY <1>0, <1>1, <1>2, <1>3, HookStep, IdleProc, Unwritten DEF HookTypes

\* The consumer takes an event, or acknowledges what nobody listens to.
LEMMA ConsumeOK ==
    ASSUME HookInv, NEW c \in Consumers, Hooks!Consume(c)
    PROVE  HookInv'
<1>0. HookTypes /\ LogOK(log, webhook, received) /\ c \in Hooks!Processes
  BY DEF HookInv, Hooks!Processes
<1>1. PICK e \in (published \cap Orders) \ acked :
         /\ IF \E d \in Consumers : proc[d].event = e THEN Hooks!Fault ELSE UNCHANGED faults
         /\ IF Hooks!FindByEvent(e) = {}
            THEN acked' = acked \cup {e} /\ UNCHANGED proc
            ELSE /\ \E ws \in Hooks!SetToSeqs(Hooks!FindByEvent(e)) :
                       proc' = [proc EXCEPT ![c] =
                           [Hooks!Idle EXCEPT !.pc = "next", !.event = e,
                                !.todo = [i \in DOMAIN ws |-> Hooks!Job(ws[i], e)]]]
                 /\ UNCHANGED acked
  BY DEF Hooks!Consume
<1>2. UNCHANGED <<published, webhook, log, received>> /\ faults' \in Nat
  BY <1>0, <1>1, FaultsCounted DEF Hooks!Consume, HookTypes
<1>3. CASE Hooks!FindByEvent(e) = {}
  BY <1>0, <1>1, <1>2, <1>3, HookWait, Unwritten DEF HookTypes
<1>4. CASE Hooks!FindByEvent(e) # {}
  <2>1. PICK ws \in Hooks!SetToSeqs(Hooks!FindByEvent(e)) :
           proc' = [proc EXCEPT ![c] =
                       [Hooks!Idle EXCEPT !.pc = "next", !.event = e,
                            !.todo = [i \in DOMAIN ws |-> Hooks!Job(ws[i], e)]]]
    BY <1>1, <1>4
  <2>2. PICK q : q = [Hooks!Idle EXCEPT !.pc = "next", !.event = e,
                          !.todo = [i \in DOMAIN ws |-> Hooks!Job(ws[i], e)]]
    OBVIOUS
  <2>3. [i \in DOMAIN ws |-> Hooks!Job(ws[i], e)] \in Seq(Jobs)
    BY ConsumerList
  <2>4. /\ q \in Proc /\ q.pc = "next" /\ q.event = e /\ q.entry = 0
    BY <2>2, <2>3 DEF Hooks!Idle, Proc
  <2>5. ProcOK(c, q, log, received, published)
    BY <2>4, WebhookAssumption DEF ProcOK, Delivering, Retrying
  <2>6. acked' = acked /\ proc' = [proc EXCEPT ![c] = q]
    BY <1>1, <1>4, <2>1, <2>2
  <2> QED BY <1>0, <1>2, <2>4, <2>5, <2>6, HookStep, Unwritten DEF HookTypes
<1> QED BY <1>3, <1>4

\* A query that fails.
LEMMA ConsumeBlindOK ==
    ASSUME HookInv, NEW c \in Consumers, Hooks!ConsumeBlind(c)
    PROVE  HookInv'
<1>0. HookTypes /\ LogOK(log, webhook, received)
  BY DEF HookInv
<1>1. UNCHANGED <<published, webhook, log, proc, received>> /\ Hooks!DbFault
      /\ acked' \subseteq published'
  BY <1>0 DEF Hooks!ConsumeBlind, HookTypes
<1>2. faults' \in Nat
  BY <1>0, <1>1, FaultsCounted DEF HookTypes
<1> QED BY <1>0, <1>1, <1>2, HookWait, Unwritten DEF HookTypes

\* The retry worker takes what is due.
LEMMA TickOK ==
    ASSUME HookInv, NEW r \in Retriers, Hooks!Tick(r)
    PROVE  HookInv'
<1>0. HookTypes /\ LogOK(log, webhook, received) /\ r \in Hooks!Processes
  BY DEF HookInv, Hooks!Processes
<1> DEFINE due == Hooks!ListFailedDueForRetry
<1>1. PICK ids \in Hooks!SetToSeqs(due) :
         proc' = [proc EXCEPT ![r] =
             [Hooks!Idle EXCEPT !.pc = "next",
                  !.todo = [i \in DOMAIN ids |->
                      Hooks!Job(log[ids[i]].WebhookID, log[ids[i]].Event)]]]
  BY DEF Hooks!Tick, Hooks!InOrder
<1>2. UNCHANGED <<published, acked, webhook, log, received, faults>>
  BY DEF Hooks!Tick
<1> DEFINE todo == [i \in DOMAIN ids |-> Hooks!Job(log[ids[i]].WebhookID, log[ids[i]].Event)]
<1>3. todo \in Seq(Jobs)
  <2>1. due \in SUBSET (DOMAIN log)
    BY DEF Hooks!ListFailedDueForRetry
  <2>2. IsFiniteSet(due)
    <3>1. Len(log) \in Nat /\ DOMAIN log = 1..Len(log)
      BY <1>0 DEF HookTypes
    <3>2. IsFiniteSet(1..Len(log))
      BY <3>1, FS_Interval
    <3> QED BY <2>1, <3>1, <3>2, FS_Subset
  <2> DEFINE n == Cardinality(due)
  <2>3. n \in Nat /\ ids \in [1..n -> due]
    BY <2>2, OrderedSet
  <2> HIDE DEF n, due
  <2>4. \A i \in 1..n : log[ids[i]] \in LogEntry
    BY <1>0, <2>1, <2>3 DEF HookTypes
  <2>5. todo \in [1..n -> Jobs]
    BY <2>3, <2>4 DEF Hooks!Job, LogEntry, Jobs
  <2> HIDE DEF todo
  <2> QED BY <2>3, <2>5
<1> HIDE DEF todo
<1>4. PICK q : q = [Hooks!Idle EXCEPT !.pc = "next", !.todo = todo]
  OBVIOUS
<1>5. q \in Proc /\ q.pc = "next" /\ q.event = None /\ q.entry = 0
  BY <1>3, <1>4 DEF Hooks!Idle, Proc
<1>6. ProcOK(r, q, log, received, published)
  BY <1>5, WebhookAssumption DEF ProcOK, Delivering, Retrying
<1>7. proc' = [proc EXCEPT ![r] = q]
  BY <1>1, <1>4 DEF todo
<1> QED BY <1>0, <1>2, <1>5, <1>6, <1>7, HookStep, Unwritten DEF HookTypes

\* A write whose error is ignored.
LEMMA LogWritten ==
    ASSUME HookInv, NEW x,
           NEW status \in {"pending", "failed", "delivered", "retried"},
           NEW next \in {None, "later", "due"}, Hooks!Log(x, status, next),
           status \in {"delivered", "retried"} =>
               \A i \in DOMAIN log : log[i].ID = x =>
                   received[log[i].WebhookID][log[i].Event] > 0
    PROVE  /\ log' \in Seq(LogEntry) /\ LogOK(log', webhook, received)
           /\ LogFollows(log, log') /\ faults' \in Nat
<1>0. HookTypes /\ LogOK(log, webhook, received)
  BY DEF HookInv
<1>1. CASE Hooks!Save(x, status, next) /\ UNCHANGED <<dbFailed, faults>>
  BY <1>0, <1>1, SaveChanges, SaveOK DEF HookTypes
<1>2. CASE UNCHANGED log /\ Hooks!DbFault
  BY <1>0, <1>2, FaultsCounted, Unwritten DEF HookTypes
<1> QED BY <1>1, <1>2 DEF Hooks!Log

\* Deliver: the pending entry is written under a fresh id, or nothing is.
LEMMA DeliverOK ==
    ASSUME HookInv, NEW p \in Hooks!Processes, Hooks!Deliver(p)
    PROVE  HookInv'
<1>0. /\ HookTypes /\ LogOK(log, webhook, received)
      /\ proc[p].pc = "next" /\ proc[p].todo # <<>>
      /\ UNCHANGED <<published, acked, webhook, received>>
  BY DEF HookInv, Hooks!Deliver
<1>j. /\ proc[p] \in Proc /\ ProcOK(p, proc[p], log, received, published)
      /\ proc[p].todo \in Seq(Jobs) /\ Head(proc[p].todo) = proc[p].todo[1]
      /\ proc[p].todo[1] \in Jobs
      /\ proc[p].todo[1].webhook \in Webhooks /\ proc[p].todo[1].event \in Orders
  BY <1>0, CurrentJob
<1> DEFINE first == Head(proc[p].todo)
<1>1. \/ /\ Hooks!Active(first.webhook)
         /\ \E open \in Hooks!Kept(Hooks!Open) :
               log' = Append(open, Hooks!Entry(Hooks!FreshID, first))
         /\ proc' = [proc EXCEPT ![p].pc = "post", ![p].entry = Hooks!FreshID, ![p].try = 1]
         /\ UNCHANGED <<dbFailed, faults>>
      \/ /\ IF Hooks!Active(first.webhook) THEN Hooks!DbFault ELSE UNCHANGED <<dbFailed, faults>>
         /\ proc' = [proc EXCEPT ![p] = Hooks!Next1(p)]
         /\ UNCHANGED log
  BY DEF Hooks!Deliver
<1>2. CASE /\ Hooks!Active(first.webhook)
           /\ \E open \in Hooks!Kept(Hooks!Open) :
                 log' = Append(open, Hooks!Entry(Hooks!FreshID, first))
           /\ proc' = [proc EXCEPT ![p].pc = "post", ![p].entry = Hooks!FreshID, ![p].try = 1]
           /\ UNCHANGED <<dbFailed, faults>>
  <2>1. PICK id : id = Hooks!FreshID
    OBVIOUS
  <2>2. id \in Nat \ {0} /\ id \notin Hooks!Used
    BY <1>0, <2>1, FreshIDIsFresh
  <2>3. PICK open \in Hooks!Kept(Hooks!Open) : log' = Append(open, Hooks!Entry(id, first))
    BY <1>2, <2>1
  <2>o. Hooks!Open \in SUBSET (DOMAIN log) /\ log \in Seq(LogEntry)
    BY <1>0 DEF Hooks!Open, HookTypes
  <2>4. PICK f \in [DOMAIN open -> Hooks!Open] :
           \A i \in DOMAIN open : open[i] = log[f[i]]
    BY <2>o, KeptRows
  <2>5. /\ open \in Seq(LogEntry) /\ LogOK(open, webhook, received)
        /\ LogFollows(log, open)
    BY <1>0, <2>o, KeptRows, KeptOK, KeptFollows
  <2>6. \A i \in DOMAIN open : open[i].ID # id
    BY <2>2, <2>4 DEF Hooks!Used
  <2>7. PICK e : e = Hooks!Entry(id, first)
    OBVIOUS
  <2>8. /\ e \in LogEntry /\ e.ID = id /\ e.WebhookID = first.webhook /\ e.Event = first.event
        /\ e.Status = "pending"
    BY <1>j, <2>2, <2>7 DEF Hooks!Entry, LogEntry
  <2>9. log' = Append(open, e) /\ Len(open) \in Nat /\ DOMAIN open = 1..Len(open)
    BY <2>3, <2>5, <2>7
  <2>10. /\ log' \in Seq(LogEntry) /\ DOMAIN log' = 1..(Len(open) + 1)
         /\ \A i \in 1..Len(open) : log'[i] = open[i]
         /\ log'[Len(open) + 1] = e
    BY <2>5, <2>8, <2>9
  <2>11. LogOK(log', webhook, received)
    BY <1>2, <2>5, <2>6, <2>8, <2>9, <2>10 DEF LogOK, Hooks!Active
  <2>12. LogFollows(log, log')
    BY <2>2, <2>5, <2>8, <2>9, <2>10 DEF LogFollows, Hooks!Used
  <2>13. PICK q : q = [proc[p] EXCEPT !.pc = "post", !.entry = id, !.try = 1]
    OBVIOUS
  <2>14. proc' = [proc EXCEPT ![p] = q]
    BY <1>0, <1>2, <2>1, <2>13 DEF HookTypes
  <2>15. /\ q \in Proc /\ q.pc = "post" /\ q.entry = id /\ q.todo = proc[p].todo
         /\ q.event = proc[p].event
    BY <1>j, <2>2, <2>13 DEF Proc, Delivering
  <2>16. HoldsItsEntry(q, log')
    BY <1>j, <2>6, <2>8, <2>9, <2>10, <2>15 DEF HoldsItsEntry
  <2>17. ProcOK(p, q, log', received, published)
    BY <1>0, <1>j, <2>2, <2>15, <2>16 DEF ProcOK, Delivering, Retrying
  <2> QED BY <1>0, <1>2, <2>10, <2>11, <2>12, <2>14, <2>15, <2>17, HookStep, Unwritten
          DEF HookTypes
<1>3. CASE /\ IF Hooks!Active(first.webhook) THEN Hooks!DbFault ELSE UNCHANGED <<dbFailed, faults>>
           /\ proc' = [proc EXCEPT ![p] = Hooks!Next1(p)]
           /\ UNCHANGED log
  <2>1. faults' \in Nat
    BY <1>0, <1>3, FaultsCounted DEF HookTypes
  <2>2. /\ Hooks!Next1(p) \in Proc
        /\ ProcOK(p, Hooks!Next1(p), log, received, published)
    BY <1>0, NextJob
  <2> QED BY <1>0, <1>3, <2>1, <2>2, HookStep, Unwritten DEF HookTypes
<1> QED BY <1>1, <1>2, <1>3

\* The answer to a post is written, and the process goes on to pc or to its
\* next webhook.
LEMMA WritesAndGoesOn ==
    ASSUME HookInv, NEW p \in Hooks!Processes,
           Hooks!Accepted(p) \/ Hooks!Refused(p) \/ Hooks!Later(p)
    PROVE  HookInv'
<1>0. HookTypes /\ UNCHANGED <<published, acked, webhook, received>>
      /\ proc[p].pc \in {"accepted", "refused", "later"}
  BY DEF HookInv, Hooks!Accepted, Hooks!Refused, Hooks!Later
<1>1. proc[p].todo # <<>> /\ proc[p].entry # 0 /\ HoldsItsEntry(proc[p], log)
      /\ ProcOK(p, proc[p], log, received, published) /\ proc[p] \in Proc
  BY <1>0 DEF HookInv, HookTypes, ProcOK, Delivering
<1>2. PICK x : x = proc[p].entry
  OBVIOUS
<1>3. /\ log' \in Seq(LogEntry) /\ LogOK(log', webhook, received)
      /\ LogFollows(log, log') /\ faults' \in Nat
  <2>1. CASE Hooks!Accepted(p)
    <3>1. Hooks!Log(x, "delivered", None) /\ proc[p].pc = "accepted"
      BY <1>2, <2>1 DEF Hooks!Accepted
    <3>2. \A i \in DOMAIN log : log[i].ID = x => received[log[i].WebhookID][log[i].Event] > 0
      BY <1>1, <1>2, <3>1 DEF ProcOK, HoldsItsEntry
    <3> QED BY <3>1, <3>2, LogWritten
  <2>2. CASE Hooks!Refused(p) \/ Hooks!Later(p)
    <3>1. Hooks!Log(x, "failed", None) \/ Hooks!Log(x, "failed", "later")
      BY <1>2, <2>2 DEF Hooks!Refused, Hooks!Later
    <3> QED BY <3>1, LogWritten
  <2> QED BY <2>1, <2>2
<1>4. CASE Hooks!Accepted(p) \/ Hooks!Later(p)
  <2>1. proc' = [proc EXCEPT ![p] = Hooks!Next1(p)]
    BY <1>4 DEF Hooks!Accepted, Hooks!Later
  <2>2. Hooks!Next1(p) \in Proc /\ ProcOK(p, Hooks!Next1(p), log', received, published)
    BY <1>0, <1>1, NextJob DEF Delivering
  <2> QED BY <1>0, <1>3, <2>1, <2>2, HookStep, Unwritten DEF HookTypes
<1>5. CASE Hooks!Refused(p)
  <2> DEFINE pc == IF proc[p].try < MaxRetries THEN "post" ELSE "later"
  <2>1. PICK q : q = [proc[p] EXCEPT !.pc = pc, !.try = proc[p].try + 1]
    OBVIOUS
  <2>2. proc' = [proc EXCEPT ![p] = q]
    BY <1>0, <1>5, <2>1 DEF Hooks!Refused, HookTypes
  <2>3. pc \in {"post", "later"}
    OBVIOUS
  <2> HIDE DEF pc
  <2>4. proc[p].try + 1 \in Nat
    BY <1>1 DEF Proc
  <2>5. /\ q \in Proc /\ q.pc \in {"post", "later"} /\ q.entry = proc[p].entry
        /\ q.todo = proc[p].todo /\ q.event = proc[p].event
    BY <1>1, <2>1, <2>3, <2>4 DEF Proc, Delivering
  <2>6. ProcOK(p, proc[p], log', received, published)
    BY <1>1, <1>3, ProcStays, Unwritten
  <2>7. ProcOK(p, q, log', received, published)
    BY <1>0, <1>1, <2>5, <2>6 DEF ProcOK, HoldsItsEntry, Delivering, Retrying
  <2> QED BY <1>0, <1>3, <2>2, <2>5, <2>7, HookStep, Unwritten DEF HookTypes
<1> QED BY <1>4, <1>5

\* A URL that makes no request: the process goes on to its next webhook.
LEMMA NewRequestFailsOK ==
    ASSUME HookInv, NEW p \in Hooks!Processes, Hooks!NewRequestFails(p)
    PROVE  HookInv'
<1>0. HookTypes /\ LogOK(log, webhook, received)
      /\ proc[p].pc = "post" /\ proc' = [proc EXCEPT ![p] = Hooks!Next1(p)]
      /\ UNCHANGED <<published, acked, webhook, log, received, faults>>
  BY DEF HookInv, Hooks!NewRequestFails
<1>1. proc[p].todo # <<>>
  BY <1>0 DEF HookInv, ProcOK, Delivering
<1>2. Hooks!Next1(p) \in Proc /\ ProcOK(p, Hooks!Next1(p), log', received, published)
  BY <1>0, <1>1, NextJob DEF Delivering
<1>3. log' \in Seq(LogEntry) /\ LogOK(log', webhook, received)
      /\ LogFollows(log, log') /\ faults' \in Nat
  BY <1>0, Unwritten DEF HookTypes
<1> QED BY <1>0, <1>2, <1>3, HookStep, Unwritten DEF HookTypes

\* A post, first or repeated: accepted, refused, or accepted unheard.
LEMMA PostOK ==
    ASSUME HookInv, NEW p \in Hooks!Processes, Hooks!Post(p) \/ Hooks!Repost(p)
    PROVE  HookInv'
<1>0. /\ HookTypes /\ LogOK(log, webhook, received)
      /\ proc[p].pc \in {"post", "retry"}
      /\ UNCHANGED <<published, acked, webhook, log>>
  BY DEF HookInv, Hooks!Post, Hooks!Repost
<1>1. proc[p].todo # <<>> /\ proc[p].entry # 0 /\ HoldsItsEntry(proc[p], log)
      /\ ProcOK(p, proc[p], log, received, published) /\ proc[p] \in Proc
  BY <1>0 DEF HookInv, HookTypes, ProcOK, Delivering, Retrying
<1>2. PICK w \in Webhooks, e \in Orders : w = proc[p].todo[1].webhook /\ e = proc[p].todo[1].event
  BY <1>1, CurrentJob
<1>3. Head(proc[p].todo) = proc[p].todo[1]
  BY <1>1, CurrentJob
<1>4. PICK pc : /\ proc' = [proc EXCEPT ![p].pc = pc]
                /\ proc[p].pc = "post" => pc \in {"accepted", "refused"}
                /\ proc[p].pc = "retry" => pc \in {"reaccepted", "rerefused"}
                /\ pc \in {"accepted", "reaccepted"} => Hooks!Got(w, e)
                /\ received' = received \/ Hooks!Got(w, e)
                /\ UNCHANGED faults \/ Hooks!Fault
  <2>1. CASE Hooks!Post(p)
    <3>1. \/ /\ Hooks!Got(w, e)
             /\ proc' = [proc EXCEPT ![p].pc = "accepted"]
             /\ UNCHANGED faults
          \/ /\ Hooks!Fault
             /\ received' = received \/ Hooks!Got(w, e)
             /\ proc' = [proc EXCEPT ![p].pc = "refused"]
      BY <1>2, <1>3, <2>1 DEF Hooks!Post
    <3>2. proc[p].pc = "post"
      BY <2>1 DEF Hooks!Post
    <3> QED BY <3>1, <3>2
  <2>2. CASE Hooks!Repost(p)
    <3>1. \/ /\ Hooks!Got(w, e)
             /\ proc' = [proc EXCEPT ![p].pc = "reaccepted"]
             /\ UNCHANGED faults
          \/ /\ Hooks!Fault
             /\ received' = received \/ Hooks!Got(w, e)
             /\ proc' = [proc EXCEPT ![p].pc = "rerefused"]
      BY <1>2, <1>3, <2>2 DEF Hooks!Repost
    <3>2. proc[p].pc = "retry"
      BY <2>2 DEF Hooks!Repost
    <3> QED BY <3>1, <3>2
  <2> QED BY <2>1, <2>2
<1>5. faults' \in Nat
  BY <1>0, <1>4, FaultsCounted DEF HookTypes
<1>6. /\ received' \in [Webhooks -> [Orders -> Nat]] /\ GotGrows(received, received')
      /\ Hooks!Got(w, e) => received'[w][e] > 0
  BY <1>0, <1>4, GotOK, Unwritten DEF HookTypes
<1>7. PICK q : q = [proc[p] EXCEPT !.pc = pc]
  OBVIOUS
<1>8. proc' = [proc EXCEPT ![p] = q]
  BY <1>0, <1>4, <1>7 DEF HookTypes
<1>9. /\ q \in Proc /\ q.pc = pc /\ q.entry = proc[p].entry
      /\ q.todo = proc[p].todo /\ q.event = proc[p].event
  BY <1>0, <1>1, <1>4, <1>7 DEF Proc, Delivering, Retrying
<1>10. ProcOK(p, q, log, received', published)
  BY <1>0, <1>1, <1>2, <1>4, <1>6, <1>9 DEF ProcOK, HoldsItsEntry, Delivering, Retrying
<1>11. LogOK(log, webhook, received')
  BY <1>6, LogStays
<1> QED BY <1>0, <1>5, <1>6, <1>8, <1>9, <1>10, <1>11, HookStep, Unwritten DEF HookTypes

\* The administrator asks for a retry of a failed entry.
LEMMA RetryDeliveryOK ==
    ASSUME HookInv, NEW a \in Admins, Hooks!RetryDelivery(a)
    PROVE  HookInv'
<1>0. HookTypes /\ LogOK(log, webhook, received) /\ a \in Hooks!Processes
  BY DEF HookInv, Hooks!Processes
<1>1. PICK i \in DOMAIN log :
         proc' = [proc EXCEPT ![a] =
             [Hooks!Idle EXCEPT !.pc = "retry", !.entry = log[i].ID,
                  !.todo = <<Hooks!Job(log[i].WebhookID, log[i].Event)>>]]
  BY DEF Hooks!RetryDelivery
<1>2. UNCHANGED <<published, acked, webhook, log, received, faults>>
  BY DEF Hooks!RetryDelivery
<1>3. log[i] \in LogEntry
  BY <1>0 DEF HookTypes
<1>4. PICK j : j = Hooks!Job(log[i].WebhookID, log[i].Event)
  OBVIOUS
<1>5. j \in Jobs /\ j.webhook = log[i].WebhookID /\ j.event = log[i].Event
  BY <1>3, <1>4 DEF Hooks!Job, Jobs, LogEntry
<1>6. <<j>> \in Seq(Jobs) /\ <<j>> # <<>> /\ <<j>>[1] = j
  BY <1>5
<1>7. PICK t \in Seq(Jobs) : t = <<j>>
  BY <1>6
<1>8. PICK q : q = [Hooks!Idle EXCEPT !.pc = "retry", !.entry = log[i].ID, !.todo = t]
  OBVIOUS
<1>9. /\ q \in Proc /\ q.pc = "retry" /\ q.entry = log[i].ID /\ q.todo = t /\ q.event = None
      /\ q.entry # 0
  BY <1>3, <1>8 DEF Hooks!Idle, Proc, Retrying, LogEntry
<1>10. HoldsItsEntry(q, log)
  BY <1>0, <1>5, <1>6, <1>7, <1>9 DEF HoldsItsEntry, LogOK
<1>11. ProcOK(a, q, log, received, published)
  BY <1>6, <1>7, <1>9, <1>10, WebhookAssumption DEF ProcOK, Delivering, Retrying
<1>12. proc' = [proc EXCEPT ![a] = q]
  BY <1>1, <1>4, <1>7, <1>8
<1> QED BY <1>0, <1>2, <1>9, <1>11, <1>12, HookStep, Unwritten DEF HookTypes

\* What came of the retry is written.
LEMMA AnswerOK ==
    ASSUME HookInv, NEW a \in Admins, Hooks!Answer(a)
    PROVE  HookInv'
<1>0. /\ HookTypes /\ LogOK(log, webhook, received) /\ a \in Hooks!Processes
      /\ proc[a].pc \in {"reaccepted", "rerefused"}
      /\ UNCHANGED <<published, acked, webhook, received>>
      /\ proc' = [proc EXCEPT ![a] = Hooks!Idle]
  BY DEF HookInv, Hooks!Processes, Hooks!Answer
<1>1. HoldsItsEntry(proc[a], log) /\ ProcOK(a, proc[a], log, received, published)
  BY <1>0 DEF HookInv, ProcOK, Retrying
<1>2. PICK x : x = proc[a].entry
  OBVIOUS
<1>3. /\ log' \in Seq(LogEntry) /\ LogOK(log', webhook, received)
      /\ LogFollows(log, log') /\ faults' \in Nat
  <2>1. CASE proc[a].pc = "reaccepted" /\ Hooks!Logged(x) /\ Hooks!MarkRetried(x) /\ UNCHANGED faults
    <3>1. \A i \in DOMAIN log : log[i].ID = x => received[log[i].WebhookID][log[i].Event] > 0
      BY <1>1, <1>2, <2>1 DEF ProcOK, HoldsItsEntry
    <3>2. PICK next : next = log[Hooks!Row(x)].NextRetry
      OBVIOUS
    <3>3. log[Hooks!Row(x)] \in LogEntry
      BY <1>0, <2>1 DEF Hooks!Logged, Hooks!Row, HookTypes
    <3>4. next \in {None, "later", "due"}
      BY <3>2, <3>3 DEF LogEntry
    <3>5. Hooks!Save(x, "retried", next)
      BY <2>1, <3>2 DEF Hooks!MarkRetried
    <3> QED BY <1>0, <2>1, <3>1, <3>4, <3>5, SaveChanges, SaveOK DEF HookTypes
  <2>2. CASE UNCHANGED log /\ (Hooks!DbFault \/ UNCHANGED faults)
    BY <1>0, <2>2, FaultsCounted, Unwritten DEF HookTypes
  <2>3. CASE Hooks!Log(x, "failed", None)
    BY <2>3, LogWritten
  <2> QED BY <1>2, <2>1, <2>2, <2>3 DEF Hooks!Answer
<1> QED BY <1>0, <1>3, IdleProc, HookStep, Unwritten DEF HookTypes

\* Time passes, webhooks come and go, events are published.
LEMMA FallDueOK ==
    ASSUME HookInv, NEW i \in DOMAIN log, Hooks!FallDue(i)
    PROVE  HookInv'
<1>0. HookTypes /\ LogOK(log, webhook, received)
      /\ UNCHANGED <<published, acked, webhook, proc, received, faults>>
      /\ log[i] \in LogEntry
  BY DEF HookInv, Hooks!FallDue, HookTypes
<1>1. PICK e : e = [log[i] EXCEPT !.NextRetry = "due"]
  OBVIOUS
<1>2. /\ e \in LogEntry /\ e.ID = log[i].ID /\ e.WebhookID = log[i].WebhookID
      /\ e.Event = log[i].Event /\ e.Status = log[i].Status
  BY <1>0, <1>1 DEF LogEntry
<1>3. log' = [log EXCEPT ![i] = e]
  BY <1>1 DEF Hooks!FallDue
<1>4. /\ log' \in Seq(LogEntry) /\ DOMAIN log' = DOMAIN log
      /\ \A j \in DOMAIN log : log'[j] = IF j = i THEN e ELSE log[j]
  BY <1>0, <1>2, <1>3 DEF HookTypes
<1>5. LogFollows(log, log') /\ LogOK(log', webhook, received)
  BY <1>0, <1>2, <1>4 DEF LogFollows, LogOK
<1> QED BY <1>0, <1>4, <1>5, HookWait DEF HookTypes

\* A webhook is registered.
LEMMA RegisterOK ==
    ASSUME HookInv, NEW w \in Webhooks, Hooks!Register(w)
    PROVE  HookInv'
<1>0. HookTypes /\ LogOK(log, webhook, received)
      /\ UNCHANGED <<published, acked, log, proc, received, faults>>
      /\ webhook' = [webhook EXCEPT ![w] = "active"]
  BY DEF HookInv, Hooks!Register
<1>1. webhook' \in [Webhooks -> {"none", "active", "deleted"}]
  BY <1>0 DEF HookTypes
<1>2. \A i \in DOMAIN log : log[i].WebhookID \in Webhooks
  <2>1. \A i \in DOMAIN log : log[i] \in LogEntry
    BY <1>0 DEF HookTypes
  <2> QED BY <2>1 DEF LogEntry
<1>3. LogOK(log', webhook', received)
  BY <1>0, <1>1, <1>2 DEF LogOK, HookTypes
<1> QED BY <1>0, <1>1, <1>3, HookWait, Unwritten DEF HookTypes

\* A webhook goes, and its rows with it.
LEMMA DeleteOK ==
    ASSUME HookInv, NEW w \in Webhooks, Hooks!Delete(w)
    PROVE  HookInv'
<1> DEFINE S == {i \in DOMAIN log : log[i].WebhookID # w}
<1>0. HookTypes /\ LogOK(log, webhook, received)
      /\ UNCHANGED <<published, acked, proc, received, faults>>
      /\ webhook' = [webhook EXCEPT ![w] = "deleted"] /\ log' \in Hooks!Kept(S)
  BY DEF HookInv, Hooks!Delete
<1>1. webhook' \in [Webhooks -> {"none", "active", "deleted"}]
  BY <1>0 DEF HookTypes
<1>2. PICK l \in Hooks!Kept(S) : l = log'
  BY <1>0
<1>3. S \in SUBSET (DOMAIN log) /\ log \in Seq(LogEntry)
  BY <1>0 DEF HookTypes
<1>s. \A i \in S : log[i].WebhookID # w
  OBVIOUS
<1> HIDE DEF S
<1>4. PICK f \in [DOMAIN l -> S] : \A i \in DOMAIN l : l[i] = log[f[i]]
  BY <1>3, KeptRows
<1>5. /\ l \in Seq(LogEntry) /\ LogOK(l, webhook, received) /\ LogFollows(log, l)
  BY <1>0, <1>3, KeptRows, KeptOK, KeptFollows
<1>6. \A i \in DOMAIN l : l[i].WebhookID # w /\ l[i].WebhookID \in Webhooks
  <2>1. \A i \in DOMAIN l : l[i] \in LogEntry
    BY <1>5
  <2> QED BY <1>s, <1>4, <2>1 DEF LogEntry
<1>7. LogOK(log', webhook', received)
  BY <1>0, <1>2, <1>5, <1>6 DEF LogOK, HookTypes
<1> QED BY <1>0, <1>1, <1>2, <1>5, <1>7, HookWait DEF HookTypes

\* An event is published.
LEMMA AnnounceOK ==
    ASSUME HookInv, NEW e \in Orders, Hooks!Announce(e)
    PROVE  HookInv'
<1>0. HookTypes /\ LogOK(log, webhook, received)
      /\ UNCHANGED <<acked, webhook, log, proc, received, faults>>
      /\ published' = published \cup {e}
  BY DEF HookInv, Hooks!Announce
<1> QED BY <1>0, HookWait, Unwritten DEF HookTypes

\* None is no event.
LEMMA NotNone == None \notin Orders /\ None \notin Renewals
BY NoneAssumption

-----------------------------------------------------------------------------
(* Without a fault *)

\* A consumer moves on and the others wait.
LEMMA OnceStep ==
    ASSUME HookInv, NothingFailed, NEW c \in Consumers, NEW q, proc' = [proc EXCEPT ![c] = q],
           \A i \in DOMAIN log' : log'[i].Status # "failed",
           q.event \notin acked', Posted(q, received'),
           \A d \in Consumers \ {c} :
              /\ proc[d].event \notin acked' /\ Posted(proc[d], received')
              /\ q.event # None => proc[d].event # q.event,
           \A e \in Orders \ acked' :
              (q.event # e /\ \A d \in Consumers \ {c} : proc[d].event # e) =>
                  \A w \in Webhooks : received'[w][e] = 0,
           \A w \in Webhooks, e \in Orders : received'[w][e] <= 1
    PROVE  NothingFailed'
<1>1. proc \in [Hooks!Processes -> Proc] /\ c \in Hooks!Processes /\ Consumers \subseteq Hooks!Processes
  BY DEF HookInv, HookTypes, Hooks!Processes
<1>2. proc'[c] = q /\ \A x \in Hooks!Processes : x # c => proc'[x] = proc[x]
  BY <1>1
<1>3. \A x \in Retriers \cup Admins : proc'[x].pc = "idle"
  BY <1>2, WebhookAssumption DEF NothingFailed, Hooks!Processes
<1>4. \A d \in Consumers : proc'[d].event \notin acked' /\ Posted(proc'[d], received')
  BY <1>1, <1>2
<1>5. \A a, b \in Consumers :
         proc'[a].event # None /\ proc'[a].event = proc'[b].event => a = b
  <2>1. \A d \in Consumers \ {c} : proc'[d] = proc[d]
    BY <1>1, <1>2
  <2>2. \A a, b \in Consumers :
           proc[a].event # None /\ proc[a].event = proc[b].event => a = b
    BY DEF NothingFailed
  <2> QED BY <1>2, <2>1, <2>2
<1>6. \A e \in Orders \ acked' : (\A d \in Consumers : proc'[d].event # e) =>
         \A w \in Webhooks : received'[w][e] = 0
  BY <1>1, <1>2
<1> QED BY <1>3, <1>4, <1>5, <1>6 DEF NothingFailed

\* Nobody moves; the log and the acknowledgements may change.
LEMMA OnceWait ==
    ASSUME NothingFailed, proc' = proc, received' = received,
           \A i \in DOMAIN log' : log'[i].Status # "failed",
           acked \subseteq acked', \A c \in Consumers : proc[c].event \notin acked'
    PROVE  NothingFailed'
BY DEF NothingFailed

\* Only consumers are at work, each on its own event.
LEMMA AtWork ==
    ASSUME HookInv, NothingFailed, NEW p \in Hooks!Processes, proc[p].pc # "idle"
    PROVE  /\ p \in Consumers /\ proc[p].event \in Orders /\ proc[p].event \notin acked
           /\ Posted(proc[p], received) /\ proc[p].pc \notin {"refused", "later"}
           /\ \A d \in Consumers \ {p} : proc[d].event # proc[p].event
<1>1. p \in Consumers
  BY DEF NothingFailed, Hooks!Processes
<1>2. proc[p] \in Proc /\ ProcOK(p, proc[p], log, received, published)
  BY DEF HookInv, HookTypes
<1>3. proc[p].event \in Orders /\ proc[p].event # None
  <2>1. proc[p].event \in Orders \cup {None}
    BY <1>2 DEF Proc
  <2>2. proc[p].event \in published /\ published \subseteq Orders \cup Renewals
    BY <1>1, <1>2 DEF ProcOK, HookInv, HookTypes
  <2> QED BY <2>1, <2>2, NotNone
<1> QED BY <1>1, <1>3 DEF NothingFailed, Posted

\* The list gets shorter by what was posted or dropped.
LEMMA ShorterList ==
    ASSUME HookInv, NEW p \in Hooks!Processes, proc[p].todo # <<>>,
           proc[p].pc \in {"next"} \cup Delivering, NEW got, Posted(proc[p], got)
    PROVE  Posted(Hooks!Next1(p), got)
<1>1. PICK q : q = Hooks!Next1(p)
  OBVIOUS
<1>2. PICK t \in Seq(Jobs) : t = proc[p].todo
  BY CurrentJob
<1>3. q.pc = "next" /\ q.event = proc[p].event /\ q.todo = Tail(t)
  BY <1>1, <1>2, NextJob
<1>4. /\ Len(t) \in Nat /\ DOMAIN t = 1..Len(t) /\ DOMAIN Tail(t) = 1..(Len(t) - 1)
      /\ \A j \in DOMAIN Tail(t) : Tail(t)[j] = t[j + 1] /\ j + 1 \in DOMAIN t /\ j + 1 # 1
  <2>1. t # <<>>
    BY <1>2
  <2> QED BY <2>1
<1>5. /\ \A j \in DOMAIN t : t[j].event = q.event
      /\ \A j, k \in DOMAIN t : t[j].webhook = t[k].webhook => j = k
      /\ \A j \in DOMAIN t : got[t[j].webhook][q.event] = 0 \/ j = 1
  BY <1>2, <1>3 DEF Posted
<1>6. PICK u : u = Tail(t)
  OBVIOUS
<1>7. /\ \A j \in DOMAIN u : u[j].event = q.event /\ got[u[j].webhook][q.event] = 0
      /\ \A j, k \in DOMAIN u : u[j].webhook = u[k].webhook => j = k
  <2>1. \A j \in DOMAIN u : j \in Int
    BY <1>4, <1>6
  <2> QED BY <1>4, <1>5, <1>6, <2>1
<1>8. Posted(q, got)
  BY <1>3, <1>6, <1>7 DEF Posted
<1> QED BY <1>1, <1>8

\* Ack ends the work on an event, after the whole list.
LEMMA OnceAck ==
    ASSUME HookInv, NothingFailed, NEW c \in Consumers, Hooks!Ack(c)
    PROVE  NothingFailed'
<1>0. /\ proc[c].pc = "next" /\ acked' = acked \cup {proc[c].event}
      /\ proc' = [proc EXCEPT ![c] = Hooks!Idle] /\ UNCHANGED <<log, received>>
      /\ c \in Hooks!Processes
  BY DEF Hooks!Ack, Hooks!Processes
<1>1. \A d \in Consumers \ {c} : proc[d].event # proc[c].event
  BY <1>0, AtWork
<1>2. PICK q : q = Hooks!Idle
  OBVIOUS
<1>3. q.pc = "idle" /\ q.event = None /\ q.todo = <<>>
  BY <1>2, IdleProc
<1>4. Posted(q, received)
  BY <1>3 DEF Posted
<1>5. q.event \notin acked'
  <2>1. proc[c].event \in Orders /\ acked \subseteq Orders \cup Renewals
    BY <1>0, AtWork DEF HookInv, HookTypes
  <2> QED BY <1>0, <1>3, <2>1, NotNone
<1>6. \A d \in Consumers \ {c} : proc[d].event \notin acked' /\ Posted(proc[d], received)
  BY <1>0, <1>1 DEF NothingFailed
<1>7. \A e \in Orders \ acked' :
         (\A d \in Consumers \ {c} : proc[d].event # e) =>
             \A w \in Webhooks : received[w][e] = 0
  BY <1>0 DEF NothingFailed
<1>8. /\ \A w \in Webhooks, e \in Orders : received[w][e] <= 1
      /\ \A i \in DOMAIN log : log[i].Status # "failed"
  BY DEF NothingFailed
<1> QED BY <1>0, <1>2, <1>3, <1>4, <1>5, <1>6, <1>7, <1>8, OnceStep

\* Consume takes an event nobody has, and lists each webhook once.
LEMMA OnceConsume ==
    ASSUME HookInv, NothingFailed, NEW c \in Consumers, Hooks!Consume(c), faults' = 0
    PROVE  NothingFailed'
<1>0. HookTypes /\ c \in Hooks!Processes /\ UNCHANGED <<log, received>>
      /\ proc[c].pc = "idle" /\ \A i \in DOMAIN log : log[i].Status # "failed"
  BY DEF HookInv, Hooks!Processes, Hooks!Consume, NothingFailed
<1>1. PICK e \in (published \cap Orders) \ acked :
         /\ IF \E d \in Consumers : proc[d].event = e THEN Hooks!Fault ELSE UNCHANGED faults
         /\ IF Hooks!FindByEvent(e) = {}
            THEN acked' = acked \cup {e} /\ UNCHANGED proc
            ELSE /\ \E ws \in Hooks!SetToSeqs(Hooks!FindByEvent(e)) :
                       proc' = [proc EXCEPT ![c] =
                           [Hooks!Idle EXCEPT !.pc = "next", !.event = e,
                                !.todo = [i \in DOMAIN ws |-> Hooks!Job(ws[i], e)]]]
                 /\ UNCHANGED acked
  BY DEF Hooks!Consume
<1>2. \A d \in Consumers : proc[d].event # e
  BY <1>0, <1>1, FaultsCounted DEF HookTypes
<1>3. CASE Hooks!FindByEvent(e) = {}
  <2>1. \A d \in Consumers : proc[d].event \notin acked'
    BY <1>1, <1>2, <1>3 DEF NothingFailed
  <2> QED BY <1>0, <1>1, <1>3, <2>1, OnceWait
<1>4. CASE Hooks!FindByEvent(e) # {}
  <2>1. PICK ws \in Hooks!SetToSeqs(Hooks!FindByEvent(e)) :
           proc' = [proc EXCEPT ![c] =
                       [Hooks!Idle EXCEPT !.pc = "next", !.event = e,
                            !.todo = [i \in DOMAIN ws |-> Hooks!Job(ws[i], e)]]]
    BY <1>1, <1>4
  <2>2. PICK list : list = [i \in DOMAIN ws |-> Hooks!Job(ws[i], e)]
    OBVIOUS
  <2>3. /\ list \in Seq(Jobs) /\ \A i \in DOMAIN list : list[i].event = e
        /\ \A i, j \in DOMAIN list : list[i].webhook = list[j].webhook => i = j
    BY <2>2, ConsumerList
  <2>4. PICK q : q = [Hooks!Idle EXCEPT !.pc = "next", !.event = e, !.todo = list]
    OBVIOUS
  <2>5. q.pc = "next" /\ q.event = e /\ q.todo = list
    BY <2>4 DEF Hooks!Idle
  <2>6. \A w \in Webhooks : received[w][e] = 0
    BY <1>2 DEF NothingFailed
  <2>7. \A i \in DOMAIN list : list[i].webhook \in Webhooks
    <3>1. \A i \in DOMAIN list : list[i] \in Jobs
      BY <2>3
    <3> QED BY <3>1 DEF Jobs
  <2>8. Posted(q, received)
    BY <2>3, <2>5, <2>6, <2>7 DEF Posted
  <2>9. proc' = [proc EXCEPT ![c] = q] /\ acked' = acked
    BY <1>1, <1>4, <2>1, <2>2, <2>4
  <2>10. proc[c].event = None
    BY <1>0 DEF HookInv, ProcOK
  <2>11. \A x \in Orders \ acked :
            (q.event # x /\ \A d \in Consumers \ {c} : proc[d].event # x) =>
                \A w \in Webhooks : received[w][x] = 0
    BY <2>10, NotNone DEF NothingFailed
  <2>12. /\ \A d \in Consumers \ {c} : proc[d].event \notin acked /\ Posted(proc[d], received)
         /\ \A w \in Webhooks, x \in Orders : received[w][x] <= 1
    BY DEF NothingFailed
  <2> QED BY <1>0, <1>1, <1>2, <2>5, <2>8, <2>9, <2>11, <2>12, OnceStep
<1> QED BY <1>3, <1>4

\* A step of a consumer that keeps its event and what was received.
LEMMA OnceGoesOn ==
    ASSUME HookInv, NothingFailed, NEW p \in Hooks!Processes, proc[p].pc # "idle",
           NEW q, proc' = [proc EXCEPT ![p] = q], q.event = proc[p].event, Posted(q, received),
           UNCHANGED <<received, acked>>,
           \A i \in DOMAIN log' : log'[i].Status # "failed"
    PROVE  NothingFailed'
<1>1. /\ p \in Consumers /\ proc[p].event \notin acked
      /\ \A d \in Consumers \ {p} : proc[d].event # proc[p].event
  BY AtWork
<1>2. /\ \A d \in Consumers \ {p} : proc[d].event \notin acked /\ Posted(proc[d], received)
      /\ \A w \in Webhooks, e \in Orders : received[w][e] <= 1
  BY DEF NothingFailed
<1>3. \A e \in Orders \ acked :
         (q.event # e /\ \A d \in Consumers \ {p} : proc[d].event # e) =>
             \A w \in Webhooks : received[w][e] = 0
  BY <1>1 DEF NothingFailed
<1>4. q.event \notin acked' /\ Posted(q, received')
  BY <1>1
<1>5. \A d \in Consumers \ {p} :
         /\ proc[d].event \notin acked' /\ Posted(proc[d], received')
         /\ q.event # None => proc[d].event # q.event
  BY <1>1, <1>2
<1>6. /\ \A e \in Orders \ acked' :
            (q.event # e /\ \A d \in Consumers \ {p} : proc[d].event # e) =>
                \A w \in Webhooks : received'[w][e] = 0
      /\ \A w \in Webhooks, e \in Orders : received'[w][e] <= 1
  BY <1>2, <1>3
<1> QED BY <1>1, <1>4, <1>5, <1>6, OnceStep

\* Deliver writes a pending row, or drops a webhook that is gone.
LEMMA OnceDeliver ==
    ASSUME HookInv, NothingFailed, NEW p \in Hooks!Processes, Hooks!Deliver(p)
    PROVE  NothingFailed'
<1>0. /\ HookTypes /\ proc[p].pc = "next" /\ proc[p].todo # <<>>
      /\ UNCHANGED <<acked, received>>
  BY DEF HookInv, Hooks!Deliver
<1>1. Posted(proc[p], received) /\ proc[p] \in Proc
  BY <1>0, AtWork DEF HookTypes
<1>2. CASE /\ proc' = [proc EXCEPT ![p] = Hooks!Next1(p)]
           /\ UNCHANGED log
  <2>1. Posted(Hooks!Next1(p), received) /\ Hooks!Next1(p).event = proc[p].event
    BY <1>0, <1>1, ShorterList, NextJob
  <2> QED BY <1>0, <1>2, <2>1, OnceGoesOn DEF NothingFailed
<1>3. ASSUME NEW open \in Hooks!Kept(Hooks!Open), NEW x, NEW first,
             log' = Append(open, Hooks!Entry(x, first)),
             proc' = [proc EXCEPT ![p].pc = "post", ![p].entry = x, ![p].try = 1]
      PROVE  NothingFailed'
  <2>1. Hooks!Open \in SUBSET (DOMAIN log) /\ log \in Seq(LogEntry)
    BY <1>0 DEF Hooks!Open, HookTypes
  <2>2. PICK f \in [DOMAIN open -> Hooks!Open] : \A i \in DOMAIN open : open[i] = log[f[i]]
    BY <2>1, KeptRows
  <2>3. open \in Seq(LogEntry)
    BY <2>1, KeptRows
  <2>4. \A i \in DOMAIN open : open[i].Status # "failed"
    BY <2>1, <2>2 DEF NothingFailed
  <2>5. PICK e : e = Hooks!Entry(x, first) /\ e.Status = "pending"
    <3>1. PICK e : e = Hooks!Entry(x, first)
      OBVIOUS
    <3>2. e.Status = "pending"
      BY <3>1 DEF Hooks!Entry
    <3> QED BY <3>1, <3>2
  <2>6. log' = Append(open, e)
    BY <1>3, <2>5
  <2>7. \A i \in DOMAIN log' : log'[i] = e \/ \E j \in DOMAIN open : log'[i] = open[j]
    BY <2>3, <2>6
  <2>8. \A i \in DOMAIN log' : log'[i].Status # "failed"
    BY <2>4, <2>5, <2>7
  <2>9. PICK q : q = [proc[p] EXCEPT !.pc = "post", !.entry = x, !.try = 1]
    OBVIOUS
  <2>10. q.pc = "post" /\ q.event = proc[p].event /\ q.todo = proc[p].todo
    BY <1>1, <2>9 DEF Proc
  <2>11. proc' = [proc EXCEPT ![p] = q]
    BY <1>0, <1>3, <2>9 DEF HookTypes
  <2>12. Posted(q, received)
    BY <1>0, <1>1, <2>10 DEF Posted
  <2> QED BY <1>0, <2>8, <2>10, <2>11, <2>12, OnceGoesOn
<1> QED BY <1>2, <1>3 DEF Hooks!Deliver

\* What makes no request is not posted and is off the list.
LEMMA OnceNewRequestFails ==
    ASSUME HookInv, NothingFailed, NEW p \in Hooks!Processes, Hooks!NewRequestFails(p)
    PROVE  NothingFailed'
<1>0. HookTypes /\ proc[p].pc = "post" /\ proc' = [proc EXCEPT ![p] = Hooks!Next1(p)]
      /\ UNCHANGED <<acked, log, received>>
  BY DEF HookInv, Hooks!NewRequestFails
<1>1. Posted(proc[p], received) /\ proc[p].todo # <<>>
  BY <1>0, AtWork DEF HookInv, ProcOK, Delivering
<1>2. Posted(Hooks!Next1(p), received) /\ Hooks!Next1(p).event = proc[p].event
  BY <1>0, <1>1, ShorterList, NextJob DEF Delivering
<1> QED BY <1>0, <1>2, OnceGoesOn DEF NothingFailed

\* Post: the first of the list has got nothing yet, and now has one.
LEMMA OncePost ==
    ASSUME HookInv, NothingFailed, NEW p \in Hooks!Processes, Hooks!Post(p), faults' = 0
    PROVE  NothingFailed'
<1>0. /\ HookTypes /\ proc[p].pc = "post" /\ UNCHANGED <<acked, log>>
  BY DEF HookInv, Hooks!Post
<1>1. /\ p \in Consumers /\ proc[p].event \in Orders /\ proc[p].event \notin acked
      /\ Posted(proc[p], received)
      /\ \A d \in Consumers \ {p} : proc[d].event # proc[p].event
  BY <1>0, AtWork
<1>2. proc[p].todo # <<>>
  BY <1>0 DEF HookInv, ProcOK, Delivering
<1>3. PICK w \in Webhooks, e \in Orders :
         /\ w = proc[p].todo[1].webhook /\ e = proc[p].todo[1].event
         /\ Head(proc[p].todo) = proc[p].todo[1] /\ proc[p] \in Proc
         /\ proc[p].todo \in Seq(Jobs)
  BY <1>2, CurrentJob
<1>4. Hooks!Got(w, e) /\ proc' = [proc EXCEPT ![p].pc = "accepted"]
  BY <1>0, <1>3, FaultsCounted DEF Hooks!Post, HookTypes
<1>5. 1 \in DOMAIN proc[p].todo
  BY <1>2, <1>3
<1>6. e = proc[p].event /\ received[w][e] = 0
  BY <1>0, <1>1, <1>3, <1>5 DEF Posted
<1>7. /\ received'[w][e] = 1
      /\ \A x \in Webhooks, y \in Orders :
            <<x, y>> # <<w, e>> => received'[x][y] = received[x][y]
  BY <1>0, <1>4, <1>6, GotOK DEF HookTypes
<1>8. PICK q : q = [proc[p] EXCEPT !.pc = "accepted"]
  OBVIOUS
<1>9. q.pc = "accepted" /\ q.event = e /\ q.todo = proc[p].todo
  BY <1>3, <1>6, <1>8 DEF Proc
<1>10. proc' = [proc EXCEPT ![p] = q]
  BY <1>0, <1>4, <1>8 DEF HookTypes
<1>11. ASSUME NEW d \in Consumers, NEW j \in DOMAIN proc[d].todo
       PROVE  proc[d].todo[j].webhook \in Webhooks
  <2>1. proc[d] \in Proc
    BY <1>0 DEF HookTypes, Hooks!Processes
  <2>2. proc[d].todo \in Seq(Jobs)
    BY <2>1 DEF Proc
  <2>3. proc[d].todo[j] \in Jobs
    BY <2>2
  <2> QED BY <2>3 DEF Jobs
<1>12. Posted(q, received')
  <2>1. \A j, k \in DOMAIN q.todo : q.todo[j].webhook = q.todo[k].webhook => j = k
    BY <1>1, <1>9 DEF Posted
  <2>2. \A j \in DOMAIN q.todo : j # 1 => received[q.todo[j].webhook][e] = 0
    BY <1>0, <1>1, <1>6, <1>9 DEF Posted
  <2>3. \A j \in DOMAIN q.todo : j # 1 => received'[q.todo[j].webhook][e] = 0
    BY <1>1, <1>3, <1>5, <1>7, <1>9, <1>11, <2>1, <2>2
  <2> QED BY <1>1, <1>6, <1>9, <2>1, <2>3 DEF Posted
<1>13. ASSUME NEW d \in Consumers \ {p} PROVE Posted(proc[d], received')
  <2>1. Posted(proc[d], received) /\ proc[d].event # e
    BY <1>1, <1>6 DEF NothingFailed
  <2>2. \A j \in DOMAIN proc[d].todo : proc[d].event \in Orders
    <3>1. SUFFICES ASSUME NEW j \in DOMAIN proc[d].todo PROVE proc[d].event \in Orders
      OBVIOUS
    <3>2. proc[d] \in Proc
      BY <1>0 DEF HookTypes, Hooks!Processes
    <3>3. proc[d].todo \in Seq(Jobs)
      BY <3>2 DEF Proc
    <3>4. proc[d].todo[j] \in Jobs
      BY <3>3
    <3> QED BY <2>1, <3>4 DEF Posted, Jobs
  <2>3. \A j \in DOMAIN proc[d].todo :
           received'[proc[d].todo[j].webhook][proc[d].event]
               = received[proc[d].todo[j].webhook][proc[d].event]
    BY <1>7, <1>11, <2>1, <2>2
  <2> QED BY <2>1, <2>3 DEF Posted
<1>14. \A x \in Webhooks, y \in Orders : received'[x][y] <= 1
  BY <1>7 DEF NothingFailed
<1>15. \A y \in Orders \ acked :
         (q.event # y /\ \A d \in Consumers \ {p} : proc[d].event # y) =>
             \A x \in Webhooks : received'[x][y] = 0
  BY <1>6, <1>7, <1>9 DEF NothingFailed
<1>16. /\ \A i \in DOMAIN log' : log'[i].Status # "failed"
       /\ \A d \in Consumers \ {p} : proc[d].event \notin acked
  BY <1>0 DEF NothingFailed
<1> QED BY <1>0, <1>1, <1>6, <1>9, <1>10, <1>12, <1>13, <1>14, <1>15, <1>16, OnceStep

\* Accepted takes it off the list.
LEMMA OnceAccepted ==
    ASSUME HookInv, NothingFailed, NEW p \in Hooks!Processes, Hooks!Accepted(p), faults' = 0
    PROVE  NothingFailed'
<1>0. /\ HookTypes /\ proc[p].pc = "accepted" /\ UNCHANGED <<acked, received>>
      /\ proc' = [proc EXCEPT ![p] = Hooks!Next1(p)]
  BY DEF HookInv, Hooks!Accepted
<1>1. proc[p].todo # <<>>
  BY <1>0 DEF HookInv, ProcOK, Delivering
<1>2. Posted(proc[p], received)
  BY <1>0, AtWork
<1>3. Posted(Hooks!Next1(p), received) /\ Hooks!Next1(p).event = proc[p].event
  BY <1>0, <1>1, <1>2, ShorterList, NextJob DEF Delivering
<1>4. PICK x : x = proc[p].entry
  OBVIOUS
<1>5. Hooks!Save(x, "delivered", None)
  BY <1>0, <1>4, FaultsCounted DEF Hooks!Accepted, Hooks!Log, HookTypes
<1>6. \A i \in DOMAIN log' : log'[i].Status # "failed"
  <2>1. /\ DOMAIN log' = DOMAIN log
        /\ \A i \in DOMAIN log : log'[i].Status \in {"delivered", log[i].Status}
    BY <1>5, SaveChanges
  <2> QED BY <2>1 DEF NothingFailed
<1> QED BY <1>0, <1>3, <1>6, OnceGoesOn

\* The count of faults only grows, so a state without one has no fault behind it.
LEMMA HookFaults ==
    ASSUME faults \in Nat, HookNext
    PROVE  faults' \in Nat /\ faults' >= faults
<1>0. /\ Hooks!Fault => faults' = faults + 1
      /\ Hooks!DbFault => faults' = faults + 1
  BY DEF Hooks!Fault, Hooks!DbFault
<1>1. ASSUME NEW w \in Webhooks, Hooks!Register(w) \/ Hooks!Delete(w)
      PROVE  faults' = faults
  BY <1>1 DEF Hooks!Register, Hooks!Delete
<1>2. ASSUME NEW p \in Hooks!Processes, Hooks!WebhookStep(p) \/ Hooks!Crash(p)
      PROVE  faults' \in {faults, faults + 1}
  <2>1. CASE Hooks!Crash(p)
    BY <1>0, <2>1 DEF Hooks!Crash
  <2>2. CASE Hooks!Deliver(p)
    BY <1>0, <2>2 DEF Hooks!Deliver
  <2>3. CASE Hooks!Post(p) \/ Hooks!Repost(p)
    BY <1>0, <2>3 DEF Hooks!Post, Hooks!Repost
  <2>4. CASE Hooks!Accepted(p) \/ Hooks!Refused(p) \/ Hooks!Later(p)
    BY <1>0, <2>4 DEF Hooks!Accepted, Hooks!Refused, Hooks!Later, Hooks!Log
  <2>5. CASE Hooks!Consume(p)
    BY <1>0, <2>5 DEF Hooks!Consume
  <2>6. CASE Hooks!Ack(p) \/ Hooks!Tick(p) \/ Hooks!Rest(p) \/ Hooks!NewRequestFails(p)
    BY <2>6 DEF Hooks!Ack, Hooks!Tick, Hooks!Rest, Hooks!NewRequestFails
  <2>7. CASE Hooks!Answer(p)
    BY <1>0, <2>7 DEF Hooks!Answer, Hooks!Log
  <2> QED BY <1>2, <2>1, <2>2, <2>3, <2>4, <2>5, <2>6, <2>7 DEF Hooks!WebhookStep
<1>3. ASSUME NEW c \in Consumers, Hooks!ConsumeBlind(c) PROVE faults' = faults + 1
  BY <1>0, <1>3 DEF Hooks!ConsumeBlind
<1>4. ASSUME NEW a \in Admins, Hooks!RetryDelivery(a) PROVE faults' = faults
  BY <1>4 DEF Hooks!RetryDelivery
<1>5. ASSUME NEW i \in DOMAIN log, Hooks!FallDue(i) PROVE faults' = faults
  BY <1>5 DEF Hooks!FallDue
<1>6. faults' \in {faults, faults + 1}
  BY <1>1, <1>2, <1>3, <1>4, <1>5 DEF HookNext
<1> QED BY <1>6

\* Every step of the webhooks keeps the log and the processes in agreement.
LEMMA HookKept ==
    ASSUME HookInv, HookNext
    PROVE  HookInv'
<1>1. ASSUME NEW p \in Hooks!Processes, Hooks!WebhookStep(p) \/ Hooks!Crash(p)
      PROVE  HookInv'
  BY <1>1, GoesIdle, ConsumeOK, TickOK, DeliverOK, NewRequestFailsOK, WritesAndGoesOn, PostOK, AnswerOK
     DEF Hooks!WebhookStep
<1> QED BY <1>1, RegisterOK, DeleteOK, ConsumeBlindOK, RetryDeliveryOK, FallDueOK DEF HookNext

\* Without a fault nothing fails, and nothing comes twice.
LEMMA OnceKept ==
    ASSUME HookInv, OnceInv, HookNext
    PROVE  OnceInv'
<1> SUFFICES ASSUME faults' = 0 PROVE NothingFailed'
  BY DEF OnceInv
<1>0. HookTypes /\ faults \in Nat
  BY DEF HookInv, HookTypes
<1>1. NothingFailed
  BY <1>0, HookFaults DEF OnceInv
<1>2. \A i \in DOMAIN log : log[i].Status # "failed"
  BY <1>1 DEF NothingFailed
<1>3. \A c \in Consumers : proc[c].event \notin acked
  BY <1>1 DEF NothingFailed
<1>4. \A p \in Hooks!Processes : proc[p].pc # "idle" =>
         p \in Consumers /\ proc[p].pc \notin {"refused", "later"}
  BY <1>1, AtWork
<1>5. ASSUME NEW w \in Webhooks, Hooks!Register(w) PROVE NothingFailed'
  <2>1. UNCHANGED <<acked, log, proc, received>>
    BY <1>5 DEF Hooks!Register
  <2> QED BY <1>1, <1>2, <1>3, <2>1, OnceWait
<1>6. ASSUME NEW w \in Webhooks, Hooks!Delete(w) PROVE NothingFailed'
  <2> DEFINE S == {i \in DOMAIN log : log[i].WebhookID # w}
  <2>1. UNCHANGED <<acked, proc, received>> /\ log' \in Hooks!Kept(S)
    BY <1>6 DEF Hooks!Delete
  <2>2. S \in SUBSET (DOMAIN log) /\ log \in Seq(LogEntry)
    BY <1>0 DEF HookTypes
  <2> HIDE DEF S
  <2>3. PICK l \in Hooks!Kept(S) : l = log'
    BY <2>1
  <2>4. PICK f \in [DOMAIN l -> S] : \A i \in DOMAIN l : l[i] = log[f[i]]
    BY <2>2, KeptRows
  <2>5. \A i \in DOMAIN log' : log'[i].Status # "failed"
    BY <1>2, <2>2, <2>3, <2>4
  <2> QED BY <1>1, <1>3, <2>1, <2>5, OnceWait
<1>7. ASSUME NEW i \in DOMAIN log, Hooks!FallDue(i) PROVE NothingFailed'
  <2>1. UNCHANGED <<acked, proc, received>> /\ log' = [log EXCEPT ![i].NextRetry = "due"]
    BY <1>7 DEF Hooks!FallDue
  <2>2. \A j \in DOMAIN log : log[j] \in LogEntry
    BY <1>0 DEF HookTypes
  <2>3. PICK e : e = [log[i] EXCEPT !.NextRetry = "due"]
    OBVIOUS
  <2>4. e.Status = log[i].Status
    BY <2>2, <2>3 DEF LogEntry
  <2>5. log' = [log EXCEPT ![i] = e]
    BY <2>1, <2>3
  <2>6. \A j \in DOMAIN log' : log'[j].Status # "failed"
    BY <1>0, <1>2, <2>4, <2>5 DEF HookTypes
  <2> QED BY <1>1, <1>3, <2>1, <2>6, OnceWait
<1>8. ASSUME NEW p \in Hooks!Processes, Hooks!WebhookStep(p) PROVE NothingFailed'
  <2>1. ~Hooks!Refused(p) /\ ~Hooks!Later(p)
    BY <1>4 DEF Hooks!Refused, Hooks!Later
  <2>2. p \in Retriers => ~Hooks!Rest(p)
    BY <1>4, WebhookAssumption DEF Hooks!Rest
  <2>3. p \in Admins => ~Hooks!Repost(p) /\ ~Hooks!Answer(p)
    BY <1>4, WebhookAssumption DEF Hooks!Repost, Hooks!Answer
  <2>4. ~Hooks!Tick(p)
    BY <1>2 DEF Hooks!Tick, Hooks!ListFailedDueForRetry
  <2> QED BY <1>1, <1>8, <2>1, <2>2, <2>3, <2>4, OnceDeliver, OnceNewRequestFails, OncePost,
             OnceAccepted, OnceConsume, OnceAck DEF Hooks!WebhookStep
<1>9. \A p \in Hooks!Processes : ~Hooks!Crash(p)
  BY <1>0, FaultsCounted DEF Hooks!Crash
<1>10. \A c \in Consumers : ~Hooks!ConsumeBlind(c)
  BY <1>0, FaultsCounted DEF Hooks!ConsumeBlind
<1>11. \A a \in Admins : ~Hooks!RetryDelivery(a)
  BY <1>2 DEF Hooks!RetryDelivery
<1> QED BY <1>5, <1>6, <1>7, <1>8, <1>9, <1>10, <1>11 DEF HookNext

-----------------------------------------------------------------------------
(* The notices *)

\* What a callback is at.
LEMMA AtNotice ==
    ASSUME HookInv, NoteInv, NEW n \in Notifiers, job[n].pc # "idle"
    PROVE  /\ job[n] \in [pc: {"email", "in_app", "ack"}, event: published]
           /\ job[n].event \in published /\ job[n].event # None
           /\ Notes!NoticeOf(job[n].event) # None
<1>1. CallbackOK(job[n])
  BY DEF NoteInv, NoteTypes
<1>2. Notes!Resting.pc = "idle"
  BY DEF Notes!Resting
<1>3. /\ job[n] \in [pc: {"email", "in_app", "ack"}, event: published]
      /\ Notes!NoticeOf(job[n].event) # None
  BY <1>1, <1>2 DEF CallbackOK
<1>4. published \subseteq Orders \cup Renewals
  BY DEF HookInv, HookTypes
<1> QED BY <1>3, <1>4, NotNone

\* None is in no stream.
LEMMA NoneUnanswered ==
    ASSUME HookInv, NoteInv
    PROVE  None \notin published /\ None \notin answered
BY NotNone DEF HookInv, HookTypes, NoteInv, NoteTypes

\* A message that is sent goes to the user's notices, at least.
LEMMA Messages ==
    ASSUME NEW e \in Orders \cup Renewals, Notes!NoticeOf(e) # None
    PROVE  "in_app" \in Notes!NoticeOf(e).channels
<1>1. PICK k : k = Kind[e]
  OBVIOUS
<1>2. Notes!OrderNotice(k) # None => "in_app" \in Notes!OrderNotice(k).channels
  <2>1. CASE k = "confirmed"
    BY <2>1 DEF Notes!OrderNotice, Notes!Channels
  <2>2. CASE k \in {"shipped", "delivered"}
    BY <2>2 DEF Notes!OrderNotice, Notes!Channels
  <2>3. CASE k \notin {"confirmed", "shipped", "delivered"}
    BY <2>3 DEF Notes!OrderNotice
  <2> QED BY <2>1, <2>2, <2>3
<1>3. Notes!SubscriptionNotice(k) # None => "in_app" \in Notes!SubscriptionNotice(k).channels
  <2>1. CASE k = "active"
    BY <2>1 DEF Notes!SubscriptionNotice
  <2>2. CASE k \in {"past_due", "expired"}
    BY <2>2 DEF Notes!SubscriptionNotice, Notes!Channels
  <2>3. CASE k \notin {"active", "past_due", "expired"}
    BY <2>3 DEF Notes!SubscriptionNotice
  <2> QED BY <2>1, <2>2, <2>3
<1> QED BY <1>1, <1>2, <1>3 DEF Notes!NoticeOf

\* The row allows only what the user wants.
LEMMA AllowedIsWanted ==
    ASSUME NoteInv, OneEdit, NEW e, Notes!NoticeOf(e) # None, NEW channel \in Notes!Channels,
           channel \in Notes!NoticeOf(e).channels,
           Notes!allows(channel, Notes!NoticeOf(e).type)
    PROVE  Wanted(e, channel)
<1>1. PICK t : t = Notes!NoticeOf(e).type
  OBVIOUS
<1>2. Obeys(prefs, wish)
  BY DEF OneEdit
<1>3. CASE prefs = None
  BY <1>2, <1>3, NoneAssumption DEF Obeys, Wanted
<1>4. CASE prefs # None
  <2>1. prefs \in [Enabled: SUBSET Notes!Channels, Types: SUBSET NotificationTypes]
    BY <1>4 DEF NoteInv, NoteTypes
  <2>2. prefs.Types # None
    BY <2>1, NoneAssumption
  <2>3. channel \in prefs.Enabled /\ t \in prefs.Types
    BY <1>1, <1>4, <2>2 DEF Notes!allows, Notes!Allows, Notes!toDomain
  <2>4. /\ "email" \in prefs.Enabled => wish.email # FALSE
        /\ "in_app" \in prefs.Enabled => wish.inApp # FALSE
        /\ wish.types # None => prefs.Types = wish.types
    BY <1>2, <1>4 DEF Obeys
  <2>5. (IF channel = "email" THEN wish.email ELSE wish.inApp) # FALSE
    BY <2>3, <2>4 DEF Notes!Channels
  <2> QED BY <1>1, <2>3, <2>4, <2>5 DEF Wanted
<1> QED BY <1>3, <1>4

\* A step that leaves the preferences and the user's wishes alone.
LEMMA NoteStep ==
    ASSUME NoteInv, UNCHANGED <<prefs, edit, wish, overlap>>,
           faults \in Nat, faults' \in Nat, faults' >= faults,
           answered' \cup mailed' \cup calm' \subseteq published',
           notice' \in [Notices -> Notes!Notice \cup {None}],
           \A n \in Notices : notice'[n] # None => notice'[n].event \in published',
           DOMAIN job' = Notifiers, (\A n \in Notifiers : CallbackOK(job[n]))',
           Notes!Editing => calm' = {},
           faults' = 0 => NotedOnce',
           faults' = 0 /\ ~overlap => \A e \in calm' :
              /\ e \in mailed' => Wanted(e, "email")
              /\ Noted(e)' => Wanted(e, "in_app")
    PROVE  NoteInv'
<1>1. NoteTypes'
  BY DEF NoteInv, NoteTypes
<1>2. (Notes!Editing => calm = {})'
  BY DEF Notes!Editing
<1>3. (faults = 0 /\ ~overlap => OneEdit)'
  <2>1. faults' = 0 => faults = 0
    OBVIOUS
  <2> QED BY <2>1 DEF NoteInv, OneEdit, Row
<1>4. \A e, channel : Wanted(e, channel)' <=> Wanted(e, channel)
  BY DEF Wanted
<1>5. OptedOutIsSpared'
  BY <1>4 DEF OptedOutIsSpared, Settled
<1> QED BY <1>1, <1>2, <1>3, <1>5 DEF NoteInv

\* What is known of the events told of so far.
LEMMA SparedSoFar ==
    ASSUME NoteInv, faults = 0, ~overlap, NEW e \in calm
    PROVE  /\ e \in mailed => Wanted(e, "email")
           /\ Noted(e) => Wanted(e, "in_app")
BY DEF NoteInv, OptedOutIsSpared, Settled

\* The webhooks' steps, and rows of the notices that change but for their event.
LEMMA NoteWait ==
    ASSUME HookInv, NoteInv, faults' \in Nat, faults' >= faults,
           UNCHANGED <<published, answered, prefs, mailed, job, edit, calm, wish, overlap>>,
           notice' \in [Notices -> Notes!Notice \cup {None}],
           \A n \in Notices : /\ notice'[n] = None <=> notice[n] = None
                              /\ notice[n] # None => notice'[n].event = notice[n].event
    PROVE  NoteInv'
<1>1. faults \in Nat /\ (faults' = 0 => faults = 0)
  BY DEF HookInv, HookTypes
<1>2. NoteTypes /\ (Notes!Editing => calm = {})
  BY DEF NoteInv
<1>3. (\A n \in Notifiers : CallbackOK(job[n]))'
  BY <1>2 DEF NoteTypes, CallbackOK
<1>4. \A n \in Notices : notice'[n] # None => notice'[n].event \in published'
  BY <1>2 DEF NoteTypes
<1>5. faults' = 0 => NotedOnce'
  BY <1>1 DEF NoteInv, NotedOnce
<1>6. \A e : Noted(e)' <=> Noted(e)
  BY DEF Noted
<1>7. faults' = 0 /\ ~overlap => \A e \in calm' :
              /\ e \in mailed' => Wanted(e, "email")
              /\ Noted(e)' => Wanted(e, "in_app")
  BY <1>1, <1>6, SparedSoFar
<1> QED BY <1>1, <1>2, <1>3, <1>4, <1>5, <1>7, NoteStep DEF NoteTypes

\* An event is published, and nobody is told of it yet.
LEMMA PublishedOK ==
    ASSUME HookInv, NoteInv, NEW e, e \notin published, published' = published \cup {e},
           Notes!Note(e), UNCHANGED faults,
           UNCHANGED <<answered, prefs, notice, mailed, job, edit, wish, overlap>>
    PROVE  NoteInv'
<1>1. faults \in Nat
  BY DEF HookInv, HookTypes
<1>2. NoteTypes /\ (Notes!Editing => calm = {})
  BY DEF NoteInv
<1>3. calm' \subseteq calm \cup {e} /\ (Notes!Editing => calm' = {})
  BY <1>2 DEF Notes!Note
<1>4. (\A n \in Notifiers : CallbackOK(job[n]))'
  <2>1. ASSUME NEW n \in Notifiers PROVE CallbackOK(job[n])'
    <3>1. PICK j : j = job[n]
      OBVIOUS
    <3>2. \/ j = Notes!Resting
          \/ /\ j \in [pc: {"email", "in_app", "ack"}, event: published]
             /\ Notes!NoticeOf(j.event) # None
      BY <1>2, <3>1 DEF NoteTypes, CallbackOK
    <3>3. \/ j = Notes!Resting
          \/ /\ j \in [pc: {"email", "in_app", "ack"}, event: published']
             /\ Notes!NoticeOf(j.event) # None
      BY <3>2
    <3> QED BY <3>1, <3>3 DEF CallbackOK
  <2> QED BY <2>1
<1>5. \A n \in Notices : notice'[n] # None => notice'[n].event \in published'
  BY <1>2 DEF NoteTypes
<1>6. faults' = 0 => NotedOnce'
  BY DEF NoteInv, NotedOnce
<1>7. e \notin mailed /\ ~Noted(e)
  BY <1>2 DEF NoteTypes, Noted
<1>8. \A x : Noted(x)' <=> Noted(x)
  BY DEF Noted
<1>9. faults' = 0 /\ ~overlap => \A x \in calm' :
              /\ x \in mailed' => Wanted(x, "email")
              /\ Noted(x)' => Wanted(x, "in_app")
  BY <1>3, <1>7, <1>8, SparedSoFar
<1>10. answered' \cup mailed' \cup calm' \subseteq published'
  BY <1>2, <1>3 DEF NoteTypes
<1> QED BY <1>1, <1>2, <1>3, <1>4, <1>5, <1>6, <1>9, <1>10, NoteStep DEF NoteTypes

\* One callback moves on; the others, and the rows, are as before or better.
LEMMA CallbackStep ==
    ASSUME HookInv, NoteInv, NEW n \in Notifiers, NEW q, job' = [job EXCEPT ![n] = q],
           CallbackOK(q), UNCHANGED <<published, prefs, edit, calm, wish, overlap>>,
           faults' \in Nat, faults' >= faults,
           answered' \cup mailed' \subseteq published,
           notice' \in [Notices -> Notes!Notice \cup {None}],
           \A x \in Notices : notice'[x] # None => notice'[x].event \in published,
           faults' = 0 => NotedOnce',
           faults' = 0 /\ ~overlap => \A e \in calm :
              /\ e \in mailed' => Wanted(e, "email")
              /\ Noted(e)' => Wanted(e, "in_app")
    PROVE  NoteInv'
<1>1. faults \in Nat
  BY DEF HookInv, HookTypes
<1>2. NoteTypes /\ (Notes!Editing => calm = {})
  BY DEF NoteInv
<1>3. DOMAIN job' = Notifiers /\ \A m \in Notifiers : job'[m] = IF m = n THEN q ELSE job[m]
  BY <1>2 DEF NoteTypes
<1>4. (\A m \in Notifiers : CallbackOK(job[m]))'
  <2>1. ASSUME NEW m \in Notifiers PROVE CallbackOK(job[m])'
    <3>1. PICK j : j = job'[m]
      OBVIOUS
    <3>2. CallbackOK(j)
      BY <1>2, <1>3, <3>1 DEF NoteTypes
    <3> QED BY <3>1, <3>2 DEF CallbackOK
  <2> QED BY <2>1
<1>5. answered' \cup mailed' \cup calm' \subseteq published'
  BY <1>2 DEF NoteTypes
<1> QED BY <1>1, <1>2, <1>3, <1>4, <1>5, NoteStep

\* Without a fault: the same for what is noted.
LEMMA NotedStep ==
    ASSUME NoteInv, NotedOnce, NEW n \in Notifiers, NEW q, job' = [job EXCEPT ![n] = q],
           q.event # None => \A m \in Notifiers \ {n} : job[m].event # q.event,
           q.event \notin answered', \A m \in Notifiers \ {n} : job[m].event \notin answered',
           \A x \in Notices : notice'[x] # None =>
              \/ notice'[x].event \in answered'
              \/ \E m \in Notifiers : job'[m] = [pc |-> "ack", event |-> notice'[x].event],
           \A x, y \in Notices :
              notice'[x] # None /\ notice'[y] # None /\ notice'[x].event = notice'[y].event => x = y
    PROVE  NotedOnce'
<1>1. job'[n] = q /\ \A m \in Notifiers \ {n} : job'[m] = job[m]
  BY DEF NoteInv, NoteTypes
<1>2. \A a, b \in Notifiers : job'[a].event # None /\ job'[a].event = job'[b].event => a = b
  <2>1. \A a, b \in Notifiers : job[a].event # None /\ job[a].event = job[b].event => a = b
    BY DEF NotedOnce
  <2> QED BY <1>1, <2>1
<1>3. \A m \in Notifiers : job'[m].event \notin answered'
  BY <1>1
<1> QED BY <1>2, <1>3 DEF NotedOnce

\* A callback goes on with its event and nothing is written to the table.
LEMMA NotedGoesOn ==
    ASSUME NoteInv, NotedOnce, NEW n \in Notifiers, NEW q, job' = [job EXCEPT ![n] = q],
           job[n].pc # "ack",
           q.event # None => \A m \in Notifiers \ {n} : job[m].event # q.event,
           q.event \notin answered, UNCHANGED <<answered, notice>>
    PROVE  NotedOnce'
<1>1. \A x \in Notices : notice[x] # None =>
          \/ notice[x].event \in answered
          \/ \E m \in Notifiers \ {n} : job[m] = [pc |-> "ack", event |-> notice[x].event]
  <2>1. \A x : job[n] # [pc |-> "ack", event |-> x]
    OBVIOUS
  <2> QED BY <2>1 DEF NotedOnce
<1>2. job'[n] = q /\ \A m \in Notifiers \ {n} : job'[m] = job[m]
  BY DEF NoteInv, NoteTypes
<1>3. \A c, d \in Notifiers : job'[c].event # None /\ job'[c].event = job'[d].event => c = d
  <2>1. \A c, d \in Notifiers : job[c].event # None /\ job[c].event = job[d].event => c = d
    BY DEF NotedOnce
  <2> QED BY <1>2, <2>1
<1>4. \A m \in Notifiers : job'[m].event \notin answered'
  BY <1>2 DEF NotedOnce
<1>5. \A x \in Notices : notice'[x] # None =>
          \/ notice'[x].event \in answered'
          \/ \E m \in Notifiers : job'[m] = [pc |-> "ack", event |-> notice'[x].event]
  BY <1>1, <1>2
<1>6. \A x, y \in Notices :
         notice'[x] # None /\ notice'[y] # None /\ notice'[x].event = notice'[y].event => x = y
  BY DEF NotedOnce
<1> QED BY <1>3, <1>4, <1>5, <1>6 DEF NotedOnce

\* A callback that goes back to rest.
LEMMA AtRest ==
    /\ Notes!Resting.pc = "idle" /\ Notes!Resting.event = None /\ CallbackOK(Notes!Resting)
BY DEF Notes!Resting, CallbackOK

\* A callback that dies is a fault.
LEMMA DieOK ==
    ASSUME HookInv, NoteInv, NEW n \in Notifiers, Notes!Die(n)
    PROVE  NoteInv'
<1>1. /\ job' = [job EXCEPT ![n] = Notes!Resting]
      /\ UNCHANGED <<published, answered, prefs, notice, mailed, edit, calm, wish, overlap>>
      /\ NoteTypes /\ faults \in Nat /\ faults' = faults + 1
  BY DEF Notes!Die, Notes!Fault, NoteInv, HookInv, HookTypes
<1>2. faults' \in Nat /\ faults' >= faults /\ faults' # 0
  BY <1>1
<1> QED BY <1>1, <1>2, AtRest, CallbackStep DEF NoteTypes

\* The event is acknowledged after the notice.
LEMMA AckEventOK ==
    ASSUME HookInv, NoteInv, NEW n \in Notifiers, Notes!AckEvent(n)
    PROVE  NoteInv'
<1>1. /\ job' = [job EXCEPT ![n] = Notes!Resting] /\ job[n].pc = "ack"
      /\ answered' = answered \cup {job[n].event}
      /\ UNCHANGED <<published, prefs, notice, mailed, edit, calm, wish, overlap, faults>>
      /\ NoteTypes /\ faults \in Nat
  BY DEF Notes!AckEvent, NoteInv, HookInv, HookTypes
<1>2. PICK e : e = job[n].event
  OBVIOUS
<1>3. e \in published /\ e # None /\ answered' = answered \cup {e}
  BY <1>1, <1>2, AtNotice
<1>4. ASSUME faults' = 0 PROVE NotedOnce'
  <2>0. NotedOnce
    BY <1>1, <1>4 DEF NoteInv
  <2>1. PICK q : q = Notes!Resting
    OBVIOUS
  <2>2. q.event = None /\ job' = [job EXCEPT ![n] = q]
    BY <1>1, <2>1, AtRest
  <2>3. \A m \in Notifiers \ {n} : job[m].event \notin answered'
    BY <1>2, <1>3, <2>0 DEF NotedOnce
  <2>4. \A x \in Notices : notice'[x] # None =>
              \/ notice'[x].event \in answered'
              \/ \E m \in Notifiers : job'[m] = [pc |-> "ack", event |-> notice'[x].event]
    <3>1. \A x : job[n] = [pc |-> "ack", event |-> x] => x = e
      BY <1>2
    <3>2. \A m \in Notifiers \ {n} : job'[m] = job[m]
      BY <1>1 DEF NoteTypes
    <3> QED BY <1>1, <1>3, <2>0, <3>1, <3>2 DEF NotedOnce
  <2>5. \A x, y \in Notices :
           notice'[x] # None /\ notice'[y] # None /\ notice'[x].event = notice'[y].event => x = y
    BY <1>1, <2>0 DEF NotedOnce
  <2>6. q.event \notin answered'
    BY <1>3, <2>2, NoneUnanswered
  <2> QED BY <2>0, <2>2, <2>3, <2>4, <2>5, <2>6, NotedStep
<1>5. \A x : Noted(x)' <=> Noted(x)
  BY <1>1 DEF Noted
<1>6. faults' = 0 /\ ~overlap => \A x \in calm :
              /\ x \in mailed' => Wanted(x, "email")
              /\ Noted(x)' => Wanted(x, "in_app")
  BY <1>1, <1>5, SparedSoFar
<1>7. /\ answered' \cup mailed' \subseteq published /\ faults' \in Nat /\ faults' >= faults
      /\ notice' \in [Notices -> Notes!Notice \cup {None}]
      /\ \A x \in Notices : notice'[x] # None => notice'[x].event \in published
  BY <1>1, <1>3 DEF NoteTypes
<1> QED BY <1>1, <1>4, <1>6, <1>7, AtRest, CallbackStep

\* A callback takes an event nobody has, or answers one nobody is told of.
LEMMA ReceiveOK ==
    ASSUME HookInv, NoteInv, NEW n \in Notifiers, Notes!Receive(n)
    PROVE  NoteInv'
<1>1. /\ job[n] = Notes!Resting
      /\ UNCHANGED <<published, prefs, notice, mailed, edit, calm, wish, overlap>>
      /\ NoteTypes /\ faults \in Nat
  BY DEF Notes!Receive, NoteInv, HookInv, HookTypes
<1>2. PICK e \in published \ answered :
         \/ /\ Notes!NoticeOf(e) # None
            /\ job' = [job EXCEPT ![n] = [pc |-> "email", event |-> e]]
            /\ IF \E m \in Notifiers : job[m].event = e THEN Notes!Fault ELSE UNCHANGED faults
            /\ UNCHANGED answered
         \/ /\ answered' = answered \cup {e}
            /\ IF Notes!NoticeOf(e) # None THEN Notes!Fault ELSE UNCHANGED faults
            /\ UNCHANGED job
  BY DEF Notes!Receive, Notes!startOrderConsumer, Notes!startSubscriptionConsumer, Notes!Callback
<1>3. /\ faults' \in Nat /\ faults' >= faults /\ (faults' = 0 => faults = 0)
      /\ Notes!Fault => faults' # 0
  BY <1>1, <1>2 DEF Notes!Fault
<1>4. \A x : Noted(x)' <=> Noted(x)
  BY <1>1 DEF Noted
<1>5. faults' = 0 /\ ~overlap => \A x \in calm :
              /\ x \in mailed' => Wanted(x, "email")
              /\ Noted(x)' => Wanted(x, "in_app")
  BY <1>1, <1>3, <1>4, SparedSoFar
<1>6. /\ answered' \cup mailed' \subseteq published
      /\ notice' \in [Notices -> Notes!Notice \cup {None}]
      /\ \A x \in Notices : notice'[x] # None => notice'[x].event \in published
  BY <1>1, <1>2 DEF NoteTypes
<1>7. e # None /\ job[n].pc # "ack"
  BY <1>1, <1>2, NoneUnanswered, AtRest
<1>8. CASE /\ Notes!NoticeOf(e) # None
           /\ job' = [job EXCEPT ![n] = [pc |-> "email", event |-> e]]
           /\ IF \E m \in Notifiers : job[m].event = e THEN Notes!Fault ELSE UNCHANGED faults
           /\ UNCHANGED answered
  <2>1. PICK q : q = [pc |-> "email", event |-> e]
    OBVIOUS
  <2>2. CallbackOK(q) /\ q.event = e
    BY <1>2, <1>8, <2>1 DEF CallbackOK
  <2>3. ASSUME faults' = 0 PROVE NotedOnce'
    <3>1. NotedOnce /\ \A m \in Notifiers : job[m].event # e
      BY <1>3, <1>8, <2>3 DEF NoteInv
    <3>2. job' = [job EXCEPT ![n] = q] /\ UNCHANGED <<answered, notice>>
      BY <1>1, <1>8, <2>1
    <3> QED BY <1>2, <1>7, <2>2, <3>1, <3>2, NotedGoesOn
  <2> QED BY <1>1, <1>3, <1>5, <1>6, <1>8, <2>1, <2>2, <2>3, CallbackStep
<1>9. CASE /\ answered' = answered \cup {e}
           /\ IF Notes!NoticeOf(e) # None THEN Notes!Fault ELSE UNCHANGED faults
           /\ UNCHANGED job
  <2>1. ASSUME faults' = 0 PROVE NotedOnce'
    <3>1. NotedOnce /\ Notes!NoticeOf(e) = None
      BY <1>3, <1>9, <2>1 DEF NoteInv
    <3>2. \A m \in Notifiers : job[m].event # e
      <4>1. ASSUME NEW m \in Notifiers PROVE job[m].event # e
        <5>1. CASE job[m].pc = "idle"
          <6>1. job[m] = Notes!Resting
            BY <1>1, <5>1 DEF NoteTypes, CallbackOK
          <6> QED BY <1>7, <6>1, AtRest
        <5>2. CASE job[m].pc # "idle"
          BY <3>1, <5>2, AtNotice
        <5> QED BY <5>1, <5>2
      <4> QED BY <4>1
    <3> QED BY <1>1, <1>9, <3>1, <3>2 DEF NotedOnce
  <2>2. /\ DOMAIN job' = Notifiers /\ (\A m \in Notifiers : CallbackOK(job[m]))'
    BY <1>1, <1>9 DEF NoteTypes, CallbackOK
  <2>3. answered' \cup mailed' \cup calm' \subseteq published' /\ (Notes!Editing => calm' = {})
    BY <1>1, <1>6 DEF NoteTypes, NoteInv
  <2>4. \A x \in Notices : notice'[x] # None => notice'[x].event \in published'
    BY <1>1, <1>6
  <2>5. faults' = 0 /\ ~overlap => \A x \in calm' :
              /\ x \in mailed' => Wanted(x, "email")
              /\ Noted(x)' => Wanted(x, "in_app")
    BY <1>1, <1>5
  <2> QED BY <1>1, <1>3, <1>6, <2>1, <2>2, <2>3, <2>4, <2>5, NoteStep
<1> QED BY <1>2, <1>8, <1>9

\* Send mails what the row allows.
LEMMA SendOK ==
    ASSUME HookInv, NoteInv, NEW n \in Notifiers, Notes!Send(n)
    PROVE  NoteInv'
<1>1. /\ job[n].pc = "email" /\ job' = [job EXCEPT ![n].pc = "in_app"]
      /\ UNCHANGED <<published, answered, prefs, notice, edit, calm, wish, overlap>>
      /\ NoteTypes /\ faults \in Nat
  BY DEF Notes!Send, NoteInv, HookInv, HookTypes
<1>2. PICK e : e = job[n].event
  OBVIOUS
<1>3. /\ job[n] \in [pc: {"email", "in_app", "ack"}, event: published]
      /\ e \in published /\ e # None /\ Notes!NoticeOf(e) # None
  BY <1>1, <1>2, AtNotice
<1>4. \/ /\ mailed' = mailed \/ /\ mailed' = mailed \cup {e}
                                /\ "email" \in Notes!NoticeOf(e).channels
                                /\ Notes!allows("email", Notes!NoticeOf(e).type)
         /\ UNCHANGED faults
      \/ Notes!Fault /\ mailed' \in {mailed, mailed \cup {e}}
  BY <1>2 DEF Notes!Send
<1>5. /\ faults' \in Nat /\ faults' >= faults /\ (faults' = 0 => faults = 0)
      /\ Notes!Fault => faults' # 0
  BY <1>1, <1>4 DEF Notes!Fault
<1>6. PICK q : q = [job[n] EXCEPT !.pc = "in_app"]
  OBVIOUS
<1>7. /\ q \in [pc: {"email", "in_app", "ack"}, event: published] /\ q.event = e
      /\ q.pc = "in_app"
  BY <1>2, <1>3, <1>6
<1>8. CallbackOK(q) /\ job' = [job EXCEPT ![n] = q]
  BY <1>1, <1>3, <1>6, <1>7 DEF CallbackOK
<1>9. ASSUME faults' = 0 PROVE NotedOnce'
  <2>1. NotedOnce
    BY <1>5, <1>9 DEF NoteInv
  <2>2. \A m \in Notifiers \ {n} : job[m].event # e
    BY <1>2, <1>3, <2>1 DEF NotedOnce
  <2>3. e \notin answered
    BY <1>2, <2>1 DEF NotedOnce
  <2> QED BY <1>1, <1>7, <1>8, <2>1, <2>2, <2>3, NotedGoesOn
<1>10. \A x : Noted(x)' <=> Noted(x)
  BY <1>1 DEF Noted
<1>11. ASSUME faults' = 0, ~overlap, NEW x \in calm
       PROVE  /\ x \in mailed' => Wanted(x, "email")
              /\ Noted(x)' => Wanted(x, "in_app")
  <2>1. faults = 0 /\ OneEdit
    BY <1>5, <1>11 DEF NoteInv
  <2>2. (x \in mailed => Wanted(x, "email")) /\ (Noted(x) => Wanted(x, "in_app"))
    BY <1>11, <2>1, SparedSoFar
  <2>3. x \in mailed' /\ x \notin mailed => Wanted(x, "email")
    <3>1. SUFFICES ASSUME x \in mailed', x \notin mailed PROVE Wanted(x, "email")
      OBVIOUS
    <3>2. /\ x = e /\ "email" \in Notes!NoticeOf(e).channels
          /\ Notes!allows("email", Notes!NoticeOf(e).type)
      BY <1>4, <1>5, <1>11, <3>1
    <3>3. "email" \in Notes!Channels
      BY DEF Notes!Channels
    <3> QED BY <1>3, <2>1, <3>2, <3>3, AllowedIsWanted
  <2> QED BY <1>10, <2>2, <2>3
<1>12. /\ answered' \cup mailed' \subseteq published
       /\ notice' \in [Notices -> Notes!Notice \cup {None}]
       /\ \A x \in Notices : notice'[x] # None => notice'[x].event \in published
  BY <1>1, <1>3, <1>4 DEF NoteTypes
<1> QED BY <1>1, <1>5, <1>8, <1>9, <1>11, <1>12, CallbackStep

\* NotifyInApp writes the first notice of its event, if the row allows it.
LEMMA NotifyInAppOK ==
    ASSUME HookInv, NoteInv, NEW n \in Notifiers, Notes!NotifyInApp(n)
    PROVE  NoteInv'
<1>1. /\ job[n].pc = "in_app" /\ job' = [job EXCEPT ![n].pc = "ack"] /\ Notes!Free # {}
      /\ UNCHANGED <<published, answered, prefs, mailed, edit, calm, wish, overlap>>
      /\ NoteTypes /\ faults \in Nat /\ published \subseteq Orders \cup Renewals
  BY DEF Notes!NotifyInApp, NoteInv, HookInv, HookTypes
<1>2. PICK e : e = job[n].event
  OBVIOUS
<1>3. /\ job[n] \in [pc: {"email", "in_app", "ack"}, event: published]
      /\ e \in published /\ e # None /\ Notes!NoticeOf(e) # None
  BY <1>1, <1>2, AtNotice
<1>4. PICK new : new = CHOOSE x \in Notes!Free : TRUE
  OBVIOUS
<1>5. new \in Notices /\ notice[new] = None
  <2>1. new \in Notes!Free
    BY <1>1, <1>4
  <2> QED BY <2>1 DEF Notes!Free
<1>6. PICK row : row = [event |-> e, read |-> FALSE]
  OBVIOUS
<1>7. row \in Notes!Notice /\ row.event = e /\ row # None
  <2>1. row \in Notes!Notice /\ row.event = e
    BY <1>1, <1>3, <1>6 DEF Notes!Notice, Notes!Events
  <2> QED BY <2>1, NoneAssumption
<1>8. \/ /\ \/ notice' = notice
            \/ /\ notice' = [notice EXCEPT ![new] = row]
               /\ Notes!allows("in_app", Notes!NoticeOf(e).type)
         /\ UNCHANGED faults
      \/ Notes!Fault /\ notice' \in {notice, [notice EXCEPT ![new] = row]}
  BY <1>2, <1>4, <1>6 DEF Notes!NotifyInApp
<1>9. /\ faults' \in Nat /\ faults' >= faults /\ (faults' = 0 => faults = 0)
      /\ Notes!Fault => faults' # 0
  BY <1>1, <1>8 DEF Notes!Fault
<1>10. PICK q : q = [job[n] EXCEPT !.pc = "ack"]
  OBVIOUS
<1>11. /\ q \in [pc: {"email", "in_app", "ack"}, event: published] /\ q.event = e
       /\ q = [pc |-> "ack", event |-> e]
  BY <1>2, <1>3, <1>10
<1>12. CallbackOK(q) /\ job' = [job EXCEPT ![n] = q]
  BY <1>1, <1>3, <1>10, <1>11 DEF CallbackOK
<1>13. /\ notice \in [Notices -> Notes!Notice \cup {None}]
       /\ \A x \in Notices : notice[x] # None => notice[x].event \in published
  BY <1>1 DEF NoteTypes
<1>14. notice' = notice \/ notice' = [notice EXCEPT ![new] = row]
  BY <1>8
<1>15. /\ notice' \in [Notices -> Notes!Notice \cup {None}]
       /\ \A x \in Notices : notice'[x] = notice[x] \/ (x = new /\ notice'[x] = row)
  BY <1>5, <1>7, <1>13, <1>14
<1>16. ASSUME faults' = 0 PROVE NotedOnce'
  <2>1. NotedOnce
    BY <1>9, <1>16 DEF NoteInv
  <2>2. (\A m \in Notifiers \ {n} : job[m].event # e) /\ e \notin answered
    BY <1>2, <1>3, <2>1 DEF NotedOnce
  <2>3. \A x : job[n] # [pc |-> "ack", event |-> x]
    BY <1>1
  <2>4. \A x \in Notices : notice[x] # None =>
           /\ notice[x].event # e
           /\ \/ notice[x].event \in answered
              \/ \E m \in Notifiers \ {n} : job[m] = [pc |-> "ack", event |-> notice[x].event]
    <3>1. ASSUME NEW x \in Notices, notice[x] # None
          PROVE  \/ notice[x].event \in answered
                 \/ \E m \in Notifiers \ {n} : job[m] = [pc |-> "ack", event |-> notice[x].event]
      <4>1. \/ notice[x].event \in answered
            \/ \E m \in Notifiers : job[m] = [pc |-> "ack", event |-> notice[x].event]
        BY <2>1, <3>1 DEF NotedOnce
      <4> QED BY <2>3, <4>1
    <3>2. ASSUME NEW x \in Notices, notice[x] # None PROVE notice[x].event # e
      <4>1. \A m \in Notifiers \ {n} : job[m] # [pc |-> "ack", event |-> e]
        BY <2>2
      <4> QED BY <2>2, <3>1, <3>2, <4>1
    <3> QED BY <3>1, <3>2
  <2>0. job'[n] = q /\ \A m \in Notifiers \ {n} : job'[m] = job[m]
    BY <1>1, <1>12 DEF NoteTypes
  <2>5. \A x \in Notices : notice'[x] # None =>
              \/ notice'[x].event \in answered'
              \/ \E m \in Notifiers : job'[m] = [pc |-> "ack", event |-> notice'[x].event]
    <3>1. ASSUME NEW x \in Notices, notice'[x] # None
          PROVE  \/ notice'[x].event \in answered'
                 \/ \E m \in Notifiers : job'[m] = [pc |-> "ack", event |-> notice'[x].event]
      <4>1. CASE notice'[x] = notice[x]
        BY <1>1, <2>0, <2>4, <3>1, <4>1
      <4>2. CASE notice'[x] = row
        BY <1>7, <1>11, <2>0, <4>2
      <4> QED BY <1>15, <4>1, <4>2
    <3> QED BY <3>1
  <2>6. \A x, y \in Notices :
           notice'[x] # None /\ notice'[y] # None /\ notice'[x].event = notice'[y].event => x = y
    <3>1. \A x, y \in Notices :
             notice[x] # None /\ notice[y] # None /\ notice[x].event = notice[y].event => x = y
      BY <2>1 DEF NotedOnce
    <3>2. ASSUME NEW x \in Notices, NEW y \in Notices, notice'[x] # None, notice'[y] # None,
                 notice'[x].event = notice'[y].event
          PROVE  x = y
      <4>1. CASE notice'[x] = notice[x] /\ notice'[y] = notice[y]
        BY <3>1, <3>2, <4>1
      <4>2. CASE notice'[x] = notice[x] /\ notice'[y] = row
        BY <1>7, <2>4, <3>2, <4>2
      <4>3. CASE notice'[x] = row /\ notice'[y] = notice[y]
        BY <1>7, <2>4, <3>2, <4>3
      <4> QED BY <1>15, <4>1, <4>2, <4>3
    <3> QED BY <3>2
  <2>7. q.event \notin answered' /\ \A m \in Notifiers \ {n} : job[m].event \notin answered'
    BY <1>1, <1>11, <2>1, <2>2 DEF NotedOnce
  <2> QED BY <1>11, <1>12, <2>1, <2>2, <2>5, <2>6, <2>7, NotedStep
<1>17. ASSUME faults' = 0, ~overlap, NEW x \in calm
       PROVE  /\ x \in mailed' => Wanted(x, "email")
              /\ Noted(x)' => Wanted(x, "in_app")
  <2>1. faults = 0 /\ OneEdit
    BY <1>9, <1>17 DEF NoteInv
  <2>2. (x \in mailed => Wanted(x, "email")) /\ (Noted(x) => Wanted(x, "in_app"))
    BY <1>17, <2>1, SparedSoFar
  <2>3. Noted(x)' /\ ~Noted(x) => Wanted(x, "in_app")
    <3>1. SUFFICES ASSUME Noted(x)', ~Noted(x) PROVE Wanted(x, "in_app")
      OBVIOUS
    <3>2. PICK y \in Notices : notice'[y] # None /\ notice'[y].event = x
      BY <3>1 DEF Noted
    <3>3. y = new /\ notice'[y] = row /\ notice'[y] # notice[y]
      BY <1>15, <3>1, <3>2 DEF Noted
    <3>4. x = e /\ Notes!allows("in_app", Notes!NoticeOf(e).type)
      BY <1>7, <1>8, <1>9, <1>17, <3>2, <3>3
    <3>5. "in_app" \in Notes!NoticeOf(e).channels
      BY <1>1, <1>3, Messages
    <3>6. "in_app" \in Notes!Channels
      BY DEF Notes!Channels
    <3> QED BY <1>3, <2>1, <3>4, <3>5, <3>6, AllowedIsWanted
  <2> QED BY <1>1, <2>2, <2>3
<1>18. /\ answered' \cup mailed' \subseteq published
       /\ \A x \in Notices : notice'[x] # None => notice'[x].event \in published
  BY <1>1, <1>3, <1>7, <1>13, <1>15 DEF NoteTypes
<1> QED BY <1>1, <1>9, <1>12, <1>15, <1>16, <1>17, <1>18, CallbackStep

\* An edit switches off what the user switches off, and keeps what he had asked for.
LEMMA EditObeys ==
    ASSUME NEW row \in Notes!Preferences, NEW c \in Notes!Change, NEW w \in Notes!Change,
           "email" \in row.Enabled => w.email # FALSE,
           "in_app" \in row.Enabled => w.inApp # FALSE,
           w.types # None => row.Types = w.types,
           NEW u, u = [f \in DOMAIN w |-> IF c[f] = None THEN w[f] ELSE c[f]],
           NEW p, p = Notes!SvcUpdatePreferences(row, c)
    PROVE  /\ p \in Notes!Preferences /\ u \in Notes!Change
           /\ Notes!fromPreferences(p) \in
                 [Enabled: SUBSET Notes!Channels, Types: SUBSET NotificationTypes]
           /\ Obeys(Notes!fromPreferences(p), u)
<1>0. FALSE # None /\ TRUE # None
  BY NoneAssumption
<1>1. PICK mail : mail = IF c.email = None THEN row ELSE Notes!SetChannel(row, "email", c.email)
  OBVIOUS
<1>2. PICK app : app = IF c.inApp = None THEN mail ELSE Notes!SetChannel(mail, "in_app", c.inApp)
  OBVIOUS
<1>3. p = IF c.types = None THEN app ELSE [app EXCEPT !.Types = c.types]
  BY <1>1, <1>2 DEF Notes!SvcUpdatePreferences
<1>c. /\ c.email \in BOOLEAN \cup {None} /\ c.inApp \in BOOLEAN \cup {None}
      /\ c.types \in {None} \cup SUBSET NotificationTypes
  BY DEF Notes!Change
<1>4. /\ mail \in Notes!Preferences /\ mail.Types = row.Types
      /\ "in_app" \in mail.Enabled => "in_app" \in row.Enabled
      /\ "email" \in mail.Enabled => (c.email = None /\ "email" \in row.Enabled) \/ c.email = TRUE
  <2>1. CASE c.email = None
    BY <1>1, <2>1
  <2>2. CASE c.email = TRUE
    BY <1>0, <1>1, <2>2 DEF Notes!SetChannel, Notes!Preferences, Notes!Channels
  <2>3. CASE c.email = FALSE
    BY <1>0, <1>1, <2>3 DEF Notes!SetChannel, Notes!Preferences, Notes!Channels
  <2> QED BY <1>c, <2>1, <2>2, <2>3
<1>5. /\ app \in Notes!Preferences /\ app.Types = row.Types
      /\ "in_app" \in app.Enabled => (c.inApp = None /\ "in_app" \in row.Enabled) \/ c.inApp = TRUE
      /\ "email" \in app.Enabled => (c.email = None /\ "email" \in row.Enabled) \/ c.email = TRUE
  <2>1. CASE c.inApp = None
    BY <1>2, <1>4, <2>1
  <2>2. CASE c.inApp = TRUE
    BY <1>0, <1>2, <1>4, <2>2 DEF Notes!SetChannel, Notes!Preferences, Notes!Channels
  <2>3. CASE c.inApp = FALSE
    BY <1>0, <1>2, <1>4, <2>3 DEF Notes!SetChannel, Notes!Preferences, Notes!Channels
  <2> QED BY <1>c, <2>1, <2>2, <2>3
<1>6. /\ p \in Notes!Preferences /\ p.Enabled = app.Enabled
      /\ p.Types = IF c.types = None THEN row.Types ELSE c.types
  BY <1>3, <1>5, <1>c DEF Notes!Preferences
<1>7. PICK new : new = Notes!fromPreferences(p)
  OBVIOUS
<1>8. /\ new \in [Enabled: SUBSET Notes!Channels, Types: SUBSET NotificationTypes]
      /\ new.Enabled = p.Enabled /\ (p.Types # None => new.Types = p.Types)
  BY <1>6, <1>7 DEF Notes!fromPreferences, Notes!Preferences
<1>9. /\ u \in Notes!Change
      /\ u.email = IF c.email = None THEN w.email ELSE c.email
      /\ u.inApp = IF c.inApp = None THEN w.inApp ELSE c.inApp
      /\ u.types = IF c.types = None THEN w.types ELSE c.types
  BY DEF Notes!Change
<1>10. new # None
  <2>1. new \in Notes!Preferences
    BY <1>8 DEF Notes!Preferences
  <2> QED BY <2>1, NoneAssumption
<1>11. /\ "email" \in new.Enabled => u.email # FALSE
       /\ "in_app" \in new.Enabled => u.inApp # FALSE
  BY <1>0, <1>5, <1>6, <1>8, <1>9
<1>12. u.types # None => new.Types = u.types
  BY <1>6, <1>8, <1>9
<1>13. Obeys(new, u)
  BY <1>10, <1>11, <1>12 DEF Obeys
<1> QED BY <1>6, <1>7, <1>8, <1>9, <1>13

\* A handler at rest is not at the write, and one at the write is not at rest.
LEMMA Edits ==
    ASSUME NEW d \in Edit
    PROVE  d = Notes!Still <=> d.pc # "upsert"
BY DEF Edit, Notes!Still

\* The row as an edit reads it.
LEMMA RowRead ==
    ASSUME NoteInv
    PROVE  /\ Row \in Notes!Preferences
           /\ Obeys(prefs, wish) =>
                 /\ "email" \in Row.Enabled => wish.email # FALSE
                 /\ "in_app" \in Row.Enabled => wish.inApp # FALSE
                 /\ wish.types # None => Row.Types = wish.types
<1>1. CASE prefs = None
  <2>1. Row = [Enabled |-> Notes!Channels, Types |-> None]
    BY <1>1 DEF Row, Notes!NewNotificationPreferences
  <2>2. Row \in Notes!Preferences
    BY <2>1 DEF Notes!Preferences
  <2> QED BY <1>1, <2>2, NoneAssumption DEF Obeys
<1>2. CASE prefs # None
  <2>1. Row = prefs
    BY <1>2 DEF Row
  <2>2. prefs \in [Enabled: SUBSET Notes!Channels, Types: SUBSET NotificationTypes]
    BY <1>2 DEF NoteInv, NoteTypes
  <2>3. prefs \in Notes!Preferences
    BY <2>2 DEF Notes!Preferences
  <2> QED BY <1>2, <2>1, <2>3 DEF Obeys
<1> QED BY <1>1, <1>2

\* What an edit leaves alone, and nobody to spare while it goes on.
LEMMA EditStep ==
    ASSUME HookInv, NoteInv, UNCHANGED <<published, answered, notice, mailed, job>>, calm' = {},
           faults' \in Nat, faults' >= faults,
           prefs' \in {None} \cup [Enabled: SUBSET Notes!Channels, Types: SUBSET NotificationTypes],
           edit' \in [Editors -> Edit], wish' \in Notes!Change, overlap' \in BOOLEAN,
           faults' = 0 /\ ~overlap' => OneEdit'
    PROVE  NoteInv'
<1>1. faults' = 0 => faults = 0
  BY DEF HookInv, HookTypes
<1>2. NoteTypes'
  BY DEF NoteInv, NoteTypes, CallbackOK
<1>3. (faults = 0 => NotedOnce)'
  BY <1>1 DEF NoteInv, NotedOnce
<1>4. OptedOutIsSpared'
  BY DEF OptedOutIsSpared, Settled
<1> QED BY <1>2, <1>3, <1>4 DEF NoteInv

\* An edit takes its copy of the row, or starts anew when it could not read it.
LEMMA ReadPreferencesOK ==
    ASSUME HookInv, NoteInv, NEW h \in Editors, Notes!ReadPreferences(h)
    PROVE  NoteInv'
<1>1. /\ edit[h] = Notes!Still /\ calm' = {} /\ overlap' = (overlap \/ Notes!Editing)
      /\ UNCHANGED <<published, answered, prefs, notice, mailed, job, wish>>
      /\ NoteTypes /\ faults \in Nat
  BY DEF Notes!ReadPreferences, NoteInv, HookInv, HookTypes
<1>a. PICK base \in {Notes!NewNotificationPreferences}
                     \cup {Notes!toDomain(r) : r \in {prefs} \ {None}}, c \in Changes :
         /\ IF prefs # None /\ base # Notes!toDomain(prefs) THEN Notes!Fault
            ELSE UNCHANGED faults
         /\ edit' = [edit EXCEPT ![h] = [pc |-> "upsert",
                                         copy |-> Notes!SvcUpdatePreferences(base, c),
                                         change |-> c]]
  BY DEF Notes!ReadPreferences, Notes!RestUpdatePreferences, Notes!McpUpdatePreferences
<1>b. base = Notes!NewNotificationPreferences \/ base = Row
  BY <1>a DEF Notes!toDomain, Row
<1>c. base \in Notes!Preferences
  <2>1. Notes!NewNotificationPreferences \in Notes!Preferences
    BY DEF Notes!NewNotificationPreferences, Notes!Preferences
  <2> QED BY <1>b, <2>1, RowRead
<1>d. faults' \in Nat /\ faults' >= faults /\ (faults' = 0 => base = Row)
  <2>1. CASE prefs # None /\ base # Notes!toDomain(prefs)
    BY <1>1, <1>a, <2>1 DEF Notes!Fault
  <2>2. CASE ~(prefs # None /\ base # Notes!toDomain(prefs))
    BY <1>1, <1>a, <1>b, <2>2 DEF Row, Notes!toDomain
  <2> QED BY <2>1, <2>2
<1>2. edit' = [edit EXCEPT ![h] = [pc |-> "upsert", copy |-> Notes!SvcUpdatePreferences(base, c),
                                   change |-> c]]
  BY <1>a
<1>3. PICK p : p = Notes!SvcUpdatePreferences(base, c)
  OBVIOUS
<1>4. c \in Notes!Change
  BY <1>a, NotificationAssumption
<1>5. p \in Notes!Preferences
  <2>1. PICK w : w = [email |-> None, inApp |-> None, types |-> None]
    OBVIOUS
  <2>2. w \in Notes!Change /\ w.email # FALSE /\ w.inApp # FALSE /\ w.types = None
    BY <2>1, NoneAssumption DEF Notes!Change
  <2>3. PICK u : u = [f \in DOMAIN w |-> IF c[f] = None THEN w[f] ELSE c[f]]
    OBVIOUS
  <2> QED BY <1>3, <1>4, <1>c, <2>2, <2>3, EditObeys
<1>6. PICK d : d = [pc |-> "upsert", copy |-> p, change |-> c]
  OBVIOUS
<1>7. d \in Edit /\ d.copy = p /\ d.change = c
  BY <1>4, <1>5, <1>6 DEF Edit
<1>8. edit' = [edit EXCEPT ![h] = d]
  BY <1>2, <1>3, <1>6
<1>9. /\ edit' \in [Editors -> Edit] /\ edit'[h] = d
      /\ \A g \in Editors \ {h} : edit'[g] = edit[g]
  BY <1>1, <1>7, <1>8 DEF NoteTypes
<1>10. ASSUME faults' = 0, ~overlap' PROVE OneEdit'
  <2>1. ~overlap /\ \A g \in Editors : edit[g] = Notes!Still
    BY <1>1, <1>10 DEF Notes!Editing
  <2>f. faults = 0
    BY <1>1, <1>d, <1>10
  <2>2. Obeys(prefs, wish)
    BY <2>f, <2>1 DEF NoteInv, OneEdit
  <2>3. Row' = Row /\ base = Row
    BY <1>1, <1>10, <1>d DEF Row
  <2>4. /\ Obeys(prefs, wish)'
        /\ (\A g, k \in Editors : edit[g] # Notes!Still /\ edit[k] # Notes!Still => g = k)'
    BY <1>1, <1>9, <2>1, <2>2
  <2>5. ASSUME NEW g \in Editors, edit'[g] # Notes!Still
        PROVE  edit'[g].copy = Notes!SvcUpdatePreferences(Row', edit'[g].change)
    <3>1. g = h
      BY <1>9, <2>1, <2>5
    <3> QED BY <1>3, <1>7, <1>9, <2>3, <3>1
  <2>6. (\A g \in Editors : edit[g] # Notes!Still =>
            edit[g].copy = Notes!SvcUpdatePreferences(Row, edit[g].change))'
    BY <2>5
  <2> QED BY <2>4, <2>6 DEF OneEdit
<1>11. overlap' \in BOOLEAN
  BY <1>1 DEF NoteTypes
<1>12. /\ prefs' \in {None} \cup [Enabled: SUBSET Notes!Channels, Types: SUBSET NotificationTypes]
       /\ wish' \in Notes!Change /\ faults' \in Nat /\ faults' >= faults
  BY <1>1, <1>d DEF NoteTypes
<1> QED BY <1>1, <1>9, <1>10, <1>11, <1>12, EditStep

\* An edit writes its copy over the row.
LEMMA UpsertOK ==
    ASSUME HookInv, NoteInv, NEW h \in Editors, Notes!Upsert(h)
    PROVE  NoteInv'
<1>1. /\ edit[h].pc = "upsert" /\ edit' = [edit EXCEPT ![h] = Notes!Still]
      /\ UNCHANGED <<published, answered, notice, mailed, job, calm, overlap>>
      /\ NoteTypes /\ faults \in Nat
  BY DEF Notes!Upsert, NoteInv, HookInv, HookTypes
<1>2. edit[h] \in Edit /\ edit[h] # Notes!Still
  BY <1>1, Edits DEF NoteTypes
<1>3. calm' = {}
  BY <1>1, <1>2 DEF NoteInv, Notes!Editing
<1>4. PICK p, c : p = edit[h].copy /\ c = edit[h].change
  OBVIOUS
<1>5. p \in Notes!Preferences /\ c \in Notes!Change
  BY <1>2, <1>4 DEF Edit
<1>6. /\ edit' \in [Editors -> Edit] /\ edit'[h] = Notes!Still
      /\ \A g \in Editors \ {h} : edit'[g] = edit[g]
  BY <1>1 DEF NoteTypes, Edit
<1>7. overlap' \in BOOLEAN
  BY <1>1 DEF NoteTypes
<1>8. CASE UNCHANGED <<prefs, wish>> /\ Notes!Fault
  <2>1. faults' \in Nat /\ faults' >= faults /\ faults' # 0
    BY <1>1, <1>8 DEF Notes!Fault
  <2>2. /\ prefs' \in {None} \cup [Enabled: SUBSET Notes!Channels, Types: SUBSET NotificationTypes]
        /\ wish' \in Notes!Change
    BY <1>1, <1>8 DEF NoteTypes
  <2> QED BY <1>1, <1>3, <1>6, <1>7, <2>1, <2>2, EditStep
<1>9. CASE /\ prefs' = Notes!fromPreferences(edit[h].copy)
           /\ wish' = [f \in DOMAIN wish |->
                 IF edit[h].change[f] = None THEN wish[f] ELSE edit[h].change[f]]
           /\ UNCHANGED faults
  <2>1. PICK w : w = wish
    OBVIOUS
  <2>2. PICK u : u = [f \in DOMAIN w |-> IF c[f] = None THEN w[f] ELSE c[f]]
    OBVIOUS
  <2>3. w \in Notes!Change /\ wish' = u /\ prefs' = Notes!fromPreferences(p)
    BY <1>1, <1>4, <1>9, <2>1, <2>2 DEF NoteTypes
  <2>4. wish' \in Notes!Change
    BY <1>5, <2>2, <2>3 DEF Notes!Change
  <2>5. prefs' \in [Enabled: SUBSET Notes!Channels, Types: SUBSET NotificationTypes]
    BY <1>5, <2>3 DEF Notes!fromPreferences, Notes!Preferences
  <2>6. ASSUME faults' = 0, ~overlap' PROVE OneEdit'
    <3>1. OneEdit
      BY <1>1, <1>9, <2>6 DEF NoteInv
    <3>2. \A g \in Editors : edit'[g] = Notes!Still
      BY <1>2, <1>6, <3>1 DEF OneEdit
    <3>3. PICK row : row = Row
      OBVIOUS
    <3>4. p = Notes!SvcUpdatePreferences(row, c)
      BY <1>2, <1>4, <3>1, <3>3 DEF OneEdit
    <3>5. /\ row \in Notes!Preferences
          /\ "email" \in row.Enabled => w.email # FALSE
          /\ "in_app" \in row.Enabled => w.inApp # FALSE
          /\ w.types # None => row.Types = w.types
      BY <2>1, <3>1, <3>3, RowRead DEF OneEdit
    <3>6. Obeys(Notes!fromPreferences(p), u)
      BY <1>5, <2>2, <2>3, <3>4, <3>5, EditObeys
    <3>7. Obeys(prefs, wish)'
      BY <2>3, <3>6
    <3> QED BY <3>2, <3>7 DEF OneEdit
  <2>7. faults' \in Nat /\ faults' >= faults
    BY <1>1, <1>9
  <2> QED BY <1>1, <1>3, <1>6, <1>7, <2>4, <2>5, <2>6, <2>7, EditStep
<1> QED BY <1>8, <1>9 DEF Notes!Upsert

\* A notice is read,
LEMMA MarkReadOK ==
    ASSUME HookInv, NoteInv, NEW n \in Notices, Notes!MarkRead(n)
    PROVE  NoteInv'
<1>1. /\ notice[n] # None /\ notice' = [notice EXCEPT ![n].read = TRUE]
      /\ UNCHANGED <<published, answered, prefs, mailed, job, edit, calm, wish, overlap, faults>>
      /\ notice \in [Notices -> Notes!Notice \cup {None}] /\ faults \in Nat
  BY DEF Notes!MarkRead, Notes!RestMarkRead, Notes!McpMarkRead, NoteInv, NoteTypes,
         HookInv, HookTypes
<1>2. PICK row : row = [notice[n] EXCEPT !.read = TRUE]
  OBVIOUS
<1>3. notice[n] \in Notes!Notice
  BY <1>1
<1>4. row \in Notes!Notice /\ row.event = notice[n].event
  BY <1>2, <1>3 DEF Notes!Notice
<1>5. row # None
  BY <1>4, NoneAssumption
<1>6. notice' = [notice EXCEPT ![n] = row]
  BY <1>1, <1>2
<1>7. /\ notice' \in [Notices -> Notes!Notice \cup {None}]
      /\ \A x \in Notices : /\ notice'[x] = None <=> notice[x] = None
                            /\ notice[x] # None => notice'[x].event = notice[x].event
  BY <1>1, <1>4, <1>5, <1>6
<1> QED BY <1>1, <1>7, NoteWait

\* or all of them.
LEMMA MarkAllReadOK ==
    ASSUME HookInv, NoteInv, Notes!MarkAllRead
    PROVE  NoteInv'
<1>1. /\ notice' = [n \in Notices |-> IF notice[n] = None THEN None
                                      ELSE [notice[n] EXCEPT !.read = TRUE]]
      /\ UNCHANGED <<published, answered, prefs, mailed, job, edit, calm, wish, overlap, faults>>
      /\ notice \in [Notices -> Notes!Notice \cup {None}] /\ faults \in Nat
  BY DEF Notes!MarkAllRead, NoteInv, NoteTypes, HookInv, HookTypes
<1>2. ASSUME NEW x \in Notices
      PROVE  /\ notice'[x] \in Notes!Notice \cup {None}
             /\ notice'[x] = None <=> notice[x] = None
             /\ notice[x] # None => notice'[x].event = notice[x].event
  <2>1. CASE notice[x] = None
    BY <1>1, <2>1
  <2>2. CASE notice[x] # None
    <3>1. notice[x] \in Notes!Notice /\ notice'[x] = [notice[x] EXCEPT !.read = TRUE]
      BY <1>1, <2>2
    <3>2. PICK row : row = notice'[x]
      OBVIOUS
    <3>3. row \in Notes!Notice /\ row.event = notice[x].event
      BY <3>1, <3>2 DEF Notes!Notice
    <3> QED BY <2>2, <3>2, <3>3, NoneAssumption
  <2> QED BY <2>1, <2>2
<1>3. notice' \in [Notices -> Notes!Notice \cup {None}]
  BY <1>1, <1>2
<1> QED BY <1>1, <1>2, <1>3, NoteWait

-----------------------------------------------------------------------------
(* The specification *)

\* Steps of the notices leave the webhooks alone; events may be published.
LEMMA HooksWait ==
    ASSUME HookInv, OnceInv, UNCHANGED hookVars,
           published' \subseteq Orders \cup Renewals, published \subseteq published',
           faults' \in Nat, faults' >= faults
    PROVE  HookInv' /\ OnceInv'
<1>1. HookTypes /\ LogOK(log, webhook, received)
      /\ UNCHANGED <<acked, webhook, log, proc, received>>
  BY DEF HookInv, hookVars
<1>2. HookInv'
  BY <1>1, HookWait, Unwritten DEF HookTypes
<1>3. ASSUME faults' = 0 PROVE NothingFailed'
  <2>1. NothingFailed
    BY <1>1, <1>3 DEF OnceInv, HookTypes
  <2> QED BY <1>1, <2>1, OnceWait DEF NothingFailed
<1> QED BY <1>2, <1>3 DEF OnceInv

\* What the steps of the notices do to the stream and the count of faults.
LEMMA NoteFaults ==
    ASSUME HookInv, Notes!NotificationNext
    PROVE  /\ published' \subseteq Orders \cup Renewals /\ published \subseteq published'
           /\ faults' \in Nat /\ faults' >= faults
<1>0. published \subseteq Orders \cup Renewals /\ faults \in Nat
      /\ (Notes!Fault => faults' = faults + 1)
  BY DEF HookInv, HookTypes, Notes!Fault
<1>1. ASSUME NEW e \in Renewals, Notes!Renewal(e)
      PROVE  published' = published \cup {e} /\ UNCHANGED faults
  BY <1>1 DEF Notes!Renewal
<1>2. ASSUME NEW n \in Notifiers, Notes!NotificationStep(n) \/ Notes!Die(n)
      PROVE  UNCHANGED published /\ faults' \in {faults, faults + 1}
  <2>1. CASE Notes!Receive(n)
    BY <1>0, <2>1 DEF Notes!Receive, Notes!startOrderConsumer, Notes!startSubscriptionConsumer,
                      Notes!Callback
  <2>2. CASE Notes!Send(n)
    BY <1>0, <2>2 DEF Notes!Send
  <2>3. CASE Notes!NotifyInApp(n)
    BY <1>0, <2>3 DEF Notes!NotifyInApp
  <2>4. CASE Notes!AckEvent(n) \/ Notes!Die(n)
    BY <1>0, <2>4 DEF Notes!AckEvent, Notes!Die
  <2> QED BY <1>2, <2>1, <2>2, <2>3, <2>4 DEF Notes!NotificationStep
<1>3. ASSUME NEW h \in Editors, Notes!ReadPreferences(h) \/ Notes!Upsert(h)
      PROVE  UNCHANGED published /\ faults' \in {faults, faults + 1}
  BY <1>0, <1>3 DEF Notes!ReadPreferences, Notes!Upsert
<1>4. ASSUME NEW n \in Notices, Notes!MarkRead(n) PROVE UNCHANGED <<published, faults>>
  BY <1>4 DEF Notes!MarkRead
<1>5. ASSUME Notes!MarkAllRead PROVE UNCHANGED <<published, faults>>
  BY <1>5 DEF Notes!MarkAllRead
<1>6. faults' \in {faults, faults + 1} /\ published \subseteq published'
      /\ published' \subseteq Orders \cup Renewals
  BY <1>0, <1>1, <1>2, <1>3, <1>4, <1>5 DEF Notes!NotificationNext
<1> QED BY <1>0, <1>6

\* Every step of the notices keeps what is known of them.
LEMMA NoteKept ==
    ASSUME HookInv, NoteInv, Notes!NotificationNext
    PROVE  NoteInv'
<1>1. ASSUME NEW e \in Renewals, Notes!Renewal(e) PROVE NoteInv'
  <2>1. /\ e \notin published /\ published' = published \cup {e} /\ Notes!Note(e)
        /\ UNCHANGED faults
        /\ UNCHANGED <<answered, prefs, notice, mailed, job, edit, wish, overlap>>
    BY <1>1 DEF Notes!Renewal
  <2> QED BY <2>1, PublishedOK
<1>2. ASSUME NEW n \in Notifiers, Notes!NotificationStep(n) \/ Notes!Die(n) PROVE NoteInv'
  BY <1>2, ReceiveOK, SendOK, NotifyInAppOK, AckEventOK, DieOK DEF Notes!NotificationStep
<1>3. ASSUME NEW h \in Editors, Notes!ReadPreferences(h) \/ Notes!Upsert(h) PROVE NoteInv'
  BY <1>3, ReadPreferencesOK, UpsertOK
<1> QED BY <1>1, <1>2, <1>3, MarkReadOK, MarkAllReadOK DEF Notes!NotificationNext

\* It holds at first: nothing is published, logged or noted.
LEMMA InitOK == Init => IInv
<1> SUFFICES ASSUME Init PROVE IInv
  OBVIOUS
<1>0. /\ published = {} /\ acked = {} /\ faults = 0 /\ log = <<>>
      /\ webhook \in [Webhooks -> {"none", "active", "deleted"}]
      /\ proc = [p \in Hooks!Processes |-> Hooks!Idle]
      /\ received = [w \in Webhooks |-> [e \in Orders |-> 0]]
  BY WebhookAssumption DEF Init, Hooks!WebhookInit
<1>1. HookTypes
  <2>1. proc \in [Hooks!Processes -> Proc]
    BY <1>0, IdleProc
  <2>2. received \in [Webhooks -> [Orders -> Nat]]
    BY <1>0
  <2> QED BY <1>0, <2>1, <2>2 DEF HookTypes
<1>2. HookInv
  <2>1. LogOK(log, webhook, received)
    BY <1>0 DEF LogOK
  <2>2. \A p \in Hooks!Processes : ProcOK(p, proc[p], log, received, published)
    BY <1>0, IdleProc
  <2> QED BY <1>1, <2>1, <2>2 DEF HookInv
<1>3. OnceInv
  <2>1. PICK q : q = Hooks!Idle
    OBVIOUS
  <2>2. q.pc = "idle" /\ q.event = None /\ q.todo = <<>>
    BY <2>1, IdleProc
  <2>3. \A p \in Hooks!Processes : proc[p] = q
    BY <1>0, <2>1
  <2>4. Posted(q, received)
    BY <2>2 DEF Posted
  <2>5. Consumers \cup Retriers \cup Admins \subseteq Hooks!Processes
    BY DEF Hooks!Processes
  <2>6. \A w \in Webhooks, e \in Orders : received[w][e] = 0
    BY <1>0
  <2>7. NothingFailed
    BY <1>0, <2>2, <2>3, <2>4, <2>5, <2>6 DEF NothingFailed
  <2> QED BY <2>7 DEF OnceInv
<1>4. /\ answered = {} /\ mailed = {} /\ calm = {} /\ prefs = None /\ overlap = FALSE
      /\ notice = [n \in Notices |-> None]
      /\ job = [n \in Notifiers |-> Notes!Resting]
      /\ edit = [h \in Editors |-> Notes!Still]
      /\ wish = [email |-> None, inApp |-> None, types |-> None]
  BY DEF Init, Notes!NotificationInit
<1>5. wish \in Notes!Change
  BY <1>4 DEF Notes!Change
<1>6. \A n \in Notifiers : job[n] = Notes!Resting /\ job[n].event = None
  BY <1>4, AtRest
<1>7. \A h \in Editors : edit[h] = Notes!Still
  BY <1>4
<1>8. NoteTypes
  <2>1. edit \in [Editors -> Edit]
    BY <1>4 DEF Edit
  <2>2. DOMAIN job = Notifiers /\ \A n \in Notifiers : CallbackOK(job[n])
    BY <1>4, <1>6, AtRest
  <2> QED BY <1>4, <1>5, <2>1, <2>2 DEF NoteTypes
<1>9. NotedOnce
  BY <1>4, <1>6 DEF NotedOnce
<1>10. OneEdit
  <2>1. Obeys(prefs, wish)
    BY <1>4 DEF Obeys
  <2> QED BY <1>7, <2>1 DEF OneEdit
<1>11. OptedOutIsSpared
  BY <1>4 DEF OptedOutIsSpared, Settled
<1>12. NoteInv
  BY <1>4, <1>8, <1>9, <1>10, <1>11 DEF NoteInv
<1> QED BY <1>2, <1>3, <1>12 DEF IInv

\* Every step keeps it.
LEMMA NextOK == IInv /\ [Next]_vars => IInv'
<1> SUFFICES ASSUME IInv, [Next]_vars PROVE IInv'
  OBVIOUS
<1>0. HookInv /\ OnceInv /\ NoteInv /\ faults \in Nat /\ published \subseteq Orders \cup Renewals
      /\ notice \in [Notices -> Notes!Notice \cup {None}]
  BY DEF IInv, HookInv, HookTypes, NoteInv, NoteTypes
<1>1. ASSUME NEW e \in Orders, Publish(e) PROVE IInv'
  <2>1. /\ e \notin published /\ published' = published \cup {e} /\ Notes!Note(e)
        /\ UNCHANGED <<acked, log, proc, received, faults>>
        /\ UNCHANGED <<answered, prefs, notice, mailed, job, edit, wish, overlap>>
        /\ Hooks!Announce(e)
    BY <1>1 DEF Publish, Hooks!Announce
  <2>2. HookInv'
    BY <1>0, <2>1, AnnounceOK
  <2>3. OnceInv'
    <3>1. NothingFailed => NothingFailed'
      BY <2>1, OnceWait DEF NothingFailed
    <3> QED BY <1>0, <2>1, <3>1 DEF OnceInv
  <2>4. NoteInv'
    BY <1>0, <2>1, PublishedOK
  <2> QED BY <2>2, <2>3, <2>4 DEF IInv
<1>2. CASE HookNext
  <2>1. HookInv' /\ OnceInv' /\ faults' \in Nat /\ faults' >= faults
    BY <1>0, <1>2, HookKept, OnceKept, HookFaults
  <2>2. UNCHANGED noteVars /\ UNCHANGED published
    <3>1. UNCHANGED noteVars
      BY <1>2 DEF HookNext
    <3>2. \A p \in Hooks!Processes :
             Hooks!WebhookStep(p) \/ Hooks!Crash(p) => UNCHANGED published
      BY DEF Hooks!WebhookStep, Hooks!Crash, Hooks!Deliver, Hooks!NewRequestFails, Hooks!Post, Hooks!Accepted,
             Hooks!Refused, Hooks!Later, Hooks!Consume, Hooks!Ack, Hooks!Tick, Hooks!Rest,
             Hooks!Repost, Hooks!Answer
    <3>3. /\ \A w \in Webhooks : Hooks!Register(w) \/ Hooks!Delete(w) => UNCHANGED published
          /\ \A c \in Consumers : Hooks!ConsumeBlind(c) => UNCHANGED published
          /\ \A a \in Admins : Hooks!RetryDelivery(a) => UNCHANGED published
          /\ \A i \in DOMAIN log : Hooks!FallDue(i) => UNCHANGED published
      BY DEF Hooks!Register, Hooks!Delete, Hooks!ConsumeBlind, Hooks!RetryDelivery, Hooks!FallDue
    <3> QED BY <1>2, <3>1, <3>2, <3>3 DEF HookNext
  <2>3. NoteInv'
    BY <1>0, <2>1, <2>2, NoteWait DEF noteVars
  <2> QED BY <2>1, <2>3 DEF IInv
<1>3. CASE NoteNext
  <2>1. Notes!NotificationNext /\ UNCHANGED hookVars
    BY <1>3 DEF NoteNext
  <2> QED BY <1>0, <2>1, NoteFaults, HooksWait, NoteKept DEF IInv
<1>4. CASE UNCHANGED vars
  <2>1. UNCHANGED hookVars /\ UNCHANGED noteVars /\ UNCHANGED <<published, faults>>
    BY <1>4 DEF vars
  <2>2. NoteInv'
    BY <1>0, <2>1, NoteWait DEF noteVars
  <2>3. HookInv' /\ OnceInv'
    BY <1>0, <2>1, HooksWait
  <2> QED BY <2>2, <2>3 DEF IInv
<1> QED BY <1>1, <1>2, <1>3, <1>4 DEF Next

\* The invariant holds in every state.
LEMMA Inductive == Spec => []IInv
BY InitOK, NextOK, PTL DEF Spec

\* TypeOK: the delivery log, the notices and the streams fit together whatever
\* interleaving of consumers, retries, deletions and crashes there was.
THEOREM TypeCorrect == Spec => []TypeOK
<1>1. IInv => TypeOK
  <2> SUFFICES ASSUME IInv PROVE TypeOK
    OBVIOUS
  <2>1. HookTypes /\ LogOK(log, webhook, received) /\ NoteTypes
    BY DEF IInv, HookInv, NoteInv
  <2>2. \A i \in DOMAIN log : log[i].Status \in {"pending", "failed", "delivered", "retried"}
    <3>1. \A i \in DOMAIN log : log[i] \in LogEntry
      BY <2>1 DEF HookTypes
    <3> QED BY <3>1 DEF LogEntry
  <2>3. prefs # None => prefs.Types \subseteq NotificationTypes
    BY <2>1 DEF NoteTypes
  <2>4. acked \cup answered \cup mailed \subseteq published
    BY <2>1 DEF HookTypes, NoteTypes
  <2>5. \A n \in Notices : notice[n] # None => notice[n].event \in published
    BY <2>1 DEF NoteTypes
  <2>6. /\ \A i \in DOMAIN log : Hooks!Active(log[i].WebhookID)
        /\ \A i, j \in DOMAIN log : log[i].ID = log[j].ID => i = j
    BY <2>1 DEF LogOK, Hooks!Active
  <2> QED BY <2>2, <2>3, <2>4, <2>5, <2>6 DEF TypeOK
<1> QED BY <1>1, Inductive, PTL

\* Deliver, RetryDelivery and the retry worker: an entry that reads delivered
\* or retried stands for a POST the endpoint got.
THEOREM DeliveredWereReceived == Spec => []DeliveredWasReceived
<1>1. IInv => DeliveredWasReceived
  BY DEF IInv, HookInv, LogOK, DeliveredWasReceived
<1> QED BY <1>1, Inductive, PTL

\* The consumers: as long as nothing fails, an endpoint gets an event at most
\* once, and the user has at most one notice of it.
THEOREM DeliveredOnceWithoutFaults == Spec => []OnceWithoutFaults
<1>1. IInv => OnceWithoutFaults
  <2> SUFFICES ASSUME IInv, faults = 0
               PROVE  /\ \A w \in Webhooks, e \in Orders : received[w][e] <= 1
                      /\ \A e \in published :
                            Cardinality({n \in Notices :
                                notice[n] # None /\ notice[n].event = e}) <= 1
    BY DEF OnceWithoutFaults
  <2>1. NothingFailed /\ NotedOnce
    BY DEF IInv, OnceInv, NoteInv
  <2>2. ASSUME NEW e \in published
        PROVE  Cardinality({n \in Notices : notice[n] # None /\ notice[n].event = e}) <= 1
    <3> DEFINE S == {n \in Notices : notice[n] # None /\ notice[n].event = e}
    <3>1. \A x, y \in S : x = y
      BY <2>1 DEF NotedOnce
    <3> HIDE DEF S
    <3>2. ASSUME S = {} PROVE Cardinality(S) = 0
      BY <3>2, FS_EmptySet
    <3>3. ASSUME NEW x \in S PROVE Cardinality(S) = 1
      <4>1. S = {x}
        BY <3>1, <3>3
      <4> QED BY <4>1, FS_Singleton
    <3>4. Cardinality(S) <= 1
      BY <3>2, <3>3
    <3> QED BY <3>4 DEF S
  <2> QED BY <2>1, <2>2 DEF NothingFailed
<1> QED BY <1>1, Inductive, PTL

\* UpdatePreferences, Send and NotifyInApp: of an event published after the
\* last edit the user is told on no channel, and of no type, he opted out of.
THEOREM OptedOutAreSpared == Spec => []OptedOutIsSpared
<1>1. IInv => OptedOutIsSpared
  BY DEF IInv, NoteInv
<1> QED BY <1>1, Inductive, PTL

=============================================================================
