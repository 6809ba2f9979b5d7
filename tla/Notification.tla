----------------------------- MODULE Notification -----------------------------
(***************************************************************************)
(* Notifications to one user: the consumers of order.> and subscription.>  *)
(* that mail and write in-app notices as the preferences allow, the        *)
(* NotificationService, its repositories and the REST and MCP handlers.    *)
(***************************************************************************)
EXTENDS Integers, FiniteSets

CONSTANTS
    Orders,        \* events on the stream "orders"
    Renewals,      \* events on the stream "subscriptions"
    Kind,          \* the status an event carries
    Notices,       \* ids of in-app notices
    Notifiers,     \* consumer callbacks
    Editors,       \* handlers that update the preferences
    NotificationTypes, None,
    Changes,       \* what requests may ask of the preferences
    MaxPublished,  \* bound: events that are published
    MaxFaults,     \* bound: writes, lookups and processes that fail
    MaxRequests    \* bound: requests of the user

VARIABLES
    published,  \* events in the streams
    answered,   \* events the consumers have acknowledged
    prefs,      \* the row of notification_preferences, or None
    notice,     \* the notifications table
    mailed,     \* events an e-mail was sent for
    job,        \* what each consumer callback is doing
    edit,       \* what each handler is doing
    calm,       \* events published since the last edit, with none going on (history)
    wish,       \* what the user has asked for so far (history)
    overlap,    \* two edits went on at once (history)
    faults, requests

Events == Orders \cup Renewals

-----------------------------------------------------------------------------
(* Preferences: Types is None for "all", or the set of types allowed *)

Channels == {"email", "in_app"}

Preferences == [Enabled: SUBSET Channels, Types: {None} \cup SUBSET NotificationTypes]

NewNotificationPreferences == [Enabled |-> Channels, Types |-> None]

SetChannel(p, channel, on) ==
    [p EXCEPT !.Enabled = IF on THEN @ \cup {channel} ELSE @ \ {channel}]

\* Mutation: the list of types is not looked at.
AllowsAnyType(p, channel, ntype) == channel \in p.Enabled

Allows(p, channel, ntype) ==
    channel \in p.Enabled /\ (p.Types # None => ntype \in p.Types)

\* nil is written as the empty list, and a list is all that is ever read.
fromPreferences(p) == [p EXCEPT !.Types = IF @ = None THEN {} ELSE @]

toDomain(row) == row

\* Get fails when there is no row, and then everything is allowed.
allows(channel, ntype) == prefs # None => Allows(toDomain(prefs), channel, ntype)

\* None leaves a field as it is.
Change ==
    [email: BOOLEAN \cup {None}, inApp: BOOLEAN \cup {None},
     types: {None} \cup SUBSET NotificationTypes]

SvcUpdatePreferences(p, c) ==
    LET mail == IF c.email = None THEN p ELSE SetChannel(p, "email", c.email)
        app == IF c.inApp = None THEN mail ELSE SetChannel(mail, "in_app", c.inApp)
    IN  IF c.types = None THEN app ELSE [app EXCEPT !.Types = c.types]

-----------------------------------------------------------------------------
(* What the consumers send for an event *)

Message == [type: {"order", "shipping", "subscription"}, channels: SUBSET Channels]

\* A row of the notifications table.
Notice == [event: Events, read: BOOLEAN]

OrderNotice(kind) ==
    CASE kind = "confirmed" -> [type |-> "order", channels |-> Channels]
      [] kind \in {"shipped", "delivered"} -> [type |-> "shipping", channels |-> Channels]
      [] OTHER -> None

SubscriptionNotice(kind) ==
    CASE kind = "active" -> [type |-> "subscription", channels |-> {"in_app"}]
      [] kind \in {"past_due", "expired"} -> [type |-> "subscription", channels |-> Channels]
      [] OTHER -> None

NoticeOf(e) == IF e \in Orders THEN OrderNotice(Kind[e]) ELSE SubscriptionNotice(Kind[e])

Resting == [pc |-> "idle", event |-> None]

Still == [pc |-> "idle", copy |-> None, change |-> None]

NotificationInit ==
    /\ answered = {}
    /\ prefs = None
    /\ notice = [n \in Notices |-> None]
    /\ mailed = {}
    /\ job = [n \in Notifiers |-> Resting]
    /\ edit = [h \in Editors |-> Still]
    /\ calm = {}
    /\ wish = [email |-> None, inApp |-> None, types |-> None]
    /\ overlap = FALSE

Fault == faults < MaxFaults /\ faults' = faults + 1

Request == requests < MaxRequests /\ requests' = requests + 1

Editing == \E h \in Editors : edit[h] # Still

\* The part of a publication that this module sees.
Note(e) == calm' = IF Editing THEN calm ELSE calm \cup {e}

\* The subscription service publishes an event.
Renewal(e) ==
    /\ e \in Renewals \ published
    /\ Cardinality(published) < MaxPublished
    /\ published' = published \cup {e}
    /\ Note(e)
    /\ UNCHANGED <<answered, prefs, notice, mailed, job, edit, wish, overlap, faults, requests>>

\* The callbacks of the two consumers.  Several run at once, on several
\* replicas; an event in work is redelivered only after AckWait.  A user who
\* is not found, or a status nobody is told of, ends it at once.
Callback(n, stream) ==
    \E e \in (stream \cap published) \ answered :
        LET again == \E m \in Notifiers : job[m].event = e
            told == NoticeOf(e) # None
        IN  \/ /\ told
               /\ job' = [job EXCEPT ![n] = [pc |-> "email", event |-> e]]
               /\ IF again THEN Fault ELSE UNCHANGED faults
               /\ UNCHANGED answered
            \/ /\ answered' = answered \cup {e}
               /\ IF told THEN Fault ELSE UNCHANGED faults
               /\ UNCHANGED job

startOrderConsumer(n) == Callback(n, Orders)

startSubscriptionConsumer(n) == Callback(n, Renewals)

Receive(n) ==
    /\ job[n] = Resting
    /\ startOrderConsumer(n) \/ startSubscriptionConsumer(n)
    /\ UNCHANGED <<published, prefs, notice, mailed, edit, calm, wish, overlap, requests>>

\* The preference is read, and on an error everything is allowed; an e-mail
\* that cannot be sent is only logged.
Send(n) ==
    LET e == job[n].event
        told == "email" \in NoticeOf(e).channels /\ allows("email", NoticeOf(e).type)
    IN  /\ job[n].pc = "email"
        /\ job' = [job EXCEPT ![n].pc = "in_app"]
        /\ \/ mailed' = (IF told THEN mailed \cup {e} ELSE mailed) /\ UNCHANGED faults
           \/ /\ "email" \in NoticeOf(e).channels
              /\ Fault
              /\ mailed' \in {mailed, mailed \cup {e}}
        /\ UNCHANGED <<published, answered, prefs, notice, edit, calm, wish, overlap, requests>>

Free == {n \in Notices : notice[n] = None}

\* NotifyInApp: the id is new, so an event that comes twice is noted twice.
NotifyInApp(n) ==
    LET e == job[n].event
        new == CHOOSE x \in Free : TRUE
        noted == [notice EXCEPT ![new] = [event |-> e, read |-> FALSE]]
    IN  /\ job[n].pc = "in_app"
        /\ Free # {}
        /\ job' = [job EXCEPT ![n].pc = "ack"]
        /\ \/ notice' = (IF allows("in_app", NoticeOf(e).type) THEN noted ELSE notice)
              /\ UNCHANGED faults
           \/ Fault /\ notice' \in {notice, noted}
        /\ UNCHANGED <<published, answered, prefs, mailed, edit, calm, wish, overlap, requests>>

AckEvent(n) ==
    /\ job[n].pc = "ack"
    /\ answered' = answered \cup {job[n].event}
    /\ job' = [job EXCEPT ![n] = Resting]
    /\ UNCHANGED <<published, prefs, notice, mailed, edit, calm, wish, overlap, faults, requests>>

Die(n) ==
    /\ job[n] # Resting
    /\ Fault
    /\ job' = [job EXCEPT ![n] = Resting]
    /\ UNCHANGED <<published, answered, prefs, notice, mailed, edit, calm, wish, overlap, requests>>

-----------------------------------------------------------------------------
(* The user's requests *)

RestUpdatePreferences == Changes
RestMarkRead == {n \in Notices : notice[n] # None}

\* The tools take what the routes take.
McpUpdatePreferences == RestUpdatePreferences
McpMarkRead == RestMarkRead

\* UpdatePreferences, up to the write: the row, or new preferences when there
\* is none or the read fails.
ReadPreferences(h) ==
    /\ edit[h] = Still
    /\ Request
    /\ \E p \in {NewNotificationPreferences} \cup {toDomain(r) : r \in {prefs} \ {None}} :
          /\ IF prefs # None /\ p # toDomain(prefs) THEN Fault ELSE UNCHANGED faults
          /\ \E c \in RestUpdatePreferences \cup McpUpdatePreferences :
                edit' = [edit EXCEPT ![h] = [pc |-> "upsert", copy |-> SvcUpdatePreferences(p, c),
                                             change |-> c]]
    /\ overlap' = (overlap \/ Editing)
    /\ calm' = {}
    /\ UNCHANGED <<published, answered, prefs, notice, mailed, job, wish>>

\* Upsert: the whole row.
Upsert(h) ==
    /\ edit[h].pc = "upsert"
    /\ \/ /\ prefs' = fromPreferences(edit[h].copy)
          /\ wish' = [f \in DOMAIN wish |->
                 IF edit[h].change[f] = None THEN wish[f] ELSE edit[h].change[f]]
          /\ UNCHANGED faults
       \/ UNCHANGED <<prefs, wish>> /\ Fault
    /\ edit' = [edit EXCEPT ![h] = Still]
    /\ UNCHANGED <<published, answered, notice, mailed, job, calm, overlap, requests>>

MarkRead(n) ==
    /\ Request
    /\ n \in RestMarkRead \cup McpMarkRead
    /\ notice' = [notice EXCEPT ![n].read = TRUE]
    /\ UNCHANGED <<published, answered, prefs, mailed, job, edit, calm, wish, overlap, faults>>

MarkAllRead ==
    /\ Request
    /\ notice' = [n \in Notices |-> IF notice[n] = None THEN None
                                    ELSE [notice[n] EXCEPT !.read = TRUE]]
    /\ UNCHANGED <<published, answered, prefs, mailed, job, edit, calm, wish, overlap, faults>>

-----------------------------------------------------------------------------
NotificationStep(n) ==
    Receive(n) \/ Send(n) \/ NotifyInApp(n) \/ AckEvent(n)

NotificationNext ==
    \/ \E e \in Renewals : Renewal(e)
    \/ \E n \in Notifiers : NotificationStep(n) \/ Die(n)
    \/ \E h \in Editors : ReadPreferences(h) \/ Upsert(h)
    \/ \E n \in Notices : MarkRead(n)
    \/ MarkAllRead

=============================================================================
