------------------------------ MODULE Delivery ------------------------------
(***************************************************************************)
(* What becomes of an event once it is published: WebhookDelivery and      *)
(* Notification consume the same stream of order events, each with a       *)
(* consumer of its own.                                                    *)
(***************************************************************************)
EXTENDS Integers, Sequences, FiniteSets

CONSTANTS
    Orders, Renewals, Kind,
    Webhooks, Subscribed, BadURLs, InitialWebhooks, Consumers, Retriers, Admins,
    MaxRetries, Limit,
    Notices, Notifiers, Editors, NotificationTypes, Changes,
    None, MaxPublished, MaxFaults, MaxRequests

VARIABLES
    published, acked, webhook, log, proc, received, owed, dbFailed,
    answered, prefs, notice, mailed, job, edit, calm, wish, overlap,
    faults, requests

hookVars == <<acked, webhook, log, proc, received, owed, dbFailed>>
noteVars == <<answered, prefs, notice, mailed, job, edit, calm, wish, overlap>>
vars == <<published, hookVars, noteVars, faults, requests>>

Hooks == INSTANCE WebhookDelivery
Notes == INSTANCE Notification

ASSUME WebhookAssumption ==
    /\ Subscribed \in [Webhooks -> SUBSET Orders]
    /\ BadURLs \subseteq Webhooks
    /\ InitialWebhooks \subseteq [Webhooks -> {"none", "active", "deleted"}]
    /\ MaxRetries \in Nat \ {0} /\ Limit \in Nat \ {0}
    /\ IsFiniteSet(Webhooks) /\ IsFiniteSet(Hooks!Processes)
    /\ Consumers \cap Retriers = {}
    /\ (Consumers \cup Retriers) \cap Admins = {}

ASSUME NotificationAssumption ==
    /\ Orders \cap Renewals = {}
    /\ DOMAIN Kind = Orders \cup Renewals
    /\ Changes \subseteq Notes!Change

\* None is no event, no switch, no set of types and no record.
ASSUME NoneAssumption ==
    /\ None \notin Webhooks \cup Notices \cup Orders \cup Renewals \cup BOOLEAN
    /\ \A types \in SUBSET NotificationTypes : None # types
    /\ None \notin Notes!Preferences \cup Notes!Notice \cup Notes!Message

ASSUME BoundsAssumption == MaxPublished \in Nat /\ MaxFaults \in Nat /\ MaxRequests \in Nat

Init ==
    /\ published = {}
    /\ Hooks!WebhookInit
    /\ Notes!NotificationInit
    /\ faults = 0
    /\ requests = 0

\* Both consumers see an order event.
Publish(e) ==
    /\ Hooks!Announce(e)
    /\ Notes!Note(e)
    /\ UNCHANGED <<answered, prefs, notice, mailed, job, edit, wish, overlap>>

HookNext ==
    /\ \/ \E w \in Webhooks : Hooks!Register(w) \/ Hooks!Delete(w)
       \/ \E p \in Hooks!Processes : Hooks!WebhookStep(p) \/ Hooks!Crash(p)
       \/ \E c \in Consumers : Hooks!ConsumeBlind(c)
       \/ \E a \in Admins : Hooks!RetryDelivery(a)
       \/ \E i \in DOMAIN log : Hooks!FallDue(i)
    /\ UNCHANGED noteVars

NoteNext == Notes!NotificationNext /\ UNCHANGED hookVars

Next == (\E e \in Orders : Publish(e)) \/ HookNext \/ NoteNext

\* The webhook consumers and the retry workers run on; time passes.
Fairness ==
    /\ \A p \in Consumers \cup Retriers : WF_vars(Hooks!WebhookStep(p) /\ UNCHANGED noteVars)
    /\ WF_vars(\E i \in DOMAIN log : Hooks!FallDue(i) /\ UNCHANGED noteVars)

Spec == Init /\ [][Next]_vars /\ Fairness

-----------------------------------------------------------------------------
(* Properties *)

\* What is in work is in the stream, log entries belong to webhooks that are
\* there, and e-mails and notices to events that were published.
TypeOK ==
    /\ acked \cup answered \cup mailed \subseteq published
    /\ \A i \in DOMAIN log :
          /\ log[i].Status \in {"pending", "failed", "delivered", "retried"}
          /\ Hooks!Active(log[i].WebhookID)
    /\ \A i, j \in DOMAIN log : log[i].ID = log[j].ID => i = j
    /\ \A n \in Notices : notice[n] # None => notice[n].event \in published
    /\ prefs # None => prefs.Types \subseteq NotificationTypes

\* Deliver and RetryDelivery: an entry that reads delivered or retried stands
\* for a POST the endpoint got, whoever else worked on it or died.
DeliveredWasReceived ==
    \A i \in DOMAIN log :
        log[i].Status \in {"delivered", "retried"} =>
            received[log[i].WebhookID][log[i].Event] > 0

\* Failed entries are never cleared and the retry worker takes the oldest ones:
\* behind Limit of them it does not come to an entry of e for w.
CrowdedOut(w, e) ==
    \E i \in DOMAIN log :
        /\ log[i].WebhookID = w /\ log[i].Event = e /\ log[i].Status = "failed"
        /\ Cardinality({j \in 1..(i - 1) : log[j].Status = "failed"}) >= Limit

\* The consumer, Deliver and the retry worker together: an event is delivered
\* to every webhook that was registered for it when it was published, in spite
\* of refused posts, lost answers and servers that die.  Not so when the webhook
\* is deleted or its URL makes no request, when the database fails, which drops
\* an event silently, or when Limit older entries have failed before.
EventIsDelivered ==
    \A w \in Webhooks \ BadURLs, e \in Orders :
        <<w, e>> \in owed ~>
            (received[w][e] > 0 \/ ~Hooks!Active(w) \/ dbFailed \/ CrowdedOut(w, e))

\* Without a fault an event is delivered and noted once: it is redelivered and
\* retried only for a reason.
OnceWithoutFaults ==
    faults = 0 =>
        /\ \A w \in Webhooks, e \in Orders : received[w][e] <= 1
        /\ \A e \in published :
              Cardinality({n \in Notices : notice[n] # None /\ notice[n].event = e}) <= 1

\* What the user has asked for, whatever the row holds.
Wanted(e, channel) ==
    LET n == Notes!NoticeOf(e)
        switch == IF channel = "email" THEN wish.email ELSE wish.inApp
    IN  /\ n # None /\ channel \in n.channels
        /\ switch # FALSE
        /\ wish.types = None \/ n.type \in wish.types

Noted(e) == \E n \in Notices : notice[n] # None /\ notice[n].event = e

Settled == {e \in calm : faults = 0 /\ ~overlap}

\* UpdatePreferences and the consumers: of an event published after the last
\* edit the user is told on no channel, and of no type, he opted out of.
OptedOutIsSpared ==
    \A e \in Settled :
        /\ e \in mailed => Wanted(e, "email")
        /\ Noted(e) => Wanted(e, "in_app")

\* roadmap.md 6.9: "allow-list (nil = allow all)": of an event published after
\* the last edit the user gets the notices he has not opted out of.
WantedIsTold ==
    \A e \in Settled \cap answered : Wanted(e, "in_app") => Noted(e)

=============================================================================
