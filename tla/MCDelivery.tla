----------------------------- MODULE MCDelivery -----------------------------
(* Small instances of Delivery for TLC. *)
EXTENDS Delivery, TLC

CONSTANTS e1, s1, w1, w2, w3, c1, r1, a1, n1, n2, k1, d1

MCOneOrder == {e1}
MCRenewals == {s1}
\* Nobody is told of the order event, and by both channels of the other.
MCKind == (e1 :> "processing") @@ (s1 :> "past_due")
MCWebhooks == {w1, w2, w3}
MCSubscribed == [w \in MCWebhooks |-> Orders]
MCBadURLs == {w3}

\* Two good webhooks, or one that gets nothing, or one still to come.
Table(active, none) ==
    [w \in MCWebhooks |->
        IF w \in active THEN "active" ELSE IF w \in none THEN "none" ELSE "deleted"]
MCInitialWebhooks == {Table({w1, w2}, {}), Table({w3}, {}), Table({}, {w1})}

MCConsumers == {c1}
MCRetriers == {r1}
MCAdmins == {a1}
MCNotices == {n1, n2}
MCNotifiers == {k1}
MCEditors == {d1}
MCTypes == {"order", "subscription"}

\* A switch, or the types.
Leave == [email |-> None, inApp |-> None, types |-> None]
MCChanges ==
    {[Leave EXCEPT !.email = FALSE], [Leave EXCEPT !.types = {"order"}]}

=============================================================================
