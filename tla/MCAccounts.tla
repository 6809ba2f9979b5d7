------------------------------ MODULE MCAccounts ------------------------------
(* A small instance of Accounts for TLC. *)
EXTENDS Accounts, TLC

CONSTANTS u1, u2, e1, E1, w1, w2, t1, t2, c1, c2, r1, r2, r3, r4, h1, h2

MCUsers == {u1, u2}
MCEmails == {e1, E1}
MCPasswords == {w1, w2}
MCResetTokens == {t1, t2}
MCCodes == {c1, c2}
MCRefreshTokens == {r1, r2, r3, r4}
MCHandlers == {h1, h2}

\* E1 is e1 typed with capitals.
MCLower == (e1 :> e1) @@ (E1 :> e1)

Unissued == [x \in Secrets |-> [state |-> "new", user |-> None]]

\* Nobody yet, or one customer with a secret of each kind.
MCInitialRows ==
    {[users |-> (u1 :> None) @@ (u2 :> None), secrets |-> Unissued]}
    \cup {[users |-> (u1 :> [id |-> u1, email |-> e1, password |-> w1, status |-> s])
                     @@ (u2 :> None),
           secrets |-> [x \in Secrets |-> IF x \in {t1, c1, r1}
                                          THEN [state |-> "live", user |-> u1]
                                          ELSE Unissued[x]]] :
             s \in {"active", "suspended"}}

=============================================================================
