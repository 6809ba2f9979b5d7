-------------------------- MODULE CheckoutLifecycle --------------------------
(***************************************************************************)
(* What a checkout promises its readers: the UCP state machine of          *)
(* roadmap.md (incomplete -> ready_for_complete -> completed | cancelled,  *)
(* with requires_escalation beside ready_for_complete).  Completed and     *)
(* cancelled are final.                                                    *)
(***************************************************************************)
VARIABLE status

Open == {"incomplete", "ready_for_complete", "requires_escalation"}

Init == status \in {"none", "incomplete"}

Create == status = "none" /\ status' = "incomplete"

Advance ==
    /\ status = "incomplete"
    /\ status' \in {"ready_for_complete", "requires_escalation"}

\* A direct completion passes through ready_for_complete in memory only.
Complete == status \in Open /\ status' = "completed"

Cancel == status \in Open /\ status' = "cancelled"

Next == Create \/ Advance \/ Complete \/ Cancel

Spec == Init /\ [][Next]_status

=============================================================================
