--------------------------------- MODULE Task ---------------------------------
(***************************************************************************)
(* The Task aggregate of domain/a2a: its state, whether it has an artifact *)
(* and whether its message asks for an item to be added to the cart.       *)
(***************************************************************************)
TaskState ==
    {"submitted", "working", "input-required", "completed", "failed", "canceled", "rejected"}

IsTerminal(s) == s \in {"completed", "failed", "canceled", "rejected"}

IsCancelable(s) == s \in {"submitted", "working", "input-required"}

NewTask(id, adds) == [id |-> id, state |-> "submitted", artifact |-> FALSE, adds |-> adds]

\* Every caller ignores the error.
Transition(task, s) == IF IsTerminal(task.state) THEN task ELSE [task EXCEPT !.state = s]

AddArtifact(task) == [task EXCEPT !.artifact = TRUE]

===============================================================================
