------------------------ MODULE ChangesetLifecycle ------------------------
(***************************************************************************)
(* What the system promises about changesets, and nothing about how: a     *)
(* changeset is created as a draft and afterwards moves only along the     *)
(* transition table of ChangeSetStatus, one step and one changeset at a    *)
(* time.  ApplyWorker, where API clients, several workers, faults and      *)
(* crashes all write the same column, is shown to implement this.          *)
(***************************************************************************)
EXTENDS ChangesetStatus

CONSTANT Changesets    \* the identifiers (UUIDs) of all changesets

VARIABLE status        \* status[c]: the status column of c, or "absent"

Init == status = [c \in Changesets |-> "absent"]

Create(c) == /\ status[c] = "absent"
             /\ status' = [status EXCEPT ![c] = "draft"]

Move(c) == \E to \in Statuses :
              /\ CanTransition(status[c], to)
              /\ status' = [status EXCEPT ![c] = to]

Next == \E c \in Changesets : Create(c) \/ Move(c)

Spec == Init /\ [][Next]_status

=============================================================================
