-------------------------- MODULE ChangesetStatus --------------------------
(***************************************************************************)
(* The status of a changeset and the transition table every writer of the  *)
(* status column consults (crates/core/src/changeset.rs).  "absent" stands *)
(* for a changeset whose row has not been inserted yet.                    *)
(***************************************************************************)

Statuses == {"absent", "draft", "validated", "applying", "applied",
             "rolling_back", "rolled_back", "rollback_failed", "frozen"}

\* ChangeSetStatus::can_transition_to
CanTransition(from, to) ==
    <<from, to>> \in { <<"draft",        "validated">>,
                       <<"validated",    "applying">>,
                       <<"applying",     "applied">>,
                       <<"applying",     "rolling_back">>,
                       <<"applying",     "frozen">>,
                       <<"rolling_back", "rolled_back">>,
                       <<"rolling_back", "rollback_failed">> }

\* ChangeSetStatus::is_terminal
IsTerminal(s) == s \in {"applied", "rolled_back", "rollback_failed", "frozen"}

=============================================================================
