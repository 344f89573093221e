------------------------------ MODULE MCDelivery ------------------------------
(* Small instances of Delivery for TLC: how the done transition is configured. *)
EXTENDS Delivery

\* The configurations under which every delivery can be completed: by id with
\* the status name to check it against, by name where Jira takes the
\* transition again, and not at all.
LenientSetups ==
    {[doneBy |-> {"id", "name"}, doneAgain |-> FALSE],
     [doneBy |-> {"name"}, doneAgain |-> TRUE],
     [doneBy |-> {}, doneAgain |-> FALSE]}

=============================================================================
