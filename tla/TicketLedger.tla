---------------------------- MODULE TicketLedger ----------------------------
(***************************************************************************)
(* What the remediation workflow promises about the repositories of a      *)
(* ticket, without its nodes: intake splits them into those to do and      *)
(* those excluded because a pull request exists, and then they are         *)
(* finished one at a time, in ticket order, each only after it has been    *)
(* cleared for itself.  Starting the ticket over forgets everything.       *)
(***************************************************************************)
EXTENDS Naturals

CONSTANT Repos        \* the repositories of the ticket, numbered in its order

VARIABLES
    todo,       \* repositories not yet handled
    finished,   \* repositories handled
    excluded,   \* repositories left out at intake
    cleared     \* the first repository to do may be finished

ledger == <<todo, finished, excluded, cleared>>

LedgerInit == todo = {} /\ finished = {} /\ excluded = {} /\ cleared = FALSE

\* The ticket is started, or started over.
StartOver == todo' = {} /\ finished' = {} /\ excluded' = {} /\ cleared' = FALSE

\* Intake happens once after a start.
Split ==
    /\ todo = {} /\ finished = {} /\ excluded = {}
    /\ excluded' \in SUBSET Repos
    /\ todo' = Repos \ excluded'
    /\ UNCHANGED <<finished, cleared>>

\* Clearance is given and withdrawn while there is a repository to clear.
Clear ==
    /\ todo # {}
    /\ cleared' \in BOOLEAN
    /\ UNCHANGED <<todo, finished, excluded>>

\* The cleared repository, the first one to do, is finished; the next one
\* starts without clearance.
Finish ==
    /\ cleared
    /\ \E repo \in todo :
        /\ \A other \in todo : repo <= other
        /\ todo' = todo \ {repo}
        /\ finished' = finished \cup {repo}
    /\ cleared' = FALSE
    /\ UNCHANGED excluded

LedgerNext == StartOver \/ Split \/ Clear \/ Finish

LedgerSpec == LedgerInit /\ [][LedgerNext]_ledger

=============================================================================
