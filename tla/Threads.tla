------------------------------ MODULE Threads ------------------------------
(***************************************************************************)
(* Several operator commands on one thread at the same time.  Nothing      *)
(* locks the thread: each command is a process with a connection of its    *)
(* own, the state it works on is in its memory, and the latest checkpoint  *)
(* written is the thread, whoever wrote it and whatever it was based on.   *)
(* The clones of the repositories are shared as well.                      *)
(*                                                                         *)
(* The workflow is the one of RemediationGraph with the nodes that have no *)
(* effect outside the state folded into their neighbours and every failure *)
(* escalated.                                                              *)
(***************************************************************************)
EXTENDS Integers, FiniteSets

CONSTANTS
    Commands,     \* operator commands, each a process
    NumRepos,
    Gated,        \* repositories whose policy asks for both approvals
    Given,        \* the orders the operator gives
    MaxEdits      \* bound: runs of a lane in a behaviour

Repos == 1 .. NumRepos
NoRepo == 0
Clean == 0           \* the clone holds no edits; an edit is a number above 0
Unpublished == -1    \* the clone has no commit of the program's yet

ASSUME ThreadsAssumption ==
    /\ NumRepos \in Nat \ {0} /\ MaxEdits \in Nat
    /\ Given \subseteq {"approve", "reject", "abort"}
    /\ Gated \subseteq Repos /\ 1 \in Gated

VARIABLES
    latest,       \* the latest checkpoint of the thread
    pc,           \* where each command is
    order,        \* what each command was asked to do
    memory,       \* the state each command read, or works on
    clone,        \* the edits in the work tree of each repository
    pushed,       \* the edits of each repository that were published, and are at HEAD
    \* history: not program state
    edits,        \* edits made so far
    green,        \* edits `mvn verify` passed on while they were in place
    overlapped    \* two commands were under way at the same time

vars == <<latest, pc, order, memory, clone, pushed, edits, green, overlapped>>

Nodes == {"detect_maven_profile", "lane", "validate_remediation", "publish_remediation",
          "review", "END"}
Stages == {"remediation", "delivery"}
NoStage == "none"
Positions == {"idle", "read", "updated", "running", "done"}

RemediationStates ==
    [status : {"pending", "in_progress", "completed", "failed"}, next : Nodes,
     repo : Repos \cup {NoRepo}, stage : Stages \cup {NoStage}, approvals : SUBSET Stages,
     pending : SUBSET Repos, completed : SUBSET Repos]

\* A bootstrapped ticket that awaits the approval of its first remediation.
Bootstrapped ==
    [status |-> "pending", next |-> "review", repo |-> 1, stage |-> "remediation",
     approvals |-> {}, pending |-> Repos, completed |-> {}]

\* Every variable has its type.
TypeOK ==
    /\ latest \in RemediationStates
    /\ memory \in [Commands -> RemediationStates]
    /\ pc \in [Commands -> Positions]
    /\ order \in [Commands -> Given]
    /\ clone \in [Repos -> 0 .. MaxEdits]
    /\ pushed \in [Repos -> (0 .. MaxEdits) \cup {Unpublished}]
    /\ edits \in 0 .. MaxEdits /\ green \subseteq 1 .. MaxEdits
    /\ overlapped \in BOOLEAN

Init ==
    /\ latest = Bootstrapped
    /\ pc = [c \in Commands |-> "idle"]
    /\ order \in [Commands -> Given]
    /\ memory = [c \in Commands |-> Bootstrapped]
    /\ clone = [r \in Repos |-> Clean] /\ pushed = [r \in Repos |-> Unpublished]
    /\ edits = 0 /\ green = {} /\ overlapped = FALSE

outside == <<clone, pushed, edits, green>>

Move(c, from, to) ==
    /\ pc[c] = from
    /\ pc' = [pc EXCEPT ![c] = to]

UnderWay(c) == pc[c] \notin {"idle", "done"}

-----------------------------------------------------------------------------
(* The commands. *)

\* get_state: the snapshot the command decides on.
Read(c) ==
    /\ Move(c, "idle", "read")
    /\ memory' = [memory EXCEPT ![c] = latest]
    /\ overlapped' = (overlapped \/ \E other \in Commands : UnderWay(other))
    /\ UNCHANGED <<latest, order, outside>>

\* The gate the decision is recorded for, according to the snapshot.
DecisionStage(state) == IF state.stage = "delivery" THEN "delivery" ELSE "remediation"

\* The snapshot's history with this decision in it; a rejection approves no stage.
ApprovedBy(snapshot, decision) ==
    snapshot.approvals \cup IF decision = "approve" THEN {DecisionStage(snapshot)} ELSE {}

\* Deviation: the update carries a ledger field of the snapshot as well.
ReviewedWithLedger(state, snapshot, decision) ==
    [state EXCEPT
        !.status = IF decision = "approve" THEN "in_progress" ELSE "failed",
        !.stage = NoStage,
        !.pending = snapshot.pending,
        !.approvals = ApprovedBy(snapshot, decision),
        !.next = CASE decision = "reject" -> "END"
                   [] decision = "approve" /\ DecisionStage(snapshot) = "delivery"
                        -> "publish_remediation"
                   [] OTHER -> "lane"]

\* The review node is applied to the snapshot; the fields it returns, and no
\* others, are then laid over the latest checkpoint.
Reviewed(state, snapshot, decision) ==
    [state EXCEPT
        !.status = IF decision = "approve" THEN "in_progress" ELSE "failed",
        !.stage = NoStage,
        !.approvals = ApprovedBy(snapshot, decision),
        !.next = CASE decision = "reject" -> "END"
                   [] decision = "approve" /\ DecisionStage(snapshot) = "delivery"
                        -> "publish_remediation"
                   [] OTHER -> "lane"]

\* update_state(as_node = review).  With no route the selector raises before
\* anything is written.
Update(c) ==
    /\ order[c] # "abort"
    /\ IF order[c] = "approve" /\ DecisionStage(memory[c]) = "remediation" /\ latest.repo = NoRepo
       THEN /\ Move(c, "read", "done")
            /\ UNCHANGED latest
       ELSE /\ Move(c, "read", "updated")
            /\ latest' = Reviewed(latest, memory[c], order[c])
    /\ UNCHANGED <<order, memory, outside, overlapped>>

\* invoke(None): the run starts from whatever is the latest checkpoint now.
Invoke(c) ==
    /\ Move(c, "updated", "running")
    /\ memory' = [memory EXCEPT ![c] = latest]
    /\ UNCHANGED <<latest, order, outside, overlapped>>

\* update_state without a node asks the selector of the node that ran last for
\* its successor once more, on the fields just written.  On outdated fields it
\* may answer otherwise than it did.  After a publication it sees a failed
\* status and answers classify_failure, which escalates; END may also be a
\* rejection whose failure no invocation has classified yet.
Successors(node) ==
    CASE node = "lane" -> {"lane", "review", "END"}
      [] node = "publish_remediation" -> {"publish_remediation", "review", "END"}
      [] node = "review" /\ latest.stage # "delivery" -> {"lane", "review", "END"}
      [] node = "review" /\ latest.stage = "delivery" -> {"publish_remediation", "review", "END"}
      [] node = "detect_maven_profile" -> {"END"}
      [] node = "END" -> {"lane", "publish_remediation", "END"}
      [] OTHER -> {node}

NextAgain(state) ==
    IF state = latest /\ latest.next # "detect_maven_profile" THEN {latest.next}
    ELSE Successors(latest.next)

\* --abort writes every field of the state it loaded over the latest one.
Abort(c) ==
    /\ order[c] = "abort"
    /\ Move(c, "read", "done")
    /\ \E node \in NextAgain(memory[c]) :
          latest' = [memory[c] EXCEPT !.status = "failed", !.next = node]
    /\ UNCHANGED <<order, memory, outside, overlapped>>

-----------------------------------------------------------------------------
(***************************************************************************)
(* Supersteps of a running invocation: a node works on the memory of its   *)
(* process, and what it returns becomes the latest checkpoint.             *)
(***************************************************************************)
At(c, node) == pc[c] = "running" /\ memory[c].next = node

InHand(c) == memory[c].repo # NoRepo

Checkpoint(c, state) ==
    /\ memory' = [memory EXCEPT ![c] = state]
    /\ latest' = state
    /\ UNCHANGED <<pc, order, overlapped>>

\* detect_maven_profile to apply_policy: the first pending repository.
Plan(c) ==
    /\ At(c, "detect_maven_profile")
    /\ \E repo \in memory[c].pending :
        /\ \A other \in memory[c].pending : repo <= other
        /\ Checkpoint(c, IF repo \in Gated
                         THEN [memory[c] EXCEPT !.repo = repo, !.status = "pending",
                                                !.stage = "remediation", !.next = "review"]
                         ELSE [memory[c] EXCEPT !.repo = repo, !.next = "lane"])
    /\ UNCHANGED outside

RunLane(c) ==
    /\ At(c, "lane") /\ InHand(c) /\ edits < MaxEdits
    /\ edits' = edits + 1
    /\ clone' = [clone EXCEPT ![memory[c].repo] = edits + 1]
    /\ Checkpoint(c, [memory[c] EXCEPT !.next = "validate_remediation"])
    /\ UNCHANGED <<pushed, green>>

AfterValidation(state) ==
    IF state.repo \notin Gated \/ "delivery" \in state.approvals
    THEN "publish_remediation" ELSE "review"

ValidationPasses(c) ==
    /\ At(c, "validate_remediation") /\ InHand(c)
    /\ green' = green \cup ({clone[memory[c].repo]} \ {Clean})
    /\ LET then == AfterValidation(memory[c]) IN
       Checkpoint(c, IF then = "review"
                     THEN [memory[c] EXCEPT !.status = "pending", !.stage = "delivery",
                                            !.next = then]
                     ELSE [memory[c] EXCEPT !.status = "in_progress", !.next = then])
    /\ UNCHANGED <<clone, pushed, edits>>

\* Deviation: a failed validation is delivered all the same.
ValidationFailsOpen(c) ==
    /\ At(c, "validate_remediation") /\ InHand(c)
    /\ Checkpoint(c, [memory[c] EXCEPT !.next = "publish_remediation"])
    /\ UNCHANGED outside

AtHead(repo) == IF pushed[repo] = Unpublished THEN Clean ELSE pushed[repo]

\* The clone is rolled back and the run escalated.
ValidationFails(c) ==
    /\ At(c, "validate_remediation") /\ InHand(c)
    /\ clone' = [clone EXCEPT ![memory[c].repo] = AtHead(memory[c].repo)]
    /\ Checkpoint(c, [memory[c] EXCEPT !.status = "failed", !.next = "END"])
    /\ UNCHANGED <<pushed, edits, green>>

Published(state) ==
    LET remaining == state.pending \ {state.repo} IN
    IF remaining = {}
    THEN [state EXCEPT !.pending = {}, !.completed = @ \cup {state.repo}, !.stage = NoStage,
                       !.status = "completed", !.next = "END"]
    ELSE [state EXCEPT !.pending = remaining, !.completed = @ \cup {state.repo},
                       !.stage = NoStage, !.status = "in_progress", !.repo = NoRepo,
                       !.approvals = {}, !.next = "detect_maven_profile"]

\* A clone never committed to has its metadata file to commit, if nothing else.
HasChanges(repo) == clone[repo] # pushed[repo]

Publish(c) ==
    /\ At(c, "publish_remediation") /\ InHand(c)
    /\ HasChanges(memory[c].repo)
    /\ pushed' = [pushed EXCEPT ![memory[c].repo] = clone[memory[c].repo]]
    /\ Checkpoint(c, Published(memory[c]))
    /\ UNCHANGED <<clone, edits, green>>

\* Deviation: a failed publication is tried again without a budget.
PublishFailsAgain(c) ==
    /\ At(c, "publish_remediation")
    /\ Checkpoint(c, [memory[c] EXCEPT !.status = "failed"])
    /\ UNCHANGED outside

\* Deviation: the repository is recorded whatever became of its publication.
PublishFailsRecorded(c) ==
    /\ At(c, "publish_remediation") /\ InHand(c)
    /\ Checkpoint(c, Published(memory[c]))
    /\ UNCHANGED outside

\* Nothing to commit, or a service refuses: escalated.
PublishFails(c) ==
    /\ At(c, "publish_remediation") /\ InHand(c)
    /\ Checkpoint(c, [memory[c] EXCEPT !.status = "failed", !.next = "END"])
    /\ UNCHANGED outside

\* _persist_invariant_failure: a node that finds no repository, or no route,
\* raises; the failure is laid over the latest checkpoint of the thread.
InvariantFails(c) ==
    /\ memory[c].next \in {"lane", "validate_remediation", "publish_remediation"}
    /\ ~ InHand(c)
    /\ Move(c, "running", "done")
    /\ latest' = [latest EXCEPT !.status = "failed", !.next = "END"]
    /\ UNCHANGED <<order, memory, outside, overlapped>>

\* invoke returns at END and after a review node that finds no decision.
Return(c) ==
    /\ memory[c].next \in {"END", "review"}
    /\ Move(c, "running", "done")
    /\ UNCHANGED <<latest, order, memory, outside, overlapped>>

\* The process is killed; a lane may have written to the clone.
Dies(c) ==
    /\ pc[c] = "running"
    /\ pc' = [pc EXCEPT ![c] = "done"]
    /\ IF memory[c].next = "lane" /\ InHand(c) /\ edits < MaxEdits
       THEN /\ edits' = edits + 1
            /\ clone' = [clone EXCEPT ![memory[c].repo] = edits + 1]
       ELSE UNCHANGED <<edits, clone>>
    /\ UNCHANGED <<latest, order, memory, pushed, green, overlapped>>

Superstep(c) ==
    \/ Plan(c) \/ RunLane(c) \/ ValidationPasses(c) \/ ValidationFails(c)
    \/ Publish(c) \/ PublishFails(c) \/ InvariantFails(c) \/ Return(c)

Next == \E c \in Commands :
    Read(c) \/ Update(c) \/ Invoke(c) \/ Abort(c) \/ Superstep(c) \/ Dies(c)

Spec == Init /\ [][Next]_vars

\* A command that was started goes on by itself.
FairSpec ==
    /\ Spec
    /\ \A c \in Commands : WF_vars(Update(c) \/ Invoke(c) \/ Abort(c) \/ Superstep(c))

-----------------------------------------------------------------------------
(* Whatever the commands do to each other. *)

\* The ledger of every checkpoint is whole: an update based on an outdated
\* snapshot carries no ledger field, and an abort carries all of them.
LedgerIsWhole ==
    /\ latest.pending \cap latest.completed = {}
    /\ latest.pending \cup latest.completed = Repos
    /\ latest.repo \in latest.pending \cup {NoRepo} \/ latest.pending = {}

\* A repository is never taken for completed on the word of a command whose
\* publication did not happen.
CompletedWasPushed == \A r \in latest.completed : pushed[r] # Unpublished

\* Commands given one after the other publish edits `mvn verify` passed on,
\* and never a clone without any, even when each of them was cut short.
SerialCommandsAreSafe == overlapped \/ \A r \in Repos : pushed[r] \in green \cup {Unpublished}

\* A command never waits for another one and never runs for ever: the loop
\* over the repositories ends in every memory it runs in.
CommandsEnd == \A c \in Commands : pc[c] = "read" ~> pc[c] = "done"

\* README: "Validation gates everything.  No PR without `mvn verify` green".
\* (A clone without edits, rolled back by another command, was nothing to verify.)
PushedIsGreen == \A r \in Repos : pushed[r] \in green \cup {Clean, Unpublished}

=============================================================================
