-------------------------- MODULE RemediationGraph --------------------------
(***************************************************************************)
(* The remediation workflow of one Jira ticket: the LangGraph state        *)
(* machine, the checkpointed RemediationState its nodes read and update,   *)
(* and the operator who bootstraps, resumes and aborts the thread from the *)
(* command line.                                                           *)
(*                                                                         *)
(* One action is one node together with the selector that picks the next   *)
(* node, because LangGraph checkpoints the two as one superstep.  Between  *)
(* two actions the process may die: the checkpoint then still names the    *)
(* node that did not run.                                                  *)
(***************************************************************************)
EXTENDS FailureMatrix

CONSTANTS
    NumRepos,              \* repositories the ticket affects, in ticket order
    MaxRetries,            \* EA_MAX_RETRIES
    MaxTotalAttempts,      \* EA_MAX_TOTAL_ATTEMPTS
    RecursionLimit,        \* supersteps LangGraph allows one invocation
    ComplexNeedsApproval, ComplexNeedsDelivery, TransitiveNeedsApproval,  \* policy.yaml
    RiskOutcomes,          \* what the Maven verification may report
    CheckResults,          \* the validation results the environment may produce
    DryRuns,               \* the values EA_DRY_RUN takes over the commands
    PolicyTags,            \* the tag verdicts policy.yaml may give a repository
    NodesCrash,            \* may a node raise or the process be killed
    StrayDecisions,        \* may a decision come when no approval is awaited
    MaxCommands            \* bound: operator commands in a behaviour

Repos == 1 .. NumRepos
NoRepo == 0

VARIABLES
    \* the process that runs the graph
    running,       \* graph.invoke is executing
    gated,         \* this invocation passed interrupt_before
    dryRun,        \* runtime_config.dry_run of this invocation
    next,          \* the node the latest checkpoint says is next
    steps,         \* supersteps used by this invocation
    \* RemediationState
    status, pending, completed, skipped, current,
    advisory, maven, route,
    allowed, needsHuman, needsDelivery,
    stage, feedback, approvals,
    result, error, retryNode, retries, attempts, escalated,
    delivered,     \* how many of branch, pull request, Jira completion are recorded
    \* history: not program state
    command, commands,   \* the last operator command, and how many there were
    granted,       \* approvals the operator gave for the repository in hand
    validated,     \* the edits in the workspace passed validation
    branchFresh    \* the recorded branch carries the edits in the workspace

process  == <<running, gated, dryRun, next, steps>>
repoVars == <<pending, completed, skipped, current>>
planVars == <<advisory, maven, route>>
gateVars == <<allowed, needsHuman, needsDelivery>>
approvalVars == <<stage, feedback, approvals>>
failureVars == <<error, retryNode, retries, attempts, escalated>>
workVars == <<result, delivered, granted, validated, branchFresh>>
operatorVars == <<command, commands>>

vars == <<process, status, repoVars, planVars, gateVars, approvalVars,
          failureVars, workVars, operatorVars>>

Finished == "END"
ReviewNodes == {"review_remediation_approval", "review_delivery_approval"}

Nodes ==
    {"bootstrap_state", "probe_credentials", "ingest_and_parse_jira",
     "load_repository_context", "check_repository_idempotency",
     "detect_maven_profile", "verify_advisory", "verify_maven_target",
     "select_route", "apply_policy", "prepare_delivery_approval",
     "prepare_complex_remediation", "execute_complex_scaffold",
     "remediate_simple", "remediate_transitive", "preflight_validate",
     "validate_remediation", "handle_validation_failure", "classify_failure",
     "escalate", "skip_publish_for_dry_run", "publish_remediation"} \cup ReviewNodes

Statuses == {"pending", "bootstrapped", "planning_ready", "in_progress",
             "completed", "failed"}
NoThread == "no_thread"
Stages == {"remediation", "delivery"}
NoStage == "none"
Decisions == {"approved", "rejected"}
Undecided == "pending"

AdvisoryStatuses == {"verified", "unverified"}
Risks == {"unverified", "high", "transitive", "direct"}
Unknown == "none"     \* a verification that has not run

TagVerdicts == {"free", "needs_approval", "blocked"}

ASSUME ReposAssumption == NumRepos \in Nat \ {0}
ASSUME BudgetAssumption ==
    /\ MaxRetries \in Nat
    /\ MaxTotalAttempts \in Nat
    /\ RecursionLimit \in Nat
    /\ MaxCommands \in Nat
ASSUME PolicyAssumption ==
    /\ {ComplexNeedsApproval, ComplexNeedsDelivery, TransitiveNeedsApproval} \subseteq BOOLEAN
    /\ PolicyTags \subseteq TagVerdicts
ASSUME EnvironmentAssumption ==
    /\ RiskOutcomes \subseteq Risks
    /\ CheckResults \subseteq ValidationResults
    /\ DryRuns \subseteq BOOLEAN
    /\ {NodesCrash, StrayDecisions} \subseteq BOOLEAN

ProcessOK ==
    /\ running \in BOOLEAN /\ gated \in BOOLEAN /\ dryRun \in BOOLEAN
    /\ next \in Nodes \cup {Finished}
    /\ steps \in 0 .. RecursionLimit

StatusOK == status \in Statuses \cup {NoThread}

ReposOK ==
    /\ pending \subseteq Repos /\ completed \subseteq Repos /\ skipped \subseteq Repos
    /\ current \in Repos \cup {NoRepo}

PlanOK ==
    /\ advisory \in AdvisoryStatuses \cup {Unknown}
    /\ maven \in Risks \cup {Unknown}
    /\ route \in Strategies \cup {NoRoute}

GatesOK == allowed \in BOOLEAN /\ needsHuman \in BOOLEAN /\ needsDelivery \in BOOLEAN

ApprovalsOK ==
    /\ stage \in Stages \cup {NoStage}
    /\ feedback \in Decisions \cup {Undecided}
    /\ approvals \subseteq Stages

FailuresOK ==
    /\ error \in WorkflowErrors
    /\ retryNode \in RetryLanes \cup {"publish_remediation", "escalate", "none"}
    /\ retries \in 0 .. MaxRetries
    /\ attempts \in Nat
    /\ escalated \in BOOLEAN

WorkOK ==
    /\ result \in ValidationResults \cup {NoResult}
    /\ delivered \in 0 .. 3
    /\ granted \subseteq Stages
    /\ validated \in BOOLEAN /\ branchFresh \in BOOLEAN

OperatorOK ==
    /\ command \in {"none", "bootstrap", "decide", "resume", "abort"}
    /\ commands \in 0 .. MaxCommands

\* Every variable has its type; the counters have the bounds of the code.
TypeOK ==
    /\ ProcessOK /\ StatusOK /\ ReposOK /\ PlanOK /\ GatesOK
    /\ ApprovalsOK /\ FailuresOK /\ WorkOK /\ OperatorOK

-----------------------------------------------------------------------------
(***************************************************************************)
(* Supersteps (langgraph).  A node may run while the invocation has        *)
(* supersteps left; the invocation returns at END, or before a review node *)
(* when it was started with interrupt_before.                              *)
(***************************************************************************)
At(node) == running /\ next = node /\ steps < RecursionLimit

Goto(node) ==
    /\ next' = node
    /\ steps' = steps + 1
    /\ running' = (node # Finished /\ ~ (gated /\ node \in ReviewNodes))
    /\ UNCHANGED <<gated, dryRun, operatorVars>>

Invoke(node, interrupting, dry) ==
    /\ next' = node
    /\ steps' = 0
    /\ running' = (node # Finished)
    /\ gated' = interrupting
    /\ dryRun' = dry

\* A clean RemediationState: what bootstrap writes over every channel.
ResetState ==
    /\ status' = "pending"
    /\ pending' = {} /\ completed' = {} /\ skipped' = {} /\ current' = NoRepo
    /\ advisory' = Unknown /\ maven' = Unknown /\ route' = NoRoute
    /\ allowed' = TRUE /\ needsHuman' = FALSE /\ needsDelivery' = FALSE
    /\ stage' = NoStage /\ feedback' = Undecided /\ approvals' = {}
    /\ error' = NoError /\ retryNode' = "none" /\ retries' = 0 /\ attempts' = 0
    /\ escalated' = FALSE
    /\ result' = NoResult /\ delivered' = 0
    /\ granted' = {} /\ validated' = FALSE /\ branchFresh' = FALSE

Init ==
    /\ running = FALSE /\ gated = FALSE /\ dryRun = FALSE
    /\ next = Finished /\ steps = 0
    /\ status = NoThread
    /\ pending = {} /\ completed = {} /\ skipped = {} /\ current = NoRepo
    /\ advisory = Unknown /\ maven = Unknown /\ route = NoRoute
    /\ allowed = TRUE /\ needsHuman = FALSE /\ needsDelivery = FALSE
    /\ stage = NoStage /\ feedback = Undecided /\ approvals = {}
    /\ error = NoError /\ retryNode = "none" /\ retries = 0 /\ attempts = 0
    /\ escalated = FALSE
    /\ result = NoResult /\ delivered = 0
    /\ granted = {} /\ validated = FALSE /\ branchFresh = FALSE
    /\ command = "none" /\ commands = 0

-----------------------------------------------------------------------------
(* Selectors, over the state the node leaves behind. *)

\* Deviation: the transitive lane is forgotten.
SelectRemediationNodeMissingLane(strategy) ==
    CASE strategy = "simple_update" -> "remediate_simple"
      [] strategy = "complex_refactor" -> "prepare_complex_remediation"
      [] OTHER -> Finished

SelectRemediationNode(strategy) ==
    CASE strategy = "simple_update" -> "remediate_simple"
      [] strategy = "transitive_override" -> "remediate_transitive"
      [] strategy = "complex_refactor" -> "prepare_complex_remediation"
      [] OTHER -> Finished

SelectPostPolicyNode(isAllowed, human, strategy) ==
    CASE ~ isAllowed -> Finished
      [] isAllowed /\ human -> "review_remediation_approval"
      [] OTHER -> SelectRemediationNode(strategy)

SelectPostApprovalNode(reviewed, decision, strategy) ==
    CASE decision = "approved" /\ reviewed = "remediation" -> SelectRemediationNode(strategy)
      [] decision = "approved" /\ reviewed = "delivery" -> "publish_remediation"
      [] decision = "rejected" -> "classify_failure"
      [] OTHER -> Finished

SelectPostValidationNode(failed) ==
    CASE failed # Passed -> "handle_validation_failure"
      [] failed = Passed /\ dryRun -> "skip_publish_for_dry_run"
      [] failed = Passed /\ ~ dryRun /\ needsDelivery /\ "delivery" \notin approvals
            -> "prepare_delivery_approval"
      [] OTHER -> "publish_remediation"

\* Deviation: the advisory is verified already, so go on to the target.
SelectPostDeliveryNodeTooFar(remaining) ==
    IF remaining # {} THEN "verify_maven_target" ELSE Finished

SelectPostDeliveryNode(remaining) ==
    IF remaining # {} THEN "detect_maven_profile" ELSE Finished

-----------------------------------------------------------------------------
(* Intake. *)

BootstrapState ==
    /\ At("bootstrap_state")
    /\ status' = "bootstrapped"
    /\ Goto("probe_credentials")
    /\ UNCHANGED <<repoVars, planVars, gateVars, approvalVars, failureVars, workVars>>

ProbeCredentials ==
    /\ At("probe_credentials")
    /\ Goto("ingest_and_parse_jira")
    /\ UNCHANGED <<status, repoVars, planVars, gateVars, approvalVars, failureVars, workVars>>

IngestAndParseJira ==
    /\ At("ingest_and_parse_jira")
    /\ status' = "in_progress"
    /\ Goto("load_repository_context")
    /\ UNCHANGED <<repoVars, planVars, gateVars, approvalVars, failureVars, workVars>>

LoadRepositoryContext ==
    /\ At("load_repository_context")
    /\ Goto("check_repository_idempotency")
    /\ UNCHANGED <<status, repoVars, planVars, gateVars, approvalVars, failureVars, workVars>>

\* `published` are the targets for which a recent pull request was found.
CheckRepositoryIdempotency ==
    /\ At("check_repository_idempotency")
    /\ \E published \in SUBSET Repos :
        /\ skipped' = skipped \cup published
        /\ pending' = Repos \ published
        /\ status' = IF published = Repos THEN "completed" ELSE status
        /\ Goto(IF published = Repos THEN Finished ELSE "detect_maven_profile")
    /\ UNCHANGED <<completed, current, planVars, gateVars, approvalVars, failureVars, workVars>>

-----------------------------------------------------------------------------
(* Verification, routing and policy. *)

\* current_working_repo or pending_repos[0]: pending keeps the ticket order.
WorkingRepo(repo) ==
    IF current # NoRepo THEN repo = current
    ELSE repo \in pending /\ \A other \in pending : repo <= other

DetectMavenProfile ==
    /\ At("detect_maven_profile")
    /\ \E repo \in Repos : WorkingRepo(repo) /\ current' = repo
    /\ Goto("verify_advisory")
    /\ UNCHANGED <<status, pending, completed, skipped, planVars, gateVars, approvalVars,
                   failureVars, workVars>>

VerifyAdvisory ==
    /\ At("verify_advisory")
    /\ advisory' \in AdvisoryStatuses
    /\ Goto("verify_maven_target")
    /\ UNCHANGED <<status, repoVars, maven, route, gateVars, approvalVars, failureVars, workVars>>

VerifyMavenTarget ==
    /\ At("verify_maven_target")
    /\ maven' \in RiskOutcomes
    /\ Goto("select_route")
    /\ UNCHANGED <<status, repoVars, advisory, route, gateVars, approvalVars, failureVars, workVars>>

RouteDecision(advised, risk) ==
    CASE advised # "verified" \/ risk = "unverified" -> "unknown"
      [] advised = "verified" /\ risk = "high" -> "complex_refactor"
      [] advised = "verified" /\ risk = "transitive" -> "transitive_override"
      [] OTHER -> "simple_update"

RouteNeedsHuman(strategy) == strategy \in {"unknown", "complex_refactor"}

SelectRoute ==
    /\ At("select_route")
    /\ route' = RouteDecision(advisory, maven)
    /\ needsHuman' = RouteNeedsHuman(route')
    /\ status' = "planning_ready"
    /\ Goto("apply_policy")
    /\ UNCHANGED <<repoVars, advisory, maven, allowed, needsDelivery, approvalVars,
                   failureVars, workVars>>

\* PolicyEngine.evaluate: a blocked tag forbids the route and still asks for approval.
PolicyNeedsHuman(tags) ==
    \/ tags # "free"
    \/ needsHuman
    \/ route = "complex_refactor" /\ ComplexNeedsApproval
    \/ route = "transitive_override" /\ TransitiveNeedsApproval

PolicyNeedsDelivery(tags) ==
    tags # "blocked" /\ route = "complex_refactor" /\ ComplexNeedsDelivery

ApplyPolicy ==
    /\ At("apply_policy")
    /\ \E tags \in PolicyTags :
        /\ allowed' = (tags # "blocked")
        /\ needsHuman' = PolicyNeedsHuman(tags)
        /\ needsDelivery' = PolicyNeedsDelivery(tags)
        /\ stage' = IF PolicyNeedsHuman(tags) THEN "remediation" ELSE stage
        /\ error' = IF tags = "blocked"
                    THEN [code |-> "policy_blocked", recoverable |-> FALSE] ELSE error
        /\ status' = CASE tags = "blocked" -> "failed"
                       [] tags # "blocked" /\ PolicyNeedsHuman(tags) -> "pending"
                       [] OTHER -> status
        /\ Goto(SelectPostPolicyNode(tags # "blocked", PolicyNeedsHuman(tags), route))
    /\ UNCHANGED <<repoVars, planVars, feedback, approvals, retryNode, retries, attempts,
                   escalated, workVars>>

-----------------------------------------------------------------------------
(* Approval gates. *)

\* The review node: what it writes for the decision it finds in human_feedback.
ReviewApproval(reviewed, decision) ==
    /\ status' = CASE decision = "approved" -> "in_progress"
                   [] decision = "rejected" -> "failed"
                   [] OTHER -> "pending"
    /\ stage' = IF decision = Undecided THEN stage ELSE NoStage
    /\ approvals' = IF decision = "approved" THEN approvals \cup {reviewed} ELSE approvals
    /\ error' = IF decision = "rejected"
                THEN [code |-> "approval_rejected", recoverable |-> FALSE] ELSE error
    /\ UNCHANGED <<repoVars, planVars, gateVars, retryNode, retries, attempts, escalated,
                   result, delivered, validated, branchFresh>>

ReviewRemediationApproval ==
    /\ At("review_remediation_approval")
    /\ ReviewApproval("remediation", feedback)
    /\ Goto(SelectPostApprovalNode("remediation", feedback, route))
    /\ UNCHANGED <<feedback, granted>>

ReviewDeliveryApproval ==
    /\ At("review_delivery_approval")
    /\ ReviewApproval("delivery", feedback)
    /\ Goto(SelectPostApprovalNode("delivery", feedback, route))
    /\ UNCHANGED <<feedback, granted>>

\* Deviation: the decision of the first gate is left in human_feedback.
PrepareDeliveryApprovalKeepingFeedback ==
    /\ At("prepare_delivery_approval")
    /\ status' = "pending"
    /\ stage' = "delivery"
    /\ Goto("review_delivery_approval")
    /\ UNCHANGED <<repoVars, planVars, gateVars, feedback, approvals, failureVars, workVars>>

PrepareDeliveryApproval ==
    /\ At("prepare_delivery_approval")
    /\ status' = "pending"
    /\ stage' = "delivery"
    /\ feedback' = Undecided
    /\ Goto("review_delivery_approval")
    /\ UNCHANGED <<repoVars, planVars, gateVars, approvals, failureVars, workVars>>

-----------------------------------------------------------------------------
(* Remediation lanes and validation. *)

\* A lane rewrites files of the workspace: nothing validated, pushed or
\* approved for delivery before it describes them any more.
EditWorkspace ==
    /\ validated' = FALSE
    /\ branchFresh' = FALSE
    /\ granted' = granted \ {"delivery"}
    /\ UNCHANGED <<result, delivered>>

RemediateSimple ==
    /\ At("remediate_simple")
    /\ EditWorkspace
    /\ Goto("preflight_validate")
    /\ UNCHANGED <<status, repoVars, planVars, gateVars, approvalVars, failureVars>>

RemediateTransitive ==
    /\ At("remediate_transitive")
    /\ EditWorkspace
    /\ Goto("preflight_validate")
    /\ UNCHANGED <<status, repoVars, planVars, gateVars, approvalVars, failureVars>>

\* The preflight result is recorded and never read by a selector.
PreflightValidate ==
    /\ At("preflight_validate")
    /\ Goto("validate_remediation")
    /\ UNCHANGED <<status, repoVars, planVars, gateVars, approvalVars, failureVars, workVars>>

PrepareComplexRemediation ==
    /\ At("prepare_complex_remediation")
    /\ Goto("execute_complex_scaffold")
    /\ UNCHANGED <<status, repoVars, planVars, gateVars, approvalVars, failureVars, workVars>>

ExecuteComplexScaffold ==
    /\ At("execute_complex_scaffold")
    /\ EditWorkspace
    /\ Goto("validate_remediation")
    /\ UNCHANGED <<status, repoVars, planVars, gateVars, approvalVars, failureVars>>

ValidateRemediation ==
    /\ At("validate_remediation")
    /\ \E failed \in CheckResults :
        /\ result' = failed
        /\ validated' = (failed = Passed)
        /\ status' = IF failed = Passed THEN "in_progress" ELSE "failed"
        /\ retryNode' = IF failed = Passed THEN "none" ELSE retryNode
        /\ Goto(SelectPostValidationNode(failed))
    /\ UNCHANGED <<repoVars, planVars, gateVars, approvalVars, error, retries, attempts,
                   escalated, delivered, granted, branchFresh>>

-----------------------------------------------------------------------------
(* Failure handling. *)

HandleValidationFailure ==
    /\ At("handle_validation_failure")
    /\ error' = [code |-> ValidationErrorCode(result),
                 recoverable |-> IsRecoverableValidationFailure(result)]
    /\ status' = "failed"
    /\ Goto("classify_failure")
    /\ UNCHANGED <<repoVars, planVars, gateVars, approvalVars, retryNode, retries, attempts,
                   escalated, workVars>>

\* Deviation: the failure's class and route are not consulted.
FailureTargetUnclassified ==
    IF attempts + 1 < MaxTotalAttempts /\ retries < MaxRetries
    THEN SelectRetryNode(error, route) ELSE "escalate"

\* Deviation: the budgets are not consulted.
FailureTargetUnbudgeted ==
    IF error.recoverable THEN SelectRetryNode(error, route) ELSE "escalate"

\* The node the latest failure goes back to, or "escalate".
FailureTarget ==
    IF CanRetry(error, result, route, attempts + 1, retries, MaxTotalAttempts, MaxRetries)
    THEN SelectRetryNode(error, route) ELSE "escalate"

ClassifyFailure ==
    /\ At("classify_failure")
    /\ attempts' = attempts + 1
    /\ retryNode' = FailureTarget
    /\ retries' = IF FailureTarget = "escalate" THEN retries ELSE retries + 1
    /\ status' = IF FailureTarget = "escalate" THEN "failed" ELSE "in_progress"
    /\ Goto(FailureTarget)
    /\ UNCHANGED <<repoVars, planVars, gateVars, approvalVars, error, escalated, workVars>>

Escalate ==
    /\ At("escalate")
    /\ status' = "failed"
    /\ escalated' = TRUE
    /\ Goto(Finished)
    /\ UNCHANGED <<repoVars, planVars, gateVars, approvalVars, error, retryNode, retries,
                   attempts, workVars>>

-----------------------------------------------------------------------------
(* Delivery and the move to the next repository. *)

\* Deviation: the repository that was handled stays pending.
RemainingUnfiltered(repo) == pending \cup {repo}

Remaining(repo) == pending \ {repo}

\* Deviation: the decision taken for one repository is kept for the next.
ForgetDecisionsPartly ==
    /\ approvals' = {}
    /\ UNCHANGED feedback

\* Of the decisions taken for a repository none is kept for the next one.
ForgetDecisions ==
    /\ approvals' = {}
    /\ feedback' = Undecided

\* The last repository ends the run and keeps what was recorded about it;
\* with repositories left, everything scoped to the repository is cleared.
RepoContinuation(repo) ==
    LET remaining == Remaining(repo) IN
    /\ pending' = remaining
    /\ completed' = completed \cup {repo}
    /\ stage' = NoStage
    /\ error' = NoError
    /\ retryNode' = "none"
    /\ IF remaining = {}
       THEN /\ status' = "completed"
            /\ UNCHANGED <<current, maven, route, gateVars, feedback, approvals, result,
                           retries, attempts, granted, validated>>
       ELSE /\ status' = "in_progress"
            /\ current' = NoRepo
            /\ maven' = Unknown /\ route' = NoRoute
            /\ allowed' = TRUE /\ needsHuman' = FALSE /\ needsDelivery' = FALSE
            /\ ForgetDecisions
            /\ result' = NoResult
            /\ retries' = 0 /\ attempts' = 0
            /\ granted' = {} /\ validated' = FALSE
    /\ UNCHANGED <<skipped, advisory, escalated>>

DeliveryCodeAfter ==
    [n \in 0 .. 2 |-> CASE n = 0 -> "delivery_branch_publication_failed"
                        [] n = 1 -> "delivery_pull_request_failed"
                        [] OTHER -> "delivery_jira_failed"]

\* Branch, pull request and Jira completion are made in this order, each only
\* when it is not recorded yet.
PublicationSucceeds ==
    /\ RepoContinuation(current)
    /\ delivered' = IF Remaining(current) = {} THEN 3 ELSE 0
    /\ branchFresh' = (Remaining(current) = {} /\ (branchFresh \/ delivered = 0))
    /\ Goto(SelectPostDeliveryNode(Remaining(current)))

\* A DeliveryAdapterError or an HTTP error keeps what was reached.  Only the two
\* HTTP steps can fail recoverably.
PublicationFails ==
    /\ \E reached \in delivered .. 2, recoverable \in BOOLEAN :
        /\ recoverable => reached > 0
        /\ delivered' = reached
        /\ branchFresh' = (branchFresh \/ (delivered = 0 /\ reached > 0))
        /\ error' = [code |-> DeliveryCodeAfter[reached], recoverable |-> recoverable]
    /\ status' = "failed"
    /\ Goto("classify_failure")
    /\ UNCHANGED <<repoVars, planVars, gateVars, approvalVars, retryNode, retries,
                   attempts, escalated, result, granted, validated>>

PublishRemediation ==
    /\ At("publish_remediation")
    /\ PublicationSucceeds \/ PublicationFails

SkipPublishForDryRun ==
    /\ At("skip_publish_for_dry_run")
    /\ RepoContinuation(current)
    /\ delivered' = IF Remaining(current) = {} THEN delivered ELSE 0
    /\ branchFresh' = (branchFresh /\ Remaining(current) = {})
    /\ Goto(SelectPostDeliveryNode(Remaining(current)))

-----------------------------------------------------------------------------
(***************************************************************************)
(* The invocation ends early: a node raises an exception no caller         *)
(* catches, the process is killed, or LangGraph raises GraphRecursionError *)
(* because the supersteps are used up.  The checkpoint keeps the state     *)
(* before the node; a lane may have written files already.                 *)
(***************************************************************************)
InvocationDies ==
    /\ running
    /\ NodesCrash \/ steps = RecursionLimit
    /\ running' = FALSE
    /\ IF next \in RetryLanes /\ steps < RecursionLimit
       THEN EditWorkspace
       ELSE UNCHANGED workVars
    /\ UNCHANGED <<gated, dryRun, next, steps, status, repoVars, planVars, gateVars,
                   approvalVars, failureVars, operatorVars>>

-----------------------------------------------------------------------------
(* The operator at the command line. *)

Command(name) ==
    /\ ~ running
    /\ commands < MaxCommands
    /\ command' = name
    /\ commands' = commands + 1

\* --bootstrap-ticket [--dry-run]: a fresh state over whatever the thread held.
Bootstrap ==
    /\ Command("bootstrap")
    /\ \E dry \in DryRuns : Invoke("bootstrap_state", TRUE, dry)
    /\ ResetState

\* The gate a decision is recorded for: remediation unless delivery is awaited.
DecisionStage == IF stage = "delivery" THEN "delivery" ELSE "remediation"

\* --resume THREAD --approval-decision D: the review node's update is written
\* as if the node had run, its selector picks the next node, and the graph is
\* invoked without interrupt_before.  With no route recorded the selector
\* raises before anything is written.
Decide ==
    /\ Command("decide")
    /\ status # NoThread
    /\ StrayDecisions \/ stage # NoStage
    /\ \E decision \in Decisions, dry \in DryRuns :
        /\ route # NoRoute \/ DecisionStage = "delivery" \/ decision = "rejected"
        /\ ReviewApproval(DecisionStage, decision)
        /\ feedback' = decision
        /\ granted' = IF decision = "approved" THEN granted \cup {DecisionStage} ELSE granted
        /\ Invoke(SelectPostApprovalNode(DecisionStage, decision, route), FALSE, dry)

\* --resume THREAD without a decision: the state is read back and printed.
Resume ==
    /\ Command("resume")
    /\ status # NoThread
    /\ UNCHANGED <<process, status, repoVars, planVars, gateVars, approvalVars, failureVars, workVars>>

\* Where the node that ran last may have been a publication, done or skipped.
MaybeAfterDelivery == next \in {Finished, "detect_maven_profile"}

\* --abort THREAD: the failed status and the error are written; the awaited
\* approval and everything else stay as they were.  update_state asks the
\* selector of the last node again, on the failed status: after a publication
\* it answers classify_failure, which nothing runs; after a skipped one that
\* is no edge of the graph, and the update raises before anything is written.
Abort ==
    /\ Command("abort")
    /\ status # NoThread
    /\ \/ /\ status' = "failed"
          /\ error' = [code |-> "operator_abort", recoverable |-> FALSE]
          /\ \/ UNCHANGED next
             \/ MaybeAfterDelivery /\ next' = "classify_failure"
       \/ dryRun /\ MaybeAfterDelivery /\ UNCHANGED <<status, error, next>>
    /\ UNCHANGED <<running, gated, dryRun, steps, repoVars, planVars, gateVars, approvalVars,
                   retryNode, retries, attempts, escalated, workVars>>

-----------------------------------------------------------------------------
Intake ==
    \/ BootstrapState \/ ProbeCredentials \/ IngestAndParseJira
    \/ LoadRepositoryContext \/ CheckRepositoryIdempotency

Planning ==
    \/ DetectMavenProfile \/ VerifyAdvisory \/ VerifyMavenTarget
    \/ SelectRoute \/ ApplyPolicy

Gates == ReviewRemediationApproval \/ ReviewDeliveryApproval \/ PrepareDeliveryApproval

Lanes ==
    \/ RemediateSimple \/ RemediateTransitive \/ PreflightValidate
    \/ PrepareComplexRemediation \/ ExecuteComplexScaffold \/ ValidateRemediation

Failures == HandleValidationFailure \/ ClassifyFailure \/ Escalate

Delivery == PublishRemediation \/ SkipPublishForDryRun

GraphStep == Intake \/ Planning \/ Gates \/ Lanes \/ Failures \/ Delivery

Operator == Bootstrap \/ Decide \/ Resume \/ Abort

Next == GraphStep \/ InvocationDies \/ Operator

Spec == Init /\ [][Next]_vars

\* graph.invoke runs node after node without waiting for anybody; the
\* operator may never come back.
FairSpec == Spec /\ WF_vars(GraphStep \/ InvocationDies)

-----------------------------------------------------------------------------
(* Safety. *)

\* What is published has passed validation, and a branch pushed by an earlier
\* attempt at publication still carries the edits in the workspace (the
\* retry loop of classify_failure and the reuse of branch_publication).
PublicationIsValidated ==
    running /\ next = "publish_remediation" =>
        /\ validated
        /\ result = Passed
        /\ delivered > 0 => branchFresh

\* A repository whose policy asks for delivery approval is published only on
\* a decision taken for these very edits, never on the decision that let the
\* remediation start or on one given for another repository.
PublicationIsApproved ==
    running /\ next = "publish_remediation" /\ needsDelivery => "delivery" \in granted

\* A lane that needs human approval runs only on a decision taken for the
\* repository in hand: the feedback kept in the state never carries over.
LanesAreApproved ==
    running /\ next \in RetryLanes \cup {"prepare_complex_remediation"} /\ needsHuman =>
        "remediation" \in granted

\* No repository is lost or handled twice over the whole run: after intake
\* each one is pending, completed or skipped, and a completed ticket has none
\* pending.  The repository in hand is the first pending one.
ReposAccounted ==
    /\ pending \cap completed = {} /\ pending \cap skipped = {} /\ completed \cap skipped = {}
    /\ pending \cup completed \cup skipped \in {{}, Repos}
    /\ status = "completed" => pending = {} /\ completed \cup skipped = Repos
    /\ current \in pending => \A other \in pending : current <= other
    /\ current \notin pending \cup {NoRepo} => pending = {}

\* Retries and attempts for one repository stay within the budgets whatever
\* mix of validation and delivery failures occurs, and every attempt but the
\* one that escalates is a retry.
RetryBudget ==
    /\ retries <= MaxRetries
    /\ attempts <= MaxTotalAttempts \/ attempts <= 1
    /\ attempts <= retries + 1

\* A lane is retried only when every failed check of the result that sent the
\* run back is a test failure or a lookup that could not be made.
OnlyRetryableFailuresRetried ==
    [][running /\ next = "classify_failure" /\ next' \in RetryLanes =>
         result \notin {NoResult, Passed} /\
         \A c \in result : c = "unit_tests" \/ IsTransientCheck(c)]_vars

\* The require_state_field and require_state_condition guards of the nodes:
\* no path through the graph reaches a node without the state it requires.
GuardsHold ==
    running =>
        /\ next = "detect_maven_profile" => current # NoRepo \/ pending # {}
        /\ next = "verify_maven_target" => advisory # Unknown /\ current # NoRepo
        /\ next = "select_route" => advisory # Unknown /\ maven # Unknown
        /\ next \in {"remediate_simple", "remediate_transitive", "execute_complex_scaffold"} =>
              LaneOf[route] = next /\ maven # Unknown /\ current # NoRepo
        /\ next = "prepare_complex_remediation" => route = "complex_refactor" /\ maven # Unknown
        /\ next = "handle_validation_failure" => result \notin {NoResult, Passed}
        /\ next \in {"preflight_validate", "validate_remediation", "handle_validation_failure",
                     "publish_remediation", "skip_publish_for_dry_run"} => current # NoRepo

\* The retry loops are short enough for the supersteps of one invocation.
WithinRecursionLimit == running => steps < RecursionLimit

\* README: "--dry-run  Stop before push / PR / Jira write".  Holds as long as
\* every command of the ticket carries --dry-run.
DryRunPublishesNothing == running /\ dryRun => next # "publish_remediation"

\* The repository in hand may be finished: its edits passed validation and the
\* approvals its policy asks for were given for it (delivery approval only
\* when something will be published).
ClearedForFinish ==
    /\ pending # {}
    /\ validated
    /\ needsHuman => "remediation" \in granted
    /\ needsDelivery /\ ~ dryRun => "delivery" \in granted

\* The workflow keeps the ledger's promise, whatever node dies and whatever
\* gate the operator is asked at.
Ledger == INSTANCE TicketLedger WITH
    todo <- pending, finished <- completed, excluded <- skipped,
    cleared <- ClearedForFinish

ImplementsLedger == Ledger!LedgerSpec

(* Liveness. *)

Settled ==
    ~ running /\ \/ status \in {"completed", "failed"}
                 \/ stage # NoStage
                 \/ route = "unknown"

\* Every invocation comes to rest in a state that asks for something: the
\* ticket is completed, failed, awaiting a decision, or has no trusted target.
InvocationSettles == running ~> Settled

-----------------------------------------------------------------------------
(* What the documentation says. *)

Interrupted ==
    ~ running /\ next # Finished /\ stage = NoStage
    /\ status \notin {"failed", "completed", NoThread}

\* README: "Every step is checkpointed to SQLite so any run can be resumed";
\* the hint of --status for such a thread: "resume run with --resume to
\* continue across N pending repo(s)".
ResumeContinues ==
    [][Interrupted /\ command' = "resume" /\ commands' # commands => running']_vars

=============================================================================
