------------------------- MODULE RemediationSafety -------------------------
(* Types and safety of the remediation workflow, for every ticket size,    *)
(* budget, policy, environment and operator, also one who decides when no  *)
(* decision is awaited: every step keeps the types, lanes run only on a    *)
(* decision for the repository in hand, only retryable failures are        *)
(* retried, and no repository is lost or handled twice.                    *)
EXTENDS RemediationGraph, FiniteSetTheorems, TLAPS

-----------------------------------------------------------------------------
(* Types. *)

(* A group of variables that a step leaves alone keeps its type. *)
LEMMA GroupsUnchanged ==
    /\ ProcessOK /\ UNCHANGED process => ProcessOK'
    /\ StatusOK /\ UNCHANGED status => StatusOK'
    /\ ReposOK /\ UNCHANGED repoVars => ReposOK'
    /\ PlanOK /\ UNCHANGED planVars => PlanOK'
    /\ GatesOK /\ UNCHANGED gateVars => GatesOK'
    /\ ApprovalsOK /\ UNCHANGED approvalVars => ApprovalsOK'
    /\ FailuresOK /\ UNCHANGED failureVars => FailuresOK'
    /\ WorkOK /\ UNCHANGED workVars => WorkOK'
    /\ OperatorOK /\ UNCHANGED operatorVars => OperatorOK'
<1>1. ProcessOK /\ UNCHANGED process => ProcessOK'
  BY DEF ProcessOK, process
<1>2. StatusOK /\ UNCHANGED status => StatusOK'
  BY DEF StatusOK
<1>3. ReposOK /\ UNCHANGED repoVars => ReposOK'
  BY DEF ReposOK, repoVars
<1>4. PlanOK /\ UNCHANGED planVars => PlanOK'
  BY DEF PlanOK, planVars
<1>5. GatesOK /\ UNCHANGED gateVars => GatesOK'
  BY DEF GatesOK, gateVars
<1>6. ApprovalsOK /\ UNCHANGED approvalVars => ApprovalsOK'
  BY DEF ApprovalsOK, approvalVars
<1>7. FailuresOK /\ UNCHANGED failureVars => FailuresOK'
  BY DEF FailuresOK, failureVars
<1>8. WorkOK /\ UNCHANGED workVars => WorkOK'
  BY DEF WorkOK, workVars
<1>9. OperatorOK /\ UNCHANGED operatorVars => OperatorOK'
  BY DEF OperatorOK, operatorVars
<1> QED
  BY <1>1, <1>2, <1>3, <1>4, <1>5, <1>6, <1>7, <1>8, <1>9

Targets == Nodes \cup {Finished}

(* A superstep that leads to a node of the graph keeps the process typed. *)
LEMMA GotoKeepsType ==
    ASSUME ProcessOK, OperatorOK, NEW here, At(here), NEW node \in Targets, Goto(node)
    PROVE  ProcessOK' /\ OperatorOK'
<1>1. OperatorOK'
  BY GroupsUnchanged DEF Goto, operatorVars
<1>2. running' \in BOOLEAN /\ gated' \in BOOLEAN /\ dryRun' \in BOOLEAN
  BY DEF Goto, ProcessOK
<1>3. next' \in Targets
  BY DEF Goto
<1>4. steps' \in 0 .. RecursionLimit
  BY BudgetAssumption DEF Goto, At, ProcessOK, BudgetAssumption
<1> QED
  BY <1>1, <1>2, <1>3, <1>4 DEF ProcessOK, Targets

(* Every selector names a node of the graph, or the end. *)
LEMMA SelectorsNameNodes ==
    /\ \A strategy : SelectRemediationNode(strategy) \in Targets
    /\ \A isAllowed, human, strategy : SelectPostPolicyNode(isAllowed, human, strategy) \in Targets
    /\ \A reviewed, decision, strategy :
          SelectPostApprovalNode(reviewed, decision, strategy) \in Targets
    /\ \A failed : SelectPostValidationNode(failed) \in Targets
    /\ \A remaining : SelectPostDeliveryNode(remaining) \in Targets
<1> USE DEF Targets, Nodes, ReviewNodes, Finished
<1>1. \A strategy : SelectRemediationNode(strategy) \in Targets
  BY DEF SelectRemediationNode
<1>2. \A isAllowed, human, strategy : SelectPostPolicyNode(isAllowed, human, strategy) \in Targets
  BY <1>1 DEF SelectPostPolicyNode
<1>3. \A reviewed, decision, strategy :
          SelectPostApprovalNode(reviewed, decision, strategy) \in Targets
  BY <1>1 DEF SelectPostApprovalNode
<1>4. \A failed : SelectPostValidationNode(failed) \in Targets
  BY DEF SelectPostValidationNode
<1>5. \A remaining : SelectPostDeliveryNode(remaining) \in Targets
  BY DEF SelectPostDeliveryNode
<1> QED
  BY <1>1, <1>2, <1>3, <1>4, <1>5

-----------------------------------------------------------------------------
(* The error code of a failed validation is one of the validation codes,   *)
(* whichever of its failed checks comes first.                             *)
LEMMA FirstIsMember ==
    ASSUME NEW failed \in SUBSET Checks, failed # {}
    PROVE  First(failed) \in failed
<1> DEFINE Position(c) == CheckOrder[c]
<1>1. \A c \in failed : Position(c) \in 1 .. 4
  BY DEF Checks, CheckOrder
<1>2. \E c \in failed : \A d \in failed : Position(c) <= Position(d)
  <2>1. CASE \E c \in failed : Position(c) = 1
    BY <1>1, <2>1
  <2>2. CASE (\A c \in failed : Position(c) # 1) /\ \E c \in failed : Position(c) = 2
    BY <1>1, <2>2
  <2>3. CASE (\A c \in failed : Position(c) \notin {1, 2}) /\ \E c \in failed : Position(c) = 3
    BY <1>1, <2>3
  <2>4. CASE \A c \in failed : Position(c) \notin {1, 2, 3}
    BY <1>1, <2>4
  <2> QED
    BY <2>1, <2>2, <2>3, <2>4
<1> QED
  BY <1>2 DEF First

LEMMA ValidationErrorCodeType ==
    ASSUME NEW failed \in ValidationResults
    PROVE  ValidationErrorCode(failed) \in ErrorCodes
<1>1. CASE failed = Passed
  BY <1>1 DEF ValidationErrorCode, ErrorCodes, ValidationCodes
<1>2. CASE failed # Passed
  <2>1. First(failed) \in Checks
    BY <1>2, FirstIsMember DEF ValidationResults, Passed
  <2>2. ValidationErrorCode(failed) = ValidationCodeOf[First(failed)]
    BY <1>2 DEF ValidationErrorCode
  <2> QED
    BY <2>1, <2>2 DEF ErrorCodes, ValidationCodes
<1> QED
  BY <1>1, <1>2

(* A retry goes back to a lane or to publication, and never for nothing. *)
LEMMA FailureTargetType ==
    ASSUME TypeOK
    PROVE  /\ FailureTarget \in RetryLanes \cup {"publish_remediation", "escalate"}
           /\ FailureTarget # "escalate" => retries < MaxRetries
<1>1. CASE FailureTarget = "escalate"
  BY <1>1
<1>2. CASE FailureTarget # "escalate"
  <2>1. /\ CanRetry(error, result, route, attempts + 1, retries, MaxTotalAttempts, MaxRetries)
        /\ FailureTarget = SelectRetryNode(error, route)
    BY <1>2 DEF FailureTarget
  <2>2. SelectRetryNode(error, route) # "none" /\ retries < MaxRetries
    BY <2>1 DEF CanRetry
  <2>3. route \in Strategies \cup {NoRoute}
    BY DEF TypeOK, PlanOK
  <2>4. SelectRetryNode(error, route) \in RetryLanes \cup {"publish_remediation", "none"}
    BY <2>3 DEF SelectRetryNode, LaneOf, RetryLanes, Strategies, NoRoute
  <2> QED
    BY <2>1, <2>2, <2>4
<1> QED
  BY <1>1, <1>2

-----------------------------------------------------------------------------
(* The types alone are not inductive: a failure must be handled with a     *)
(* result in hand, or its code would have no type, and the move to the     *)
(* next repository with a repository in hand.                              *)

\* The nodes that work on the repository in hand.
HandNodes ==
    {"verify_advisory", "verify_maven_target", "select_route", "apply_policy",
     "prepare_delivery_approval", "prepare_complex_remediation", "preflight_validate",
     "validate_remediation", "handle_validation_failure", "skip_publish_for_dry_run",
     "publish_remediation"} \cup RetryLanes \cup ReviewNodes

ResultInHand == running /\ next = "handle_validation_failure" => result \notin {NoResult, Passed}

RepoInHand ==
    /\ running /\ next \in HandNodes => current # NoRepo
    /\ running /\ next = "classify_failure" /\ error.code \in DeliveryCodes => current # NoRepo
    /\ route # NoRoute \/ stage # NoStage => current # NoRepo

InHand == ResultInHand /\ RepoInHand

TypeInv == TypeOK /\ InHand

-----------------------------------------------------------------------------
(* One lemma per group of actions of Next. *)

LEMMA IntakeKeepsType == TypeOK /\ Intake => TypeOK'
<1> SUFFICES ASSUME TypeOK, Intake PROVE TypeOK'
  OBVIOUS
<1> USE DEF TypeOK
<1>1. CASE BootstrapState
  <2>1. ProcessOK' /\ OperatorOK'
    BY <1>1, GotoKeepsType DEF BootstrapState, Targets, Nodes
  <2>2. StatusOK'
    BY <1>1 DEF BootstrapState, StatusOK, Statuses
  <2> QED
    BY <1>1, <2>1, <2>2, GroupsUnchanged DEF BootstrapState
<1>2. CASE ProbeCredentials
  <2>1. ProcessOK' /\ OperatorOK'
    BY <1>2, GotoKeepsType DEF ProbeCredentials, Targets, Nodes
  <2> QED
    BY <1>2, <2>1, GroupsUnchanged DEF ProbeCredentials
<1>3. CASE IngestAndParseJira
  <2>1. ProcessOK' /\ OperatorOK'
    BY <1>3, GotoKeepsType DEF IngestAndParseJira, Targets, Nodes
  <2>2. StatusOK'
    BY <1>3 DEF IngestAndParseJira, StatusOK, Statuses
  <2> QED
    BY <1>3, <2>1, <2>2, GroupsUnchanged DEF IngestAndParseJira
<1>4. CASE LoadRepositoryContext
  <2>1. ProcessOK' /\ OperatorOK'
    BY <1>4, GotoKeepsType DEF LoadRepositoryContext, Targets, Nodes
  <2> QED
    BY <1>4, <2>1, GroupsUnchanged DEF LoadRepositoryContext
<1>5. CASE CheckRepositoryIdempotency
  <2> PICK published \in SUBSET Repos :
        /\ skipped' = skipped \cup published
        /\ pending' = Repos \ published
        /\ status' = IF published = Repos THEN "completed" ELSE status
        /\ Goto(IF published = Repos THEN Finished ELSE "detect_maven_profile")
    BY <1>5 DEF CheckRepositoryIdempotency
  <2>1. ProcessOK' /\ OperatorOK'
    BY <1>5, GotoKeepsType DEF CheckRepositoryIdempotency, Targets, Nodes
  <2>2. StatusOK'
    BY DEF StatusOK, Statuses
  <2>3. ReposOK'
    BY <1>5 DEF ReposOK, CheckRepositoryIdempotency
  <2> QED
    BY <1>5, <2>1, <2>2, <2>3, GroupsUnchanged DEF CheckRepositoryIdempotency
<1> QED
  BY <1>1, <1>2, <1>3, <1>4, <1>5 DEF Intake

LEMMA PlanningKeepsType == TypeOK /\ Planning => TypeOK'
<1> SUFFICES ASSUME TypeOK, Planning PROVE TypeOK'
  OBVIOUS
<1> USE DEF TypeOK
<1>1. CASE DetectMavenProfile
  <2>1. ProcessOK' /\ OperatorOK'
    BY <1>1, GotoKeepsType DEF DetectMavenProfile, Targets, Nodes
  <2>2. ReposOK'
    BY <1>1 DEF DetectMavenProfile, ReposOK
  <2> QED
    BY <1>1, <2>1, <2>2, GroupsUnchanged DEF DetectMavenProfile
<1>2. CASE VerifyAdvisory
  <2>1. ProcessOK' /\ OperatorOK'
    BY <1>2, GotoKeepsType DEF VerifyAdvisory, Targets, Nodes
  <2>2. PlanOK'
    BY <1>2 DEF VerifyAdvisory, PlanOK
  <2> QED
    BY <1>2, <2>1, <2>2, GroupsUnchanged DEF VerifyAdvisory
<1>3. CASE VerifyMavenTarget
  <2>1. ProcessOK' /\ OperatorOK'
    BY <1>3, GotoKeepsType DEF VerifyMavenTarget, Targets, Nodes
  <2>2. PlanOK'
    BY <1>3, EnvironmentAssumption DEF VerifyMavenTarget, PlanOK, EnvironmentAssumption
  <2> QED
    BY <1>3, <2>1, <2>2, GroupsUnchanged DEF VerifyMavenTarget
<1>4. CASE SelectRoute
  <2>1. ProcessOK' /\ OperatorOK'
    BY <1>4, GotoKeepsType DEF SelectRoute, Targets, Nodes
  <2>2. StatusOK'
    BY <1>4 DEF SelectRoute, StatusOK, Statuses
  <2>3. PlanOK'
    BY <1>4 DEF SelectRoute, PlanOK, RouteDecision, Strategies
  <2>4. GatesOK'
    BY <1>4 DEF SelectRoute, GatesOK, RouteNeedsHuman
  <2> QED
    BY <1>4, <2>1, <2>2, <2>3, <2>4, GroupsUnchanged DEF SelectRoute
<1>5. CASE ApplyPolicy
  <2> PICK tags \in PolicyTags :
        /\ allowed' = (tags # "blocked")
        /\ needsHuman' = PolicyNeedsHuman(tags)
        /\ needsDelivery' = PolicyNeedsDelivery(tags)
        /\ stage' = IF PolicyNeedsHuman(tags) THEN "remediation" ELSE stage
        /\ error' = IF tags = "blocked"
                    THEN [code |-> "policy_blocked", recoverable |-> FALSE] ELSE error
        /\ status' = CASE tags = "blocked" -> "failed"
                       [] tags # "blocked" /\ PolicyNeedsHuman(tags) -> "pending"
                       [] OTHER -> status
        /\ Goto(SelectPostPolicyNode(tags # "blocked", PolicyNeedsHuman(tags), route))
    BY <1>5 DEF ApplyPolicy
  <2>1. ProcessOK' /\ OperatorOK'
    BY <1>5, GotoKeepsType, SelectorsNameNodes DEF ApplyPolicy
  <2>2. StatusOK'
    BY DEF StatusOK, Statuses
  <2>3. PolicyNeedsHuman(tags) \in BOOLEAN /\ PolicyNeedsDelivery(tags) \in BOOLEAN
    BY DEF PolicyNeedsHuman, PolicyNeedsDelivery
  <2>4. GatesOK'
    BY <2>3 DEF GatesOK
  <2>5. ApprovalsOK'
    BY <1>5 DEF ApplyPolicy, ApprovalsOK, Stages
  <2>6. FailuresOK'
    BY <1>5 DEF ApplyPolicy, FailuresOK, WorkflowErrors, ErrorCodes, PolicyCodes
  <2> QED
    BY <1>5, <2>1, <2>2, <2>4, <2>5, <2>6, GroupsUnchanged DEF ApplyPolicy
<1> QED
  BY <1>1, <1>2, <1>3, <1>4, <1>5 DEF Planning

(* What a review node writes for a decision it may find. *)
LEMMA ReviewKeepsType ==
    ASSUME TypeOK, NEW reviewed \in Stages, NEW decision \in Decisions \cup {Undecided},
           ReviewApproval(reviewed, decision)
    PROVE  /\ StatusOK' /\ ReposOK' /\ PlanOK' /\ GatesOK' /\ FailuresOK'
           /\ stage' \in Stages \cup {NoStage} /\ approvals' \subseteq Stages
           /\ UNCHANGED <<result, delivered, validated, branchFresh>>
<1> USE DEF TypeOK
<1>1. StatusOK'
  BY DEF ReviewApproval, StatusOK, Statuses, Decisions, Undecided
<1>2. ReposOK' /\ PlanOK' /\ GatesOK'
  BY GroupsUnchanged DEF ReviewApproval
<1>3. FailuresOK'
  BY DEF ReviewApproval, FailuresOK, WorkflowErrors, ErrorCodes, PolicyCodes
<1>4. stage' \in Stages \cup {NoStage} /\ approvals' \subseteq Stages
  BY DEF ReviewApproval, ApprovalsOK
<1> QED
  BY <1>1, <1>2, <1>3, <1>4 DEF ReviewApproval

LEMMA GatesKeepType == TypeOK /\ Gates => TypeOK'
<1> SUFFICES ASSUME TypeOK, Gates PROVE TypeOK'
  OBVIOUS
<1> USE DEF TypeOK
<1>1. feedback \in Decisions \cup {Undecided}
  BY DEF ApprovalsOK
<1>2. CASE ReviewRemediationApproval
  <2>1. ProcessOK' /\ OperatorOK'
    BY <1>2, GotoKeepsType, SelectorsNameNodes DEF ReviewRemediationApproval
  <2>2. /\ StatusOK' /\ ReposOK' /\ PlanOK' /\ GatesOK' /\ FailuresOK'
        /\ stage' \in Stages \cup {NoStage} /\ approvals' \subseteq Stages
        /\ UNCHANGED <<result, delivered, validated, branchFresh>>
    BY <1>1, <1>2, ReviewKeepsType DEF ReviewRemediationApproval, Stages
  <2> QED
    BY <1>2, <2>1, <2>2 DEF ReviewRemediationApproval, ApprovalsOK, WorkOK
<1>3. CASE ReviewDeliveryApproval
  <2>1. ProcessOK' /\ OperatorOK'
    BY <1>3, GotoKeepsType, SelectorsNameNodes DEF ReviewDeliveryApproval
  <2>2. /\ StatusOK' /\ ReposOK' /\ PlanOK' /\ GatesOK' /\ FailuresOK'
        /\ stage' \in Stages \cup {NoStage} /\ approvals' \subseteq Stages
        /\ UNCHANGED <<result, delivered, validated, branchFresh>>
    BY <1>1, <1>3, ReviewKeepsType DEF ReviewDeliveryApproval, Stages
  <2> QED
    BY <1>3, <2>1, <2>2 DEF ReviewDeliveryApproval, ApprovalsOK, WorkOK
<1>4. CASE PrepareDeliveryApproval
  <2>1. ProcessOK' /\ OperatorOK'
    BY <1>4, GotoKeepsType DEF PrepareDeliveryApproval, Targets, Nodes, ReviewNodes
  <2>2. StatusOK'
    BY <1>4 DEF PrepareDeliveryApproval, StatusOK, Statuses
  <2>3. ApprovalsOK'
    BY <1>4 DEF PrepareDeliveryApproval, ApprovalsOK, Stages
  <2> QED
    BY <1>4, <2>1, <2>2, <2>3, GroupsUnchanged DEF PrepareDeliveryApproval
<1> QED
  BY <1>2, <1>3, <1>4 DEF Gates

LEMMA EditKeepsType == WorkOK /\ EditWorkspace => WorkOK'
BY DEF WorkOK, EditWorkspace

LEMMA LanesKeepType == TypeOK /\ Lanes => TypeOK'
<1> SUFFICES ASSUME TypeOK, Lanes PROVE TypeOK'
  OBVIOUS
<1> USE DEF TypeOK
<1>1. CASE RemediateSimple
  <2>1. ProcessOK' /\ OperatorOK'
    BY <1>1, GotoKeepsType DEF RemediateSimple, Targets, Nodes
  <2> QED
    BY <1>1, <2>1, EditKeepsType, GroupsUnchanged DEF RemediateSimple
<1>2. CASE RemediateTransitive
  <2>1. ProcessOK' /\ OperatorOK'
    BY <1>2, GotoKeepsType DEF RemediateTransitive, Targets, Nodes
  <2> QED
    BY <1>2, <2>1, EditKeepsType, GroupsUnchanged DEF RemediateTransitive
<1>3. CASE PreflightValidate
  <2>1. ProcessOK' /\ OperatorOK'
    BY <1>3, GotoKeepsType DEF PreflightValidate, Targets, Nodes
  <2> QED
    BY <1>3, <2>1, GroupsUnchanged DEF PreflightValidate
<1>4. CASE PrepareComplexRemediation
  <2>1. ProcessOK' /\ OperatorOK'
    BY <1>4, GotoKeepsType DEF PrepareComplexRemediation, Targets, Nodes
  <2> QED
    BY <1>4, <2>1, GroupsUnchanged DEF PrepareComplexRemediation
<1>5. CASE ExecuteComplexScaffold
  <2>1. ProcessOK' /\ OperatorOK'
    BY <1>5, GotoKeepsType DEF ExecuteComplexScaffold, Targets, Nodes
  <2> QED
    BY <1>5, <2>1, EditKeepsType, GroupsUnchanged DEF ExecuteComplexScaffold
<1>6. CASE ValidateRemediation
  <2> PICK failed \in CheckResults :
        /\ result' = failed
        /\ validated' = (failed = Passed)
        /\ status' = IF failed = Passed THEN "in_progress" ELSE "failed"
        /\ retryNode' = IF failed = Passed THEN "none" ELSE retryNode
        /\ Goto(SelectPostValidationNode(failed))
    BY <1>6 DEF ValidateRemediation
  <2>1. ProcessOK' /\ OperatorOK'
    BY <1>6, GotoKeepsType, SelectorsNameNodes DEF ValidateRemediation
  <2>2. StatusOK'
    BY DEF StatusOK, Statuses
  <2>3. FailuresOK'
    BY <1>6 DEF FailuresOK, ValidateRemediation
  <2>4. WorkOK'
    BY <1>6, EnvironmentAssumption DEF WorkOK, ValidateRemediation, EnvironmentAssumption
  <2> QED
    BY <1>6, <2>1, <2>2, <2>3, <2>4, GroupsUnchanged DEF ValidateRemediation
<1> QED
  BY <1>1, <1>2, <1>3, <1>4, <1>5, <1>6 DEF Lanes

LEMMA FailuresKeepType == TypeOK /\ ResultInHand /\ Failures => TypeOK'
<1> SUFFICES ASSUME TypeOK, ResultInHand, Failures PROVE TypeOK'
  OBVIOUS
<1> USE DEF TypeOK
<1>1. CASE HandleValidationFailure
  <2>1. ProcessOK' /\ OperatorOK'
    BY <1>1, GotoKeepsType DEF HandleValidationFailure, Targets, Nodes
  <2>2. StatusOK'
    BY <1>1 DEF HandleValidationFailure, StatusOK, Statuses
  <2>3. result \in ValidationResults
    BY <1>1 DEF HandleValidationFailure, At, ResultInHand, WorkOK
  <2>4. error' \in WorkflowErrors
    BY <1>1, <2>3, ValidationErrorCodeType
       DEF HandleValidationFailure, WorkflowErrors, IsRecoverableValidationFailure
  <2>5. FailuresOK'
    BY <1>1, <2>4 DEF HandleValidationFailure, FailuresOK
  <2> QED
    BY <1>1, <2>1, <2>2, <2>5, GroupsUnchanged DEF HandleValidationFailure
<1>2. CASE ClassifyFailure
  <2>1. FailureTarget \in Targets
    BY FailureTargetType DEF Targets, Nodes, RetryLanes
  <2>2. ProcessOK' /\ OperatorOK'
    BY <1>2, <2>1, GotoKeepsType DEF ClassifyFailure
  <2>3. StatusOK'
    BY <1>2 DEF ClassifyFailure, StatusOK, Statuses
  <2>4. retryNode' \in RetryLanes \cup {"publish_remediation", "escalate", "none"}
    BY <1>2, FailureTargetType DEF ClassifyFailure
  <2>5. retries' \in 0 .. MaxRetries
    BY <1>2, FailureTargetType, BudgetAssumption DEF ClassifyFailure, FailuresOK, BudgetAssumption
  <2>6. FailuresOK'
    BY <1>2, <2>4, <2>5 DEF ClassifyFailure, FailuresOK
  <2> QED
    BY <1>2, <2>2, <2>3, <2>6, GroupsUnchanged DEF ClassifyFailure
<1>3. CASE Escalate
  <2>1. ProcessOK' /\ OperatorOK'
    BY <1>3, GotoKeepsType DEF Escalate, Targets
  <2>2. StatusOK'
    BY <1>3 DEF Escalate, StatusOK, Statuses
  <2>3. FailuresOK'
    BY <1>3 DEF Escalate, FailuresOK
  <2> QED
    BY <1>3, <2>1, <2>2, <2>3, GroupsUnchanged DEF Escalate
<1> QED
  BY <1>1, <1>2, <1>3 DEF Failures

(* What the move to the next repository writes. *)
LEMMA ContinuationKeepsType ==
    ASSUME TypeOK, RepoContinuation(current)
    PROVE  /\ StatusOK' /\ PlanOK' /\ GatesOK' /\ ApprovalsOK' /\ FailuresOK'
           /\ result' \in ValidationResults \cup {NoResult}
           /\ granted' \subseteq Stages /\ validated' \in BOOLEAN
<1> USE DEF TypeOK, RepoContinuation, ForgetDecisions
<1>1. StatusOK'
  BY DEF StatusOK, Statuses
<1>2. PlanOK'
  BY DEF PlanOK
<1>3. GatesOK'
  BY DEF GatesOK, gateVars
<1>4. ApprovalsOK'
  BY DEF ApprovalsOK
<1>5. FailuresOK'
  BY BudgetAssumption DEF FailuresOK, NoError, WorkflowErrors, ErrorCodes, BudgetAssumption
<1>6. result' \in ValidationResults \cup {NoResult} /\ granted' \subseteq Stages
      /\ validated' \in BOOLEAN
  BY DEF WorkOK
<1> QED
  BY <1>1, <1>2, <1>3, <1>4, <1>5, <1>6

LEMMA ContinuationKeepsReposType ==
    ASSUME TypeOK, RepoContinuation(current), current # NoRepo
    PROVE  ReposOK'
BY DEF TypeOK, ReposOK, RepoContinuation, Remaining

LEMMA DeliveryKeepsType == TypeOK /\ RepoInHand /\ Delivery => TypeOK'
<1> SUFFICES ASSUME TypeOK, RepoInHand, Delivery PROVE TypeOK'
  OBVIOUS
<1>1. CASE SkipPublishForDryRun
  <2>1. ProcessOK' /\ OperatorOK'
    BY <1>1, GotoKeepsType, SelectorsNameNodes DEF SkipPublishForDryRun, TypeOK
  <2>2. ReposOK'
    BY <1>1, ContinuationKeepsReposType DEF SkipPublishForDryRun, RepoInHand, HandNodes, At
  <2>3. delivered' \in 0 .. 3 /\ branchFresh' \in BOOLEAN
    BY <1>1 DEF SkipPublishForDryRun, TypeOK, WorkOK
  <2> QED
    BY <1>1, <2>1, <2>2, <2>3, ContinuationKeepsType DEF SkipPublishForDryRun, TypeOK, WorkOK
<1>2. CASE At("publish_remediation") /\ PublicationSucceeds
  <2>1. ProcessOK' /\ OperatorOK'
    BY <1>2, GotoKeepsType, SelectorsNameNodes DEF PublicationSucceeds, TypeOK
  <2>2. ReposOK'
    BY <1>2, ContinuationKeepsReposType DEF PublicationSucceeds, RepoInHand, HandNodes, At
  <2>3. delivered' \in 0 .. 3 /\ branchFresh' \in BOOLEAN
    BY <1>2 DEF PublicationSucceeds, TypeOK, WorkOK
  <2> QED
    BY <1>2, <2>1, <2>2, <2>3, ContinuationKeepsType DEF PublicationSucceeds, TypeOK, WorkOK
<1>3. CASE At("publish_remediation") /\ PublicationFails
  <2> USE DEF TypeOK
  <2> PICK reached \in delivered .. 2, recoverable \in BOOLEAN :
        /\ delivered' = reached
        /\ branchFresh' = (branchFresh \/ (delivered = 0 /\ reached > 0))
        /\ error' = [code |-> DeliveryCodeAfter[reached], recoverable |-> recoverable]
    BY <1>3 DEF PublicationFails
  <2>1. ProcessOK' /\ OperatorOK'
    BY <1>3, GotoKeepsType DEF PublicationFails, Targets, Nodes
  <2>2. StatusOK'
    BY <1>3 DEF PublicationFails, StatusOK, Statuses
  <2>3. reached \in 0 .. 2
    BY DEF WorkOK
  <2>4. DeliveryCodeAfter[reached] \in ErrorCodes
    BY <2>3 DEF DeliveryCodeAfter, ErrorCodes, DeliveryCodes
  <2>5. FailuresOK'
    BY <1>3, <2>4 DEF PublicationFails, FailuresOK, WorkflowErrors
  <2>6. WorkOK'
    BY <1>3, <2>3 DEF PublicationFails, WorkOK
  <2> QED
    BY <1>3, <2>1, <2>2, <2>5, <2>6, GroupsUnchanged DEF PublicationFails
<1> QED
  BY <1>1, <1>2, <1>3 DEF Delivery, PublishRemediation

LEMMA DeathKeepsType == TypeOK /\ InvocationDies => TypeOK'
<1> SUFFICES ASSUME TypeOK, InvocationDies PROVE TypeOK'
  OBVIOUS
<1> USE DEF TypeOK
<1>1. ProcessOK'
  BY DEF InvocationDies, ProcessOK
<1>2. WorkOK'
  BY EditKeepsType, GroupsUnchanged DEF InvocationDies
<1> QED
  BY <1>1, <1>2, GroupsUnchanged DEF InvocationDies

LEMMA ResetHasType ==
    ASSUME ResetState
    PROVE  StatusOK' /\ ReposOK' /\ PlanOK' /\ GatesOK' /\ ApprovalsOK' /\ WorkOK' /\ FailuresOK'
<1>1. StatusOK' /\ ReposOK' /\ PlanOK'
  BY DEF ResetState, StatusOK, Statuses, ReposOK, PlanOK
<1>2. GatesOK'
  BY DEF ResetState, GatesOK
<1>3. ApprovalsOK'
  BY DEF ResetState, ApprovalsOK
<1>4. WorkOK'
  <2>1. result' \in ValidationResults \cup {NoResult}
    BY DEF ResetState
  <2>2. delivered' \in 0 .. 3
    BY DEF ResetState
  <2>3. granted' \subseteq Stages
    BY DEF ResetState
  <2>4. validated' \in BOOLEAN /\ branchFresh' \in BOOLEAN
    BY DEF ResetState
  <2> QED
    BY <2>1, <2>2, <2>3, <2>4 DEF WorkOK
<1>5. NoError \in WorkflowErrors
  BY DEF NoError, WorkflowErrors, ErrorCodes
<1>6. FailuresOK'
  <2>1. error' \in WorkflowErrors
    BY <1>5 DEF ResetState
  <2>2. retries' \in 0 .. MaxRetries /\ attempts' \in Nat
    BY BudgetAssumption DEF ResetState, BudgetAssumption
  <2>3. retryNode' = "none" /\ escalated' \in BOOLEAN
    BY DEF ResetState
  <2> QED
    BY <2>1, <2>2, <2>3 DEF FailuresOK
<1> QED
  BY <1>1, <1>2, <1>3, <1>4, <1>6

LEMMA OperatorKeepsType == TypeOK /\ Operator => TypeOK'
<1> SUFFICES ASSUME TypeOK, Operator PROVE TypeOK'
  OBVIOUS
<1> USE DEF TypeOK
<1>1. \A name \in {"bootstrap", "decide", "resume", "abort"} : Command(name) => OperatorOK'
  BY BudgetAssumption DEF Command, OperatorOK, BudgetAssumption
<1>2. ASSUME NEW node \in Targets, NEW interrupting \in BOOLEAN, NEW dry \in DryRuns,
             Invoke(node, interrupting, dry)
      PROVE  ProcessOK'
  BY <1>2, BudgetAssumption, EnvironmentAssumption
     DEF Invoke, ProcessOK, Targets, BudgetAssumption, EnvironmentAssumption
<1>3. CASE Bootstrap
  <2>1. OperatorOK'
    BY <1>1, <1>3 DEF Bootstrap
  <2>2. ProcessOK'
    BY <1>2, <1>3 DEF Bootstrap, Targets, Nodes
  <2> QED
    BY <1>3, <2>1, <2>2, ResetHasType DEF Bootstrap
<1>4. CASE Decide
  <2>1. OperatorOK'
    BY <1>1, <1>4 DEF Decide
  <2> PICK decision \in Decisions, dry \in DryRuns :
        /\ ReviewApproval(DecisionStage, decision)
        /\ feedback' = decision
        /\ granted' = IF decision = "approved" THEN granted \cup {DecisionStage} ELSE granted
        /\ Invoke(SelectPostApprovalNode(DecisionStage, decision, route), FALSE, dry)
    BY <1>4 DEF Decide
  <2>2. DecisionStage \in Stages
    BY DEF DecisionStage, Stages
  <2>3. ProcessOK'
    BY <1>2, SelectorsNameNodes
  <2>4. /\ StatusOK' /\ ReposOK' /\ PlanOK' /\ GatesOK' /\ FailuresOK'
        /\ stage' \in Stages \cup {NoStage} /\ approvals' \subseteq Stages
        /\ UNCHANGED <<result, delivered, validated, branchFresh>>
    BY <2>2, ReviewKeepsType
  <2>5. ApprovalsOK' /\ WorkOK'
    BY <2>2, <2>4 DEF ApprovalsOK, WorkOK
  <2> QED
    BY <2>1, <2>3, <2>4, <2>5
<1>5. CASE Resume
  <2>1. OperatorOK'
    BY <1>1, <1>5 DEF Resume
  <2> QED
    BY <1>5, <2>1, GroupsUnchanged DEF Resume
<1>6. CASE Abort
  <2>1. OperatorOK'
    BY <1>1, <1>6 DEF Abort
  <2>2. StatusOK'
    BY <1>6 DEF Abort, StatusOK, Statuses
  <2>3. FailuresOK'
    <3>1. [code |-> "operator_abort", recoverable |-> FALSE] \in WorkflowErrors
      BY DEF WorkflowErrors, ErrorCodes
    <3>2. error' \in WorkflowErrors
      BY <1>6, <3>1 DEF Abort, FailuresOK
    <3> QED
      BY <1>6, <3>2 DEF Abort, FailuresOK
  <2>4. ProcessOK'
    BY <1>6 DEF Abort, ProcessOK, Nodes
  <2> QED
    BY <1>6, <2>1, <2>2, <2>3, <2>4, GroupsUnchanged DEF Abort
<1> QED
  BY <1>3, <1>4, <1>5, <1>6 DEF Operator

-----------------------------------------------------------------------------
(* What is in hand stays in hand. *)

LEMMA IntakeKeepsHand == TypeInv /\ Intake => InHand'
BY DEF TypeInv, InHand, Intake, ResultInHand, RepoInHand, HandNodes, RetryLanes, ReviewNodes,
       BootstrapState, ProbeCredentials, IngestAndParseJira, LoadRepositoryContext,
       CheckRepositoryIdempotency, At, Goto, Finished, repoVars, planVars, approvalVars,
       failureVars, workVars, DeliveryCodes

LEMMA PlanningKeepsHand == TypeInv /\ Planning => InHand'
<1> SUFFICES ASSUME TypeInv, Planning PROVE InHand'
  OBVIOUS
<1> USE DEF TypeInv, InHand, ResultInHand, RepoInHand, HandNodes, RetryLanes, ReviewNodes, At, Goto,
            Finished
<1>1. CASE DetectMavenProfile
  BY <1>1 DEF DetectMavenProfile, Repos, NoRepo, planVars, approvalVars, failureVars, workVars
<1>2. CASE VerifyAdvisory
  BY <1>2 DEF VerifyAdvisory, repoVars, approvalVars, failureVars, workVars
<1>3. CASE VerifyMavenTarget
  BY <1>3 DEF VerifyMavenTarget, repoVars, approvalVars, failureVars, workVars
<1>4. CASE SelectRoute
  BY <1>4 DEF SelectRoute, repoVars, approvalVars, failureVars, workVars
<1>5. CASE ApplyPolicy
  BY <1>5 DEF ApplyPolicy, repoVars, planVars, workVars, SelectPostPolicyNode, SelectRemediationNode
<1> QED
  BY <1>1, <1>2, <1>3, <1>4, <1>5 DEF Planning

LEMMA GatesKeepHand == TypeInv /\ Gates => InHand'
<1> SUFFICES ASSUME TypeInv, Gates PROVE InHand'
  OBVIOUS
<1> USE DEF TypeInv, InHand, ResultInHand, RepoInHand, HandNodes, RetryLanes, ReviewNodes, At, Goto,
            Finished
<1>1. CASE ReviewRemediationApproval
  BY <1>1 DEF ReviewRemediationApproval, ReviewApproval, SelectPostApprovalNode,
              SelectRemediationNode, repoVars, planVars
<1>2. CASE ReviewDeliveryApproval
  BY <1>2 DEF ReviewDeliveryApproval, ReviewApproval, SelectPostApprovalNode,
              SelectRemediationNode, repoVars, planVars
<1>3. CASE PrepareDeliveryApproval
  BY <1>3 DEF PrepareDeliveryApproval, repoVars, planVars, workVars
<1> QED
  BY <1>1, <1>2, <1>3 DEF Gates

LEMMA LanesKeepHand == TypeInv /\ Lanes => InHand'
<1> SUFFICES ASSUME TypeInv, Lanes PROVE InHand'
  OBVIOUS
<1> USE DEF TypeInv, InHand, ResultInHand, RepoInHand, HandNodes, RetryLanes, ReviewNodes, At, Goto,
            Finished
<1>1. CASE RemediateSimple \/ RemediateTransitive \/ PreflightValidate
  BY <1>1 DEF RemediateSimple, RemediateTransitive, PreflightValidate, EditWorkspace, repoVars,
              planVars, approvalVars, failureVars, workVars
<1>2. CASE PrepareComplexRemediation \/ ExecuteComplexScaffold
  BY <1>2 DEF PrepareComplexRemediation, ExecuteComplexScaffold, EditWorkspace, repoVars,
              planVars, approvalVars, failureVars, workVars
<1>3. CASE ValidateRemediation
  <2> PICK failed \in CheckResults :
        result' = failed /\ Goto(SelectPostValidationNode(failed))
    BY <1>3 DEF ValidateRemediation
  <2>1. failed # NoResult
    <3>1. failed \subseteq Checks
      BY EnvironmentAssumption DEF EnvironmentAssumption, ValidationResults
    <3>2. "no_result" \notin Checks
      BY DEF Checks, CheckOrder
    <3> QED
      BY <3>1, <3>2 DEF NoResult
  <2>2. ResultInHand'
    BY <2>1 DEF SelectPostValidationNode
  <2>3. RepoInHand'
    BY <1>3 DEF ValidateRemediation, SelectPostValidationNode, repoVars, planVars, approvalVars
  <2> QED
    BY <2>2, <2>3
<1> QED
  BY <1>1, <1>2, <1>3 DEF Lanes

LEMMA FailuresKeepHand == TypeInv /\ Failures => InHand'
<1> SUFFICES ASSUME TypeInv, Failures PROVE InHand'
  OBVIOUS
<1> USE DEF TypeInv, InHand, ResultInHand, RepoInHand, HandNodes, RetryLanes, ReviewNodes, At, Goto,
            Finished
<1>1. CASE HandleValidationFailure
  BY <1>1 DEF HandleValidationFailure, repoVars, planVars, approvalVars, workVars
<1>2. CASE ClassifyFailure
  <2>1. FailureTarget # "escalate" => current # NoRepo
    <3> SUFFICES ASSUME FailureTarget # "escalate" PROVE current # NoRepo
      OBVIOUS
    <3>1. SelectRetryNode(error, route) # "none"
      BY DEF FailureTarget, CanRetry
    <3>2. CASE error.code \in DeliveryCodes
      BY <1>2, <3>2 DEF ClassifyFailure
    <3>3. CASE error.code \notin DeliveryCodes
      BY <3>1, <3>3 DEF SelectRetryNode, LaneOf, NoRoute
    <3> QED
      BY <3>2, <3>3
  <2>2. FailureTarget \in RetryLanes \cup {"publish_remediation", "escalate"}
    BY FailureTargetType
  <2> QED
    BY <1>2, <2>1, <2>2 DEF ClassifyFailure, repoVars, planVars, approvalVars, workVars
<1>3. CASE Escalate
  BY <1>3 DEF Escalate, repoVars, planVars, approvalVars, workVars
<1> QED
  BY <1>1, <1>2, <1>3 DEF Failures

LEMMA DeliveryKeepsHand == TypeInv /\ Delivery => InHand'
<1> SUFFICES ASSUME TypeInv, Delivery PROVE InHand'
  OBVIOUS
<1> USE DEF TypeInv, InHand, ResultInHand, RepoInHand, HandNodes, RetryLanes, ReviewNodes, At, Goto,
            Finished
<1>1. CASE SkipPublishForDryRun
  BY <1>1 DEF SkipPublishForDryRun, RepoContinuation, SelectPostDeliveryNode, planVars
<1>2. CASE At("publish_remediation") /\ PublicationSucceeds
  BY <1>2 DEF PublicationSucceeds, RepoContinuation, SelectPostDeliveryNode, planVars
<1>3. CASE At("publish_remediation") /\ PublicationFails
  BY <1>3 DEF PublicationFails, repoVars, planVars, approvalVars
<1> QED
  BY <1>1, <1>2, <1>3 DEF Delivery, PublishRemediation

LEMMA OthersKeepHand == TypeInv /\ (InvocationDies \/ Operator) => InHand'
<1> SUFFICES ASSUME TypeInv, InvocationDies \/ Operator PROVE InHand'
  OBVIOUS
<1> USE DEF TypeInv, InHand, ResultInHand, RepoInHand, HandNodes, RetryLanes, ReviewNodes
<1>1. CASE InvocationDies
  BY <1>1 DEF InvocationDies, repoVars, planVars, approvalVars
<1>2. CASE Bootstrap
  <2>1. next' = "bootstrap_state"
    BY <1>2 DEF Bootstrap, Invoke
  <2>2. route' = NoRoute /\ stage' = NoStage
    BY <1>2 DEF Bootstrap, ResetState
  <2> QED
    BY <2>1, <2>2
<1>3. CASE Decide
  <2> PICK decision \in Decisions :
        /\ route # NoRoute \/ DecisionStage = "delivery" \/ decision = "rejected"
        /\ ReviewApproval(DecisionStage, decision)
        /\ next' = SelectPostApprovalNode(DecisionStage, decision, route)
    BY <1>3 DEF Decide, Invoke
  <2>1. UNCHANGED <<current, route, result>> /\ stage' = NoStage
    BY DEF ReviewApproval, repoVars, planVars, Decisions, Undecided
  <2>2. CASE decision = "approved"
    <3>1. current # NoRepo
      BY <2>2 DEF DecisionStage, NoStage
    <3>2. next' \notin {"handle_validation_failure", "classify_failure"}
      BY <2>2 DEF SelectPostApprovalNode, SelectRemediationNode, Finished
    <3> QED
      BY <2>1, <3>1, <3>2
  <2>3. CASE decision = "rejected"
    <3>1. next' = "classify_failure"
      BY <2>3 DEF SelectPostApprovalNode
    <3>2. error'.code = "approval_rejected"
      BY <2>3 DEF ReviewApproval
    <3> QED
      BY <2>1, <3>1, <3>2 DEF DeliveryCodes
  <2> QED
    BY <2>2, <2>3 DEF Decisions
<1>4. CASE Resume \/ Abort
  BY <1>4 DEF Resume, Abort, Command, process, repoVars, planVars, approvalVars, workVars
<1> QED
  BY <1>1, <1>2, <1>3, <1>4 DEF Operator

-----------------------------------------------------------------------------
LEMMA InitHasType == Init => TypeInv
<1> SUFFICES ASSUME Init PROVE TypeInv
  OBVIOUS
<1>1. ProcessOK
  <2>1. running \in BOOLEAN /\ gated \in BOOLEAN /\ dryRun \in BOOLEAN
    BY DEF Init
  <2>2. next \in Nodes \cup {Finished}
    BY DEF Init
  <2>3. steps \in 0 .. RecursionLimit
    BY BudgetAssumption DEF Init, BudgetAssumption
  <2> QED
    BY <2>1, <2>2, <2>3 DEF ProcessOK
<1>2. StatusOK /\ ReposOK /\ PlanOK
  BY DEF Init, StatusOK, ReposOK, PlanOK
<1>3. GatesOK
  BY DEF Init, GatesOK
<1>4. ApprovalsOK
  BY DEF Init, ApprovalsOK
<1>5. WorkOK
  <2>1. result \in ValidationResults \cup {NoResult} /\ granted \subseteq Stages
    BY DEF Init
  <2>2. delivered \in 0 .. 3
    BY DEF Init
  <2>3. validated \in BOOLEAN /\ branchFresh \in BOOLEAN
    BY DEF Init
  <2> QED
    BY <2>1, <2>2, <2>3 DEF WorkOK
<1>6. FailuresOK
  <2>1. error \in WorkflowErrors
    BY DEF Init, NoError, WorkflowErrors, ErrorCodes
  <2>2. retries \in 0 .. MaxRetries /\ attempts \in Nat
    BY BudgetAssumption DEF Init, BudgetAssumption
  <2>3. retryNode = "none" /\ escalated \in BOOLEAN
    BY DEF Init
  <2> QED
    BY <2>1, <2>2, <2>3 DEF FailuresOK
<1>7. OperatorOK
  BY BudgetAssumption DEF Init, OperatorOK, BudgetAssumption
<1>8. InHand
  BY DEF Init, InHand, ResultInHand, RepoInHand
<1> QED
  BY <1>1, <1>2, <1>3, <1>4, <1>5, <1>6, <1>7, <1>8 DEF TypeInv, TypeOK

LEMMA NextKeepsType == TypeInv /\ [Next]_vars => TypeInv'
<1> SUFFICES ASSUME TypeInv, [Next]_vars PROVE TypeInv'
  OBVIOUS
<1>1. CASE Next
  <2>1. TypeOK'
    BY <1>1, IntakeKeepsType, PlanningKeepsType, GatesKeepType, LanesKeepType, FailuresKeepType,
       DeliveryKeepsType, DeathKeepsType, OperatorKeepsType
       DEF TypeInv, InHand, Next, GraphStep
  <2>2. InHand'
    BY <1>1, IntakeKeepsHand, PlanningKeepsHand, GatesKeepHand, LanesKeepHand, FailuresKeepHand,
       DeliveryKeepsHand, OthersKeepHand
       DEF Next, GraphStep
  <2> QED
    BY <2>1, <2>2 DEF TypeInv
<1>2. CASE UNCHANGED vars
  <2>1. TypeOK'
    BY <1>2, GroupsUnchanged DEF TypeInv, TypeOK, vars
  <2>2. InHand'
    BY <1>2 DEF TypeInv, InHand, ResultInHand, RepoInHand, vars, process, repoVars, planVars,
                approvalVars, failureVars, workVars
  <2> QED
    BY <2>1, <2>2 DEF TypeInv
<1> QED
  BY <1>1, <1>2

(* Every reachable state of the workflow is well typed, and its counters    *)
(* are within the bounds of the code, whatever the ticket, the policy, the  *)
(* budgets and the operator.                                                *)
THEOREM TypeInvariant == Spec => []TypeInv
<1>1. Init => TypeInv
  BY InitHasType
<1>2. TypeInv /\ [Next]_vars => TypeInv'
  BY NextKeepsType
<1> QED
  BY <1>1, <1>2, PTL DEF Spec

THEOREM TypeCorrect == Spec => []TypeOK
<1>1. TypeInv => TypeOK
  BY DEF TypeInv
<1> QED
  BY <1>1, TypeInvariant, PTL

-----------------------------------------------------------------------------
(* Safety. *)

\* The nodes before a decision can have been taken for the repository in hand.
IntakeNodes ==
    {"bootstrap_state", "probe_credentials", "ingest_and_parse_jira",
     "load_repository_context", "check_repository_idempotency"}
PlanNodes ==
    IntakeNodes \cup
    {"detect_maven_profile", "verify_advisory", "verify_maven_target", "select_route",
     "apply_policy", "review_remediation_approval"}

\* The nodes that change the workspace or judge the change.
WorkNodes ==
    RetryLanes \cup {"prepare_complex_remediation", "preflight_validate",
                     "validate_remediation", "handle_validation_failure"}

\* classify_failure may send the latest failure back to a lane.
LaneRetriable ==
    running /\ next = "classify_failure" /\ error.recoverable /\ error.code \notin DeliveryCodes

(***************************************************************************)
(* LanesAreApproved is not inductive: the decision must still be there     *)
(* when a failure has gone through handle_validation_failure and           *)
(* classify_failure, and a review node that is run by the graph itself     *)
(* must find no decision left over.                                        *)
(***************************************************************************)
UndecidedInv ==
    /\ running /\ next \in PlanNodes => feedback = Undecided
    /\ running /\ next = "review_delivery_approval" => feedback = Undecided

ApprovedInv ==
    (running /\ next \in WorkNodes) \/ LaneRetriable =>
        (needsHuman => "remediation" \in granted)

RetriableInv ==
    LaneRetriable => result \notin {NoResult, Passed} /\ IsRecoverableValidationFailure(result)

RunInv == UndecidedInv /\ ApprovedInv /\ RetriableInv

(* Nothing is pending, completed or skipped before the idempotency check,   *)
(* and the repository in hand is one of the ticket's open or closed ones.   *)
ReposInv ==
    /\ ReposAccounted
    /\ running /\ next \in IntakeNodes =>
          pending = {} /\ completed = {} /\ skipped = {} /\ current = NoRepo /\ status # "completed"
    /\ current # NoRepo => current \in pending \cup completed

-----------------------------------------------------------------------------
(* The decisions behind the lanes. *)

LEMMA IntakeKeepsRun == TypeInv /\ RunInv /\ Intake => RunInv'
BY DEF RunInv, UndecidedInv, ApprovedInv, RetriableInv, LaneRetriable, PlanNodes, IntakeNodes,
       WorkNodes, RetryLanes, Intake, BootstrapState, ProbeCredentials, IngestAndParseJira,
       LoadRepositoryContext, CheckRepositoryIdempotency, At, Goto, Finished, approvalVars

LEMMA PlanningKeepsRun == TypeInv /\ RunInv /\ Planning => RunInv'
<1> SUFFICES ASSUME TypeInv, RunInv, Planning PROVE RunInv'
  OBVIOUS
<1> USE DEF RunInv, UndecidedInv, ApprovedInv, RetriableInv, LaneRetriable, PlanNodes, IntakeNodes,
            WorkNodes, RetryLanes, At, Goto, Finished
<1>1. CASE DetectMavenProfile \/ VerifyAdvisory \/ VerifyMavenTarget
  BY <1>1 DEF DetectMavenProfile, VerifyAdvisory, VerifyMavenTarget, approvalVars
<1>2. CASE SelectRoute
  BY <1>2 DEF SelectRoute, approvalVars
<1>3. CASE ApplyPolicy
  BY <1>3 DEF ApplyPolicy, SelectPostPolicyNode, SelectRemediationNode
<1> QED
  BY <1>1, <1>2, <1>3 DEF Planning

LEMMA GatesKeepRun == TypeInv /\ RunInv /\ Gates => RunInv'
<1> SUFFICES ASSUME TypeInv, RunInv, Gates PROVE RunInv'
  OBVIOUS
<1> USE DEF RunInv, UndecidedInv, ApprovedInv, RetriableInv, LaneRetriable, PlanNodes, IntakeNodes,
            WorkNodes, RetryLanes, At, Goto, Finished
<1>1. CASE ReviewRemediationApproval \/ ReviewDeliveryApproval
  BY <1>1 DEF ReviewRemediationApproval, ReviewDeliveryApproval, SelectPostApprovalNode, Undecided
<1>2. CASE PrepareDeliveryApproval
  BY <1>2 DEF PrepareDeliveryApproval
<1> QED
  BY <1>1, <1>2 DEF Gates

LEMMA LanesKeepRun == TypeInv /\ RunInv /\ Lanes => RunInv'
<1> SUFFICES ASSUME TypeInv, RunInv, Lanes PROVE RunInv'
  OBVIOUS
<1> USE DEF RunInv, UndecidedInv, ApprovedInv, RetriableInv, LaneRetriable, PlanNodes, IntakeNodes,
            WorkNodes, RetryLanes, At, Goto, Finished
<1>1. CASE RemediateSimple \/ RemediateTransitive \/ ExecuteComplexScaffold
  BY <1>1 DEF RemediateSimple, RemediateTransitive, ExecuteComplexScaffold, EditWorkspace, gateVars
<1>2. CASE PreflightValidate \/ PrepareComplexRemediation
  BY <1>2 DEF PreflightValidate, PrepareComplexRemediation, gateVars, workVars
<1>3. CASE ValidateRemediation
  BY <1>3 DEF ValidateRemediation, SelectPostValidationNode, gateVars
<1> QED
  BY <1>1, <1>2, <1>3 DEF Lanes

LEMMA RetryIsLaneRetriable ==
    ASSUME TypeInv, running, next = "classify_failure", FailureTarget \in RetryLanes
    PROVE  LaneRetriable
<1>1. error.recoverable
  BY DEF FailureTarget, CanRetry, RetryLanes
<1>2. error.code \notin DeliveryCodes
  BY DEF FailureTarget, SelectRetryNode, RetryLanes
<1> QED
  BY <1>1, <1>2 DEF LaneRetriable

LEMMA FailuresKeepRun == TypeInv /\ RunInv /\ Failures => RunInv'
<1> SUFFICES ASSUME TypeInv, RunInv, Failures PROVE RunInv'
  OBVIOUS
<1>1. CASE HandleValidationFailure
  <2>1. next' = "classify_failure" /\ UNCHANGED <<needsHuman, granted, result>>
    BY <1>1 DEF HandleValidationFailure, Goto, gateVars, workVars
  <2>2. error'.recoverable = IsRecoverableValidationFailure(result)
    BY <1>1 DEF HandleValidationFailure
  <2>3. result \notin {NoResult, Passed} /\ (needsHuman => "remediation" \in granted)
    BY <1>1 DEF HandleValidationFailure, At, TypeInv, InHand, ResultInHand, RunInv, ApprovedInv,
                WorkNodes
  <2>4. UndecidedInv'
    BY <2>1 DEF UndecidedInv, PlanNodes, IntakeNodes
  <2>5. ApprovedInv'
    BY <2>1, <2>3 DEF ApprovedInv
  <2>6. RetriableInv'
    BY <2>1, <2>2, <2>3 DEF RetriableInv, LaneRetriable, IsRecoverableValidationFailure
  <2> QED
    BY <2>4, <2>5, <2>6 DEF RunInv
<1>2. CASE ClassifyFailure
  <2>1. next' = FailureTarget /\ UNCHANGED <<needsHuman, granted>>
    BY <1>2 DEF ClassifyFailure, Goto, gateVars, workVars
  <2>2. FailureTarget \in RetryLanes \cup {"publish_remediation", "escalate"}
    BY FailureTargetType DEF TypeInv
  <2>3. FailureTarget \in RetryLanes => (needsHuman => "remediation" \in granted)
    BY <1>2, RetryIsLaneRetriable DEF ClassifyFailure, At, RunInv, ApprovedInv
  <2> QED
    BY <2>1, <2>2, <2>3 DEF RunInv, UndecidedInv, ApprovedInv, RetriableInv, LaneRetriable,
                            PlanNodes, IntakeNodes, WorkNodes, RetryLanes
<1>3. CASE Escalate
  BY <1>3 DEF Escalate, Goto, Finished, RunInv, UndecidedInv, ApprovedInv, RetriableInv,
              LaneRetriable
<1> QED
  BY <1>1, <1>2, <1>3 DEF Failures

LEMMA DeliveryKeepsRun == TypeInv /\ RunInv /\ Delivery => RunInv'
<1> SUFFICES ASSUME TypeInv, RunInv, Delivery PROVE RunInv'
  OBVIOUS
<1> USE DEF RunInv, UndecidedInv, ApprovedInv, RetriableInv, LaneRetriable, PlanNodes, IntakeNodes,
            WorkNodes, RetryLanes, At, Goto, Finished
<1>1. CASE SkipPublishForDryRun
  BY <1>1 DEF SkipPublishForDryRun, RepoContinuation, ForgetDecisions, SelectPostDeliveryNode
<1>2. CASE At("publish_remediation") /\ PublicationSucceeds
  BY <1>2 DEF PublicationSucceeds, RepoContinuation, ForgetDecisions, SelectPostDeliveryNode
<1>3. CASE At("publish_remediation") /\ PublicationFails
  <2>1. \A reached \in 0 .. 2 : DeliveryCodeAfter[reached] \in DeliveryCodes
    BY DEF DeliveryCodeAfter, DeliveryCodes
  <2>2. delivered \in 0 .. 3
    BY DEF TypeInv, TypeOK, WorkOK
  <2>3. error'.code \in DeliveryCodes /\ next' = "classify_failure"
    BY <1>3, <2>1, <2>2 DEF PublicationFails
  <2> QED
    BY <2>3
<1> QED
  BY <1>1, <1>2, <1>3 DEF Delivery, PublishRemediation

LEMMA OthersKeepRun == TypeInv /\ RunInv /\ (InvocationDies \/ Operator) => RunInv'
<1> SUFFICES ASSUME TypeInv, RunInv, InvocationDies \/ Operator PROVE RunInv'
  OBVIOUS
<1> USE DEF RunInv, UndecidedInv, ApprovedInv, RetriableInv, LaneRetriable
<1>1. CASE InvocationDies
  BY <1>1 DEF InvocationDies
<1>2. CASE Bootstrap
  <2>1. next' = "bootstrap_state"
    BY <1>2 DEF Bootstrap, Invoke
  <2>2. feedback' = Undecided
    BY <1>2 DEF Bootstrap, ResetState
  <2> QED
    BY <2>1, <2>2 DEF WorkNodes, RetryLanes
<1>3. CASE Decide
  <2> PICK decision \in Decisions :
        /\ ReviewApproval(DecisionStage, decision)
        /\ granted' = IF decision = "approved" THEN granted \cup {DecisionStage} ELSE granted
        /\ next' = SelectPostApprovalNode(DecisionStage, decision, route)
    BY <1>3 DEF Decide, Invoke
  <2>1. CASE decision = "approved" /\ DecisionStage = "remediation"
    <3>1. "remediation" \in granted'
      BY <2>1
    <3>2. next' \notin PlanNodes \cup {"review_delivery_approval", "classify_failure"}
      BY <2>1 DEF SelectPostApprovalNode, SelectRemediationNode, PlanNodes, IntakeNodes, Finished
    <3> QED
      BY <3>1, <3>2
  <2>2. CASE decision = "approved" /\ DecisionStage = "delivery"
    BY <2>2 DEF SelectPostApprovalNode, PlanNodes, IntakeNodes, WorkNodes, RetryLanes
  <2>3. CASE decision = "rejected"
    <3>1. next' = "classify_failure"
      BY <2>3 DEF SelectPostApprovalNode
    <3>2. error'.recoverable = FALSE
      BY <2>3 DEF ReviewApproval
    <3> QED
      BY <3>1, <3>2 DEF PlanNodes, IntakeNodes, WorkNodes, RetryLanes
  <2> QED
    BY <2>1, <2>2, <2>3 DEF Decisions, DecisionStage
<1>4. CASE Resume \/ Abort
  BY <1>4 DEF Resume, Abort, Command, process
<1> QED
  BY <1>1, <1>2, <1>3, <1>4 DEF Operator

LEMMA NextKeepsRun == TypeInv /\ RunInv /\ [Next]_vars => RunInv'
<1>1. TypeInv /\ RunInv /\ Next => RunInv'
  BY IntakeKeepsRun, PlanningKeepsRun, GatesKeepRun, LanesKeepRun, FailuresKeepRun,
     DeliveryKeepsRun, OthersKeepRun DEF Next, GraphStep
<1>2. RunInv /\ UNCHANGED vars => RunInv'
  BY DEF RunInv, UndecidedInv, ApprovedInv, RetriableInv, LaneRetriable, vars, process, gateVars,
         approvalVars, failureVars, workVars
<1> QED
  BY <1>1, <1>2

THEOREM RunInvariant == Spec => []RunInv
<1>1. Init => RunInv
  BY DEF Init, RunInv, UndecidedInv, ApprovedInv, RetriableInv, LaneRetriable
<1>2. TypeInv /\ RunInv /\ [Next]_vars => RunInv'
  BY NextKeepsRun
<1> QED
  BY <1>1, <1>2, TypeInvariant, PTL DEF Spec

(* A lane that needs human approval runs only on a decision for the         *)
(* repository in hand, however many repositories, retries and stray         *)
(* decisions there are.                                                     *)
THEOREM LanesApproved == Spec => []LanesAreApproved
<1>1. RunInv => LanesAreApproved
  BY DEF RunInv, ApprovedInv, LanesAreApproved, WorkNodes
<1> QED
  BY <1>1, RunInvariant, PTL

(* A lane is retried only for a result whose failed checks are all          *)
(* retryable.                                                               *)
THEOREM OnlyRetryableRetried == Spec => OnlyRetryableFailuresRetried
<1> DEFINE Retry == running /\ next = "classify_failure" /\ next' \in RetryLanes =>
                       /\ result \notin {NoResult, Passed}
                       /\ \A c \in result : c = "unit_tests" \/ IsTransientCheck(c)
<1>1. TypeInv /\ RunInv /\ [Next]_vars => [Retry]_vars
  <2> SUFFICES ASSUME TypeInv, RunInv, Next, running, next = "classify_failure", next' \in RetryLanes
               PROVE  /\ result \notin {NoResult, Passed}
                      /\ \A c \in result : c = "unit_tests" \/ IsTransientCheck(c)
    OBVIOUS
  <2>1. FailureTarget \in RetryLanes \/ InvocationDies
    BY DEF Next, GraphStep, Intake, Planning, Gates, Lanes, Failures, Delivery, Operator, At, Goto,
           BootstrapState, ProbeCredentials, IngestAndParseJira, LoadRepositoryContext,
           CheckRepositoryIdempotency, DetectMavenProfile, VerifyAdvisory, VerifyMavenTarget,
           SelectRoute, ApplyPolicy, ReviewRemediationApproval, ReviewDeliveryApproval,
           PrepareDeliveryApproval, RemediateSimple, RemediateTransitive, PreflightValidate,
           PrepareComplexRemediation, ExecuteComplexScaffold, ValidateRemediation,
           HandleValidationFailure, ClassifyFailure, Escalate, PublishRemediation,
           SkipPublishForDryRun, Bootstrap, Decide, Resume, Abort, Command
  <2>2. ~ InvocationDies
    BY DEF InvocationDies, RetryLanes
  <2>3. LaneRetriable
    BY <2>1, <2>2, RetryIsLaneRetriable
  <2> QED
    BY <2>3 DEF RunInv, RetriableInv, IsRecoverableValidationFailure
<1> QED
  BY <1>1, RunInvariant, TypeInvariant, PTL DEF Spec, OnlyRetryableFailuresRetried

-----------------------------------------------------------------------------
(* The books of the repositories. *)

(* A step that leaves the books alone, does not complete the ticket and     *)
(* does not enter intake keeps them in order.                               *)
LEMMA BooksUntouched ==
    ASSUME ReposInv, UNCHANGED repoVars, status' # "completed" \/ UNCHANGED status,
           ~ running' \/ next' \notin IntakeNodes
    PROVE  ReposInv'
BY DEF ReposInv, ReposAccounted, repoVars

LEMMA IntakeKeepsBooks == TypeInv /\ ReposInv /\ Intake => ReposInv'
<1> SUFFICES ASSUME TypeInv, ReposInv, Intake PROVE ReposInv'
  OBVIOUS
<1> USE DEF ReposInv, ReposAccounted, IntakeNodes, At, Goto
<1>1. CASE BootstrapState \/ ProbeCredentials \/ IngestAndParseJira \/ LoadRepositoryContext
  BY <1>1 DEF BootstrapState, ProbeCredentials, IngestAndParseJira, LoadRepositoryContext, repoVars
<1>2. CASE CheckRepositoryIdempotency
  <2> PICK published \in SUBSET Repos :
        /\ skipped' = skipped \cup published
        /\ pending' = Repos \ published
        /\ status' = IF published = Repos THEN "completed" ELSE status
        /\ next' = IF published = Repos THEN Finished ELSE "detect_maven_profile"
    BY <1>2 DEF CheckRepositoryIdempotency
  <2>1. pending = {} /\ completed = {} /\ skipped = {} /\ current = NoRepo /\ status # "completed"
    BY <1>2 DEF CheckRepositoryIdempotency
  <2>2. completed' = {} /\ current' = NoRepo /\ skipped' = published
    BY <1>2, <2>1 DEF CheckRepositoryIdempotency
  <2>3. NoRepo \notin Repos
    BY DEF Repos, NoRepo
  <2> QED
    BY <2>1, <2>2, <2>3 DEF Finished
<1> QED
  BY <1>1, <1>2 DEF Intake

LEMMA PlanningKeepsBooks == TypeInv /\ ReposInv /\ Planning => ReposInv'
<1> SUFFICES ASSUME TypeInv, ReposInv, Planning PROVE ReposInv'
  OBVIOUS
<1>1. CASE DetectMavenProfile
  <2> PICK repo \in Repos : WorkingRepo(repo) /\ current' = repo
    BY <1>1 DEF DetectMavenProfile
  <2>1. UNCHANGED <<pending, completed, skipped, status>> /\ next' = "verify_advisory"
    BY <1>1 DEF DetectMavenProfile, Goto
  <2>2. CASE current # NoRepo
    BY <2>1, <2>2 DEF WorkingRepo, ReposInv, ReposAccounted, IntakeNodes
  <2>3. CASE current = NoRepo
    <3>1. repo \in pending /\ \A other \in pending : repo <= other
      BY <2>3 DEF WorkingRepo
    <3> QED
      BY <2>1, <3>1 DEF ReposInv, ReposAccounted, IntakeNodes
  <2> QED
    BY <2>2, <2>3
<1>2. CASE VerifyAdvisory \/ VerifyMavenTarget
  BY <1>2, BooksUntouched DEF VerifyAdvisory, VerifyMavenTarget, Goto, IntakeNodes
<1>3. CASE SelectRoute
  BY <1>3, BooksUntouched DEF SelectRoute, Goto, IntakeNodes
<1>4. CASE ApplyPolicy
  BY <1>4, BooksUntouched DEF ApplyPolicy, SelectPostPolicyNode, SelectRemediationNode, Finished,
     Goto, IntakeNodes
<1> QED
  BY <1>1, <1>2, <1>3, <1>4 DEF Planning

LEMMA GatesAndLanesKeepBooks == TypeInv /\ ReposInv /\ (Gates \/ Lanes) => ReposInv'
<1> SUFFICES ASSUME TypeInv, ReposInv, Gates \/ Lanes PROVE ReposInv'
  OBVIOUS
<1>1. CASE ReviewRemediationApproval \/ ReviewDeliveryApproval
  BY <1>1, BooksUntouched
     DEF ReviewRemediationApproval, ReviewDeliveryApproval, ReviewApproval, SelectPostApprovalNode,
         SelectRemediationNode, Finished, Goto, IntakeNodes
<1>2. CASE PrepareDeliveryApproval
  BY <1>2, BooksUntouched DEF PrepareDeliveryApproval, Goto, IntakeNodes
<1>3. CASE RemediateSimple \/ RemediateTransitive \/ PreflightValidate
  BY <1>3, BooksUntouched DEF RemediateSimple, RemediateTransitive, PreflightValidate, Goto, IntakeNodes
<1>4. CASE PrepareComplexRemediation \/ ExecuteComplexScaffold
  BY <1>4, BooksUntouched DEF PrepareComplexRemediation, ExecuteComplexScaffold, Goto, IntakeNodes
<1>5. CASE ValidateRemediation
  BY <1>5, BooksUntouched DEF ValidateRemediation, SelectPostValidationNode, Goto, IntakeNodes
<1> QED
  BY <1>1, <1>2, <1>3, <1>4, <1>5 DEF Gates, Lanes

LEMMA FailuresKeepBooks == TypeInv /\ ReposInv /\ Failures => ReposInv'
<1> SUFFICES ASSUME TypeInv, ReposInv, Failures PROVE ReposInv'
  OBVIOUS
<1>1. CASE HandleValidationFailure \/ Escalate
  BY <1>1, BooksUntouched DEF HandleValidationFailure, Escalate, Finished, Goto, IntakeNodes
<1>2. CASE ClassifyFailure
  <2>1. FailureTarget \notin IntakeNodes
    BY FailureTargetType DEF TypeInv, RetryLanes, IntakeNodes
  <2> QED
    BY <1>2, <2>1, BooksUntouched DEF ClassifyFailure, Goto
<1> QED
  BY <1>1, <1>2 DEF Failures

(* Moving on takes the repository in hand off the pending ones; if it was   *)
(* completed before, as after a stray decision, nothing was pending.        *)
LEMMA ContinuationKeepsBooks ==
    ASSUME TypeInv, ReposInv, RepoContinuation(current), current # NoRepo,
           next' = SelectPostDeliveryNode(Remaining(current))
    PROVE  ReposInv'
<1>1. pending' = pending \ {current} /\ completed' = completed \cup {current} /\ skipped' = skipped
  BY DEF RepoContinuation, Remaining
<1>2. current \in pending \cup completed /\ current \in Repos
  BY DEF ReposInv, TypeInv, TypeOK, ReposOK
<1>3. pending \cup completed \cup skipped = Repos
  BY <1>2 DEF ReposInv, ReposAccounted
<1>4. pending' \cup completed' \cup skipped' = Repos
  BY <1>1, <1>2, <1>3
<1>5. pending' \cap completed' = {} /\ pending' \cap skipped' = {} /\ completed' \cap skipped' = {}
  BY <1>1, <1>2 DEF ReposInv, ReposAccounted
<1>6. CASE pending' = {}
  <2>1. current' = current /\ next' = Finished
    BY <1>1, <1>6 DEF RepoContinuation, SelectPostDeliveryNode, Remaining
  <2>2. completed' \cup skipped' = Repos
    BY <1>4, <1>6
  <2> QED
    BY <1>1, <1>4, <1>5, <1>6, <2>1, <2>2 DEF ReposInv, ReposAccounted, IntakeNodes, Finished
<1>7. CASE pending' # {}
  <2>1. current' = NoRepo /\ next' = "detect_maven_profile" /\ status' = "in_progress"
    BY <1>1, <1>7 DEF RepoContinuation, SelectPostDeliveryNode, Remaining
  <2>2. NoRepo \notin Repos
    BY DEF NoRepo, Repos
  <2>3. NoRepo \notin pending'
    BY <1>4, <2>2
  <2> QED
    BY <1>4, <1>5, <1>7, <2>1, <2>3 DEF ReposInv, ReposAccounted, IntakeNodes
<1> QED
  BY <1>6, <1>7

LEMMA DeliveryKeepsBooks == TypeInv /\ ReposInv /\ Delivery => ReposInv'
<1> SUFFICES ASSUME TypeInv, ReposInv, Delivery PROVE ReposInv'
  OBVIOUS
<1>1. CASE SkipPublishForDryRun
  <2>1. current # NoRepo
    BY <1>1 DEF SkipPublishForDryRun, At, TypeInv, InHand, RepoInHand, HandNodes
  <2> QED
    BY <1>1, <2>1, ContinuationKeepsBooks DEF SkipPublishForDryRun, Goto
<1>2. CASE At("publish_remediation") /\ PublicationSucceeds
  <2>1. current # NoRepo
    BY <1>2 DEF At, TypeInv, InHand, RepoInHand, HandNodes
  <2> QED
    BY <1>2, <2>1, ContinuationKeepsBooks DEF PublicationSucceeds, Goto
<1>3. CASE At("publish_remediation") /\ PublicationFails
  BY <1>3, BooksUntouched DEF PublicationFails, Goto, IntakeNodes
<1> QED
  BY <1>1, <1>2, <1>3 DEF Delivery, PublishRemediation

LEMMA OthersKeepBooks == TypeInv /\ ReposInv /\ (InvocationDies \/ Operator) => ReposInv'
<1> SUFFICES ASSUME TypeInv, ReposInv, InvocationDies \/ Operator PROVE ReposInv'
  OBVIOUS
<1>1. CASE InvocationDies
  BY <1>1, BooksUntouched DEF InvocationDies
<1>2. CASE Bootstrap
  <2>1. pending' = {} /\ completed' = {} /\ skipped' = {} /\ current' = NoRepo /\ status' = "pending"
    BY <1>2 DEF Bootstrap, ResetState
  <2> QED
    BY <2>1 DEF ReposInv, ReposAccounted
<1>3. CASE Decide
  <2> PICK decision \in Decisions :
        /\ ReviewApproval(DecisionStage, decision)
        /\ next' = SelectPostApprovalNode(DecisionStage, decision, route)
    BY <1>3 DEF Decide, Invoke
  <2>1. UNCHANGED repoVars /\ status' # "completed"
    BY DEF ReviewApproval, Decisions
  <2>2. next' \notin IntakeNodes
    BY DEF SelectPostApprovalNode, SelectRemediationNode, IntakeNodes, Finished
  <2> QED
    BY <2>1, <2>2, BooksUntouched
<1>4. CASE Resume \/ Abort
  BY <1>4, BooksUntouched DEF Resume, Abort, Command, process
<1> QED
  BY <1>1, <1>2, <1>3, <1>4 DEF Operator

LEMMA NextKeepsBooks == TypeInv /\ ReposInv /\ [Next]_vars => ReposInv'
<1>1. TypeInv /\ ReposInv /\ Next => ReposInv'
  BY IntakeKeepsBooks, PlanningKeepsBooks, GatesAndLanesKeepBooks, FailuresKeepBooks,
     DeliveryKeepsBooks, OthersKeepBooks DEF Next, GraphStep
<1>2. ReposInv /\ UNCHANGED vars => ReposInv'
  BY DEF ReposInv, ReposAccounted, vars, process, repoVars
<1> QED
  BY <1>1, <1>2

THEOREM ReposInvariant == Spec => []ReposInv
<1>1. Init => ReposInv
  BY DEF Init, ReposInv, ReposAccounted, NoThread
<1>2. TypeInv /\ ReposInv /\ [Next]_vars => ReposInv'
  BY NextKeepsBooks
<1> QED
  BY <1>1, <1>2, TypeInvariant, PTL DEF Spec

(* No repository is lost or handled twice, whatever node dies and whatever  *)
(* the operator decides.                                                    *)
THEOREM ReposAreAccounted == Spec => []ReposAccounted
<1>1. ReposInv => ReposAccounted
  BY DEF ReposInv
<1> QED
  BY <1>1, ReposInvariant, PTL

-----------------------------------------------------------------------------
(* The guards of the nodes. *)

(***************************************************************************)
(* GuardsHold is not inductive: a decision, of the review node or of the   *)
(* operator, and a retry enter a lane from the route alone, so a recorded  *)
(* route must mean a verified target.                                      *)
(***************************************************************************)
PlanInv ==
    /\ route # NoRoute => maven # Unknown
    /\ running /\ next = "detect_maven_profile" => current # NoRepo \/ pending # {}
    /\ running /\ next \in {"verify_maven_target", "select_route"} => advisory # Unknown
    /\ running /\ next = "select_route" => maven # Unknown
    /\ running /\ next \in RetryLanes => LaneOf[route] = next
    /\ running /\ next = "prepare_complex_remediation" => route = "complex_refactor"

\* The nodes whose guards are about the plan.
PlannedNodes ==
    {"detect_maven_profile", "verify_maven_target", "select_route", "prepare_complex_remediation"}
        \cup RetryLanes

\* A step that keeps the plan and enters none of these nodes.
LEMMA PlanUntouched ==
    ASSUME PlanInv, UNCHANGED <<maven, route>>, running' => next' \notin PlannedNodes
    PROVE  PlanInv'
BY DEF PlanInv, PlannedNodes

\* A decision enters the lane of the route.
LEMMA SelectedLane ==
    ASSUME NEW strategy \in Strategies \cup {NoRoute}
    PROVE  LET node == SelectRemediationNode(strategy) IN
             /\ node \notin {"detect_maven_profile", "verify_maven_target", "select_route"}
             /\ node \in RetryLanes => LaneOf[strategy] = node
             /\ node = "prepare_complex_remediation" => strategy = "complex_refactor"
BY DEF SelectRemediationNode, LaneOf, RetryLanes, Finished, Strategies, NoRoute

LEMMA IntakeKeepsPlan == TypeInv /\ PlanInv /\ Intake => PlanInv'
<1> SUFFICES ASSUME TypeInv, PlanInv, Intake PROVE PlanInv'
  OBVIOUS
<1>1. CASE BootstrapState \/ ProbeCredentials \/ IngestAndParseJira \/ LoadRepositoryContext
  BY <1>1, PlanUntouched DEF BootstrapState, ProbeCredentials, IngestAndParseJira,
     LoadRepositoryContext, Goto, planVars, PlannedNodes, RetryLanes
<1>2. CASE CheckRepositoryIdempotency
  <2> PICK published \in SUBSET Repos :
        /\ pending' = Repos \ published
        /\ next' = IF published = Repos THEN Finished ELSE "detect_maven_profile"
    BY <1>2 DEF CheckRepositoryIdempotency, Goto
  <2>1. UNCHANGED planVars
    BY <1>2 DEF CheckRepositoryIdempotency
  <2>2. CASE published = Repos
    BY <2>1, <2>2, PlanUntouched DEF planVars, Finished, PlannedNodes, RetryLanes
  <2>3. CASE published # Repos
    BY <2>1, <2>3 DEF planVars, PlanInv, RetryLanes
  <2> QED
    BY <2>2, <2>3
<1> QED
  BY <1>1, <1>2 DEF Intake

LEMMA PlanningKeepsPlan == TypeInv /\ PlanInv /\ Planning => PlanInv'
<1> SUFFICES ASSUME TypeInv, PlanInv, Planning PROVE PlanInv'
  OBVIOUS
<1>1. CASE DetectMavenProfile
  BY <1>1, PlanUntouched DEF DetectMavenProfile, Goto, planVars, PlannedNodes, RetryLanes
<1>2. CASE VerifyAdvisory
  BY <1>2 DEF VerifyAdvisory, Goto, PlanInv, RetryLanes, AdvisoryStatuses, Unknown
<1>3. CASE VerifyMavenTarget
  <2>1. maven' \in Risks /\ UNCHANGED <<advisory, route>> /\ next' = "select_route"
    BY <1>3, EnvironmentAssumption DEF VerifyMavenTarget, Goto, EnvironmentAssumption
  <2>2. maven' # Unknown
    BY <2>1 DEF Risks, Unknown
  <2>3. advisory # Unknown
    BY <1>3 DEF VerifyMavenTarget, At, PlanInv
  <2> QED
    BY <2>1, <2>2, <2>3 DEF PlanInv, RetryLanes
<1>4. CASE SelectRoute
  BY <1>4 DEF SelectRoute, At, Goto, PlanInv, RetryLanes
<1>5. CASE ApplyPolicy
  <2> PICK tags \in PolicyTags :
        next' = SelectPostPolicyNode(tags # "blocked", PolicyNeedsHuman(tags), route)
    BY <1>5 DEF ApplyPolicy, Goto
  <2>1. UNCHANGED planVars
    BY <1>5 DEF ApplyPolicy
  <2>2. CASE next' = SelectRemediationNode(route)
    BY <2>1, <2>2, SelectedLane DEF TypeInv, TypeOK, PlanOK, planVars, PlanInv
  <2>3. CASE next' \in {Finished, "review_remediation_approval"}
    BY <2>1, <2>3, PlanUntouched DEF planVars, Finished, PlannedNodes, RetryLanes
  <2> QED
    BY <2>2, <2>3 DEF SelectPostPolicyNode
<1> QED
  BY <1>1, <1>2, <1>3, <1>4, <1>5 DEF Planning

\* A decision, at the review node or at the command line.
LEMMA DecisionKeepsPlan ==
    ASSUME TypeInv, PlanInv, UNCHANGED planVars, NEW reviewed, NEW decision,
           next' = SelectPostApprovalNode(reviewed, decision, route)
    PROVE  PlanInv'
<1>1. CASE next' = SelectRemediationNode(route)
  BY <1>1, SelectedLane DEF TypeInv, TypeOK, PlanOK, planVars, PlanInv
<1>2. CASE next' \in {"publish_remediation", "classify_failure", Finished}
  BY <1>2, PlanUntouched DEF planVars, Finished, PlannedNodes, RetryLanes
<1> QED
  BY <1>1, <1>2 DEF SelectPostApprovalNode

LEMMA GatesKeepPlan == TypeInv /\ PlanInv /\ Gates => PlanInv'
<1> SUFFICES ASSUME TypeInv, PlanInv, Gates PROVE PlanInv'
  OBVIOUS
<1>1. CASE ReviewRemediationApproval \/ ReviewDeliveryApproval
  BY <1>1, DecisionKeepsPlan DEF ReviewRemediationApproval, ReviewDeliveryApproval, ReviewApproval,
     Goto
<1>2. CASE PrepareDeliveryApproval
  BY <1>2, PlanUntouched DEF PrepareDeliveryApproval, Goto, planVars, PlannedNodes, RetryLanes
<1> QED
  BY <1>1, <1>2 DEF Gates

LEMMA LanesKeepPlan == TypeInv /\ PlanInv /\ Lanes => PlanInv'
<1> SUFFICES ASSUME TypeInv, PlanInv, Lanes PROVE PlanInv'
  OBVIOUS
<1>1. CASE RemediateSimple \/ RemediateTransitive \/ PreflightValidate
  BY <1>1, PlanUntouched DEF RemediateSimple, RemediateTransitive, PreflightValidate, Goto, planVars,
     PlannedNodes, RetryLanes
<1>2. CASE PrepareComplexRemediation
  BY <1>2 DEF PrepareComplexRemediation, At, Goto, planVars, PlanInv, LaneOf
<1>3. CASE ExecuteComplexScaffold
  BY <1>3, PlanUntouched DEF ExecuteComplexScaffold, Goto, planVars, PlannedNodes, RetryLanes
<1>4. CASE ValidateRemediation
  BY <1>4, PlanUntouched DEF ValidateRemediation, SelectPostValidationNode, Goto, planVars,
     PlannedNodes, RetryLanes
<1> QED
  BY <1>1, <1>2, <1>3, <1>4 DEF Lanes

LEMMA FailuresKeepPlan == TypeInv /\ PlanInv /\ Failures => PlanInv'
<1> SUFFICES ASSUME TypeInv, PlanInv, Failures PROVE PlanInv'
  OBVIOUS
<1>1. CASE HandleValidationFailure \/ Escalate
  BY <1>1, PlanUntouched DEF HandleValidationFailure, Escalate, Goto, Finished, planVars,
     PlannedNodes, RetryLanes
<1>2. CASE ClassifyFailure
  <2>1. next' = FailureTarget /\ UNCHANGED planVars
    BY <1>2 DEF ClassifyFailure, Goto
  <2>2. CASE FailureTarget \in RetryLanes
    <3>1. FailureTarget = LaneOf[route]
      BY <2>2 DEF FailureTarget, SelectRetryNode, RetryLanes
    <3> QED
      BY <2>1, <2>2, <3>1 DEF planVars, PlanInv, RetryLanes
  <2>3. CASE FailureTarget \in {"publish_remediation", "escalate"}
    BY <2>1, <2>3, PlanUntouched DEF planVars, PlannedNodes, RetryLanes
  <2> QED
    BY <2>2, <2>3, FailureTargetType DEF TypeInv
<1> QED
  BY <1>1, <1>2 DEF Failures

LEMMA DeliveryKeepsPlan == TypeInv /\ PlanInv /\ Delivery => PlanInv'
<1> SUFFICES ASSUME TypeInv, PlanInv, Delivery PROVE PlanInv'
  OBVIOUS
<1>1. ASSUME RepoContinuation(current), Goto(SelectPostDeliveryNode(Remaining(current)))
      PROVE  PlanInv'
  <2>1. CASE Remaining(current) = {}
    BY <1>1, <2>1, PlanUntouched DEF RepoContinuation, SelectPostDeliveryNode, Goto, Finished,
       PlannedNodes, RetryLanes
  <2>2. CASE Remaining(current) # {}
    BY <1>1, <2>2 DEF RepoContinuation, SelectPostDeliveryNode, Goto, PlanInv, RetryLanes
  <2> QED
    BY <2>1, <2>2
<1>2. CASE SkipPublishForDryRun
  BY <1>1, <1>2 DEF SkipPublishForDryRun
<1>3. CASE At("publish_remediation") /\ PublicationSucceeds
  BY <1>1, <1>3 DEF PublicationSucceeds
<1>4. CASE At("publish_remediation") /\ PublicationFails
  BY <1>4, PlanUntouched DEF PublicationFails, Goto, planVars, PlannedNodes, RetryLanes
<1> QED
  BY <1>2, <1>3, <1>4 DEF Delivery, PublishRemediation

LEMMA OthersKeepPlan == TypeInv /\ PlanInv /\ (InvocationDies \/ Operator) => PlanInv'
<1> SUFFICES ASSUME TypeInv, PlanInv, InvocationDies \/ Operator PROVE PlanInv'
  OBVIOUS
<1>1. CASE InvocationDies
  BY <1>1, PlanUntouched DEF InvocationDies, planVars
<1>2. CASE Bootstrap
  BY <1>2 DEF Bootstrap, Invoke, ResetState, PlanInv, RetryLanes
<1>3. CASE Decide
  BY <1>3, DecisionKeepsPlan DEF Decide, Invoke, ReviewApproval
<1>4. CASE Resume \/ Abort
  BY <1>4 DEF Resume, Abort, Command, process, repoVars, planVars, PlanInv
<1> QED
  BY <1>1, <1>2, <1>3, <1>4 DEF Operator

LEMMA PlanInvariant == Spec => []PlanInv
<1>1. Init => PlanInv
  BY DEF Init, PlanInv
<1>2. TypeInv /\ PlanInv /\ [Next]_vars => PlanInv'
  <2>1. TypeInv /\ PlanInv /\ Next => PlanInv'
    BY IntakeKeepsPlan, PlanningKeepsPlan, GatesKeepPlan, LanesKeepPlan, FailuresKeepPlan,
       DeliveryKeepsPlan, OthersKeepPlan DEF Next, GraphStep
  <2>2. PlanInv /\ UNCHANGED vars => PlanInv'
    BY DEF PlanInv, vars, process, repoVars, planVars
  <2> QED
    BY <2>1, <2>2
<1> QED
  BY <1>1, <1>2, TypeInvariant, PTL DEF Spec

(* No path through the graph, no retry, stray decision or crash reaches a   *)
(* node without the state its require_state_field and                       *)
(* require_state_condition guards ask for.                                  *)
THEOREM GuardsAlwaysHold == Spec => []GuardsHold
<1>1. TypeInv /\ PlanInv => GuardsHold
  <2> SUFFICES ASSUME TypeInv, PlanInv, running PROVE GuardsHold
    BY DEF GuardsHold
  <2>1. next \in HandNodes => current # NoRepo
    BY DEF TypeInv, InHand, RepoInHand
  <2>2. next = "handle_validation_failure" => result \notin {NoResult, Passed}
    BY DEF TypeInv, InHand, ResultInHand
  <2>3. next \in RetryLanes => LaneOf[route] = next /\ maven # Unknown
    <3>1. next \in RetryLanes => route # NoRoute
      BY DEF PlanInv, RetryLanes, LaneOf, NoRoute
    <3> QED
      BY <3>1 DEF PlanInv
  <2>4. next = "prepare_complex_remediation" => route = "complex_refactor" /\ maven # Unknown
    BY DEF PlanInv, NoRoute
  <2> QED
    BY <2>1, <2>2, <2>3, <2>4 DEF GuardsHold, PlanInv, HandNodes, RetryLanes
<1> QED
  BY <1>1, TypeInvariant, PlanInvariant, PTL

-----------------------------------------------------------------------------
(* The supersteps of one invocation. *)

(***************************************************************************)
(* What an invocation may still need is paid for in advance: the way from   *)
(* the next node to the end of its repository, one way back into a lane     *)
(* for every retry left, and the whole way of every repository not begun.   *)
(***************************************************************************)
RetrySteps == 5
RepositorySteps == 9 + RetrySteps * MaxRetries
SuperstepBound == 7 + RepositorySteps * NumRepos

StepsFrom ==
    [bootstrap_state |-> 7, probe_credentials |-> 6, ingest_and_parse_jira |-> 5,
     load_repository_context |-> 4, check_repository_idempotency |-> 3,
     detect_maven_profile |-> 2, verify_advisory |-> 10, verify_maven_target |-> 9,
     select_route |-> 8, apply_policy |-> 7,
     prepare_complex_remediation |-> 6, remediate_simple |-> 6, remediate_transitive |-> 6,
     preflight_validate |-> 5, execute_complex_scaffold |-> 5, validate_remediation |-> 4,
     handle_validation_failure |-> 3, publish_remediation |-> 3, skip_publish_for_dry_run |-> 3,
     classify_failure |-> 2, prepare_delivery_approval |-> 2,
     review_remediation_approval |-> 1, review_delivery_approval |-> 1, escalate |-> 1, END |-> 0]

RepositoriesLeft ==
    IF next \in IntakeNodes THEN NumRepos ELSE Cardinality(pending \ {current})

RetriesLeft == IF current = NoRepo THEN 0 ELSE MaxRetries - retries

StepsInv ==
    running =>
        /\ next \in IntakeNodes \cup {"detect_maven_profile"} => current = NoRepo
        /\ steps + StepsFrom[next] + RetrySteps * RetriesLeft + RepositorySteps * RepositoriesLeft
              <= SuperstepBound

LEMMA StepsFromType == \A node \in Nodes \cup {Finished} : StepsFrom[node] \in 0 .. 10
BY DEF StepsFrom, Nodes, Finished, ReviewNodes

\* The repositories in a subset are at most NumRepos.
LEMMA LeftIsFinite ==
    ASSUME NEW repos \in SUBSET Repos
    PROVE  IsFiniteSet(repos) /\ Cardinality(repos) \in 0 .. NumRepos
<1>1. IsFiniteSet(Repos) /\ Cardinality(Repos) = NumRepos
  BY ReposAssumption, FS_Interval DEF Repos
<1>2. IsFiniteSet(repos) /\ Cardinality(repos) <= NumRepos
  BY <1>1, FS_Subset
<1> QED
  BY <1>2, FS_CardinalityType, ReposAssumption

LEMMA WorkIsNatural ==
    ASSUME TypeInv
    PROVE  /\ RepositorySteps \in Nat /\ RepositorySteps >= 9
           /\ RetriesLeft \in Nat /\ RetrySteps * RetriesLeft \in Nat
           /\ RepositoriesLeft \in 0 .. NumRepos /\ RepositorySteps * RepositoriesLeft \in Nat
           /\ SuperstepBound \in Nat
<1>1. RepositorySteps \in Nat /\ RepositorySteps >= 9
  BY BudgetAssumption DEF RepositorySteps, RetrySteps, BudgetAssumption
<1>2. RetriesLeft \in Nat
  BY BudgetAssumption DEF RetriesLeft, TypeInv, TypeOK, FailuresOK, BudgetAssumption
<1>3. RepositoriesLeft \in 0 .. NumRepos
  BY LeftIsFinite, ReposAssumption DEF RepositoriesLeft, TypeInv, TypeOK, ReposOK
<1>4. RepositorySteps * RepositoriesLeft \in Nat /\ RepositorySteps * NumRepos \in Nat
  BY <1>1, <1>3, ReposAssumption
<1> QED
  BY <1>1, <1>2, <1>3, <1>4 DEF RetrySteps, SuperstepBound

\* A step down the graph, with the repository in hand.
LEMMA Descends ==
    ASSUME TypeInv, StepsInv, running, steps' = steps + 1,
           next \notin IntakeNodes \cup {"detect_maven_profile"},
           next' \in Nodes \cup {Finished}, StepsFrom[next'] < StepsFrom[next],
           next' \notin IntakeNodes \cup {"detect_maven_profile"},
           UNCHANGED <<current, pending, retries>>
    PROVE  StepsInv'
<1>1. RetriesLeft' = RetriesLeft /\ RepositoriesLeft' = RepositoriesLeft
  BY DEF RetriesLeft, RepositoriesLeft
<1>2. StepsFrom[next] \in 0 .. 10 /\ StepsFrom[next'] \in 0 .. 10 /\ steps \in Nat
  BY StepsFromType, BudgetAssumption DEF TypeInv, TypeOK, ProcessOK, BudgetAssumption
<1>3. steps' + StepsFrom[next'] <= steps + StepsFrom[next]
  BY <1>2
<1> DEFINE Work == RetrySteps * RetriesLeft
           Rest == RepositorySteps * RepositoriesLeft
<1>4. Work \in Nat /\ Rest \in Nat /\ SuperstepBound \in Nat
  BY WorkIsNatural
<1>5. steps + StepsFrom[next] + Work + Rest <= SuperstepBound
  BY DEF StepsInv
<1>6. Work' = Work /\ Rest' = Rest
  BY <1>1
<1>7. steps' + StepsFrom[next'] + Work + Rest <= SuperstepBound
  <2> HIDE DEF Work, Rest
  <2> QED
    BY <1>2, <1>3, <1>4, <1>5
<1> QED
  BY <1>6, <1>7 DEF StepsInv, SuperstepBound, RepositorySteps

LEMMA ProductMonotone ==
    ASSUME NEW k \in Nat, NEW n \in Nat, NEW m \in 0 .. n
    PROVE  k * m <= k * n /\ k * m \in Nat
<1>1. k * n = k * m + k * (n - m)
  OBVIOUS
<1>2. k * m \in Nat /\ k * (n - m) \in Nat
  OBVIOUS
<1> QED
  BY <1>1, <1>2

LEMMA IntakeKeepsSteps == TypeInv /\ ReposInv /\ StepsInv /\ Intake => StepsInv'
<1> SUFFICES ASSUME TypeInv, ReposInv, StepsInv, Intake PROVE StepsInv'
  OBVIOUS
<1> DEFINE Rest == RepositorySteps * NumRepos
<1>1. /\ running /\ next \in IntakeNodes /\ steps' = steps + 1 /\ steps \in Nat
      /\ current' = current /\ retries' = retries
  BY BudgetAssumption
     DEF Intake, BootstrapState, ProbeCredentials, IngestAndParseJira, LoadRepositoryContext,
         CheckRepositoryIdempotency, At, Goto, IntakeNodes, repoVars, failureVars, TypeInv, TypeOK,
         ProcessOK, BudgetAssumption
<1>2. current = NoRepo /\ pending = {}
  BY <1>1 DEF ReposInv
<1>3. RepositorySteps \in Nat /\ Rest \in Nat /\ Rest' = Rest /\ SuperstepBound \in Nat
  BY WorkIsNatural, ReposAssumption DEF RepositorySteps
<1>4. RetrySteps * RetriesLeft = 0 /\ (RetrySteps * RetriesLeft)' = 0
  BY <1>1, <1>2 DEF RetrySteps, RetriesLeft
<1>5. steps + StepsFrom[next] + Rest <= SuperstepBound
  <2>1. RepositoriesLeft = NumRepos
    BY <1>1 DEF RepositoriesLeft
  <2>2. StepsFrom[next] \in 0 .. 10
    BY <1>1, StepsFromType DEF IntakeNodes, Nodes
  <2> QED
    BY <1>1, <1>3, <1>4, <2>1, <2>2 DEF StepsInv
<1>6. CASE BootstrapState \/ ProbeCredentials \/ IngestAndParseJira \/ LoadRepositoryContext
  <2>1. next' \in IntakeNodes /\ StepsFrom[next'] < StepsFrom[next] /\ StepsFrom[next] \in Nat
        /\ StepsFrom[next'] \in Nat
    BY <1>6 DEF BootstrapState, ProbeCredentials, IngestAndParseJira, LoadRepositoryContext, At, Goto,
       IntakeNodes, StepsFrom
  <2>2. RepositoriesLeft' = NumRepos
    BY <2>1 DEF RepositoriesLeft
  <2>3. steps' + StepsFrom[next'] + Rest <= SuperstepBound
    <3> HIDE DEF Rest
    <3> QED
      BY <1>1, <1>3, <1>5, <2>1
  <2>4. steps' \in Nat
    BY <1>1
  <2> QED
    BY <1>1, <1>2, <1>3, <1>4, <2>1, <2>2, <2>3, <2>4 DEF StepsInv, SuperstepBound, RepositorySteps
<1>7. CASE CheckRepositoryIdempotency
  <2>1. PICK published \in SUBSET Repos :
          /\ pending' = Repos \ published
          /\ next' = IF published = Repos THEN Finished ELSE "detect_maven_profile"
          /\ running' = (next' # Finished /\ ~ (gated /\ next' \in ReviewNodes))
    BY <1>7 DEF CheckRepositoryIdempotency, Goto
  <2>2. pending' \ {current'} \in SUBSET Repos
    BY <2>1
  <2>3. next' \notin IntakeNodes /\ StepsFrom[next'] \in 0 .. 2 /\ StepsFrom[next] = 3
    BY <1>7, <2>1 DEF CheckRepositoryIdempotency, At, IntakeNodes, StepsFrom, Finished
  <2>4. RepositoriesLeft' \in 0 .. NumRepos
    BY <2>2, <2>3, LeftIsFinite DEF RepositoriesLeft
  <2>5. RepositorySteps * RepositoriesLeft' <= Rest /\ RepositorySteps * RepositoriesLeft' \in Nat
    BY <1>3, <2>4, ReposAssumption, ProductMonotone
  <2>6. steps' + StepsFrom[next'] + RepositorySteps * RepositoriesLeft' <= SuperstepBound
    <3> DEFINE Left == RepositorySteps * RepositoriesLeft'
    <3> HIDE DEF Rest, Left
    <3>1. steps' + StepsFrom[next'] + Left <= SuperstepBound
      BY <1>1, <1>3, <1>5, <2>3, <2>5 DEF Left
    <3> QED
      BY <3>1 DEF Left
  <2> QED
    BY <1>1, <1>2, <1>4, <2>3, <2>5, <2>6 DEF StepsInv, SuperstepBound, RepositorySteps
<1> QED
  BY <1>6, <1>7 DEF Intake

LEMMA PlanningKeepsSteps == TypeInv /\ ReposInv /\ StepsInv /\ Planning => StepsInv'
<1> SUFFICES ASSUME TypeInv, ReposInv, StepsInv, Planning PROVE StepsInv'
  OBVIOUS
<1>1. CASE DetectMavenProfile
  <2>1. running /\ next = "detect_maven_profile" /\ steps' = steps + 1 /\ next' = "verify_advisory"
        /\ pending' = pending /\ retries' = retries
    BY <1>1 DEF DetectMavenProfile, At, Goto, failureVars
  <2>2. current = NoRepo
    BY <2>1 DEF StepsInv
  <2>3. PICK repo \in pending : current' = repo
    BY <1>1, <2>2 DEF DetectMavenProfile, WorkingRepo
  <2> DEFINE Left == Cardinality(pending)
  <2>4. Left \in Nat /\ Cardinality(pending \ {repo}) = Left - 1 /\ Left - 1 \in Nat
    BY LeftIsFinite, FS_RemoveElement DEF TypeInv, TypeOK, ReposOK
  <2>5. pending \ {NoRepo} = pending /\ repo # NoRepo
    BY DEF TypeInv, TypeOK, ReposOK, Repos, NoRepo
  <2>6. RepositoriesLeft = Left /\ RepositoriesLeft' = Left - 1
    BY <2>1, <2>2, <2>3, <2>4, <2>5 DEF RepositoriesLeft, IntakeNodes
  <2>7. RetriesLeft = 0 /\ RetriesLeft' = MaxRetries - retries
    BY <2>1, <2>2, <2>3, <2>5 DEF RetriesLeft
  <2>8. retries \in 0 .. MaxRetries /\ MaxRetries \in Nat /\ steps \in Nat
    BY BudgetAssumption DEF TypeInv, TypeOK, FailuresOK, ProcessOK, BudgetAssumption
  <2>9. steps + 2 + RepositorySteps * Left <= SuperstepBound
    BY <2>1, <2>6, <2>7, <2>8, WorkIsNatural DEF StepsInv, StepsFrom, RetrySteps
  <2>10. RepositorySteps * Left = RepositorySteps * (Left - 1) + RepositorySteps
    BY <2>4, WorkIsNatural
  <2>11. steps + 1 + 10 + RetrySteps * (MaxRetries - retries) + RepositorySteps * (Left - 1)
            <= SuperstepBound
    <3> DEFINE Rest == RepositorySteps * (Left - 1)
    <3>1. Rest \in Nat /\ SuperstepBound \in Nat
      BY <2>4, WorkIsNatural
    <3>2. steps + 2 + Rest + 9 + RetrySteps * MaxRetries <= SuperstepBound
      BY <2>8, <2>9, <2>10, <3>1 DEF RepositorySteps, RetrySteps
    <3> HIDE DEF Rest
    <3>3. steps + 1 + 10 + RetrySteps * (MaxRetries - retries) + Rest <= SuperstepBound
      BY <2>8, <3>1, <3>2 DEF RetrySteps
    <3> QED
      BY <3>3 DEF Rest
  <2> QED
    BY <2>1, <2>6, <2>7, <2>11 DEF StepsInv, StepsFrom, IntakeNodes, SuperstepBound, RepositorySteps
<1>2. CASE VerifyAdvisory \/ VerifyMavenTarget \/ SelectRoute \/ ApplyPolicy
  <2>1. running /\ steps' = steps + 1 /\ UNCHANGED <<current, pending, retries>>
    BY <1>2 DEF VerifyAdvisory, VerifyMavenTarget, SelectRoute, ApplyPolicy, At, Goto, repoVars,
       failureVars
  <2>2. /\ next \notin IntakeNodes \cup {"detect_maven_profile"}
        /\ next' \notin IntakeNodes \cup {"detect_maven_profile"}
        /\ next' \in Nodes \cup {Finished} /\ StepsFrom[next'] < StepsFrom[next]
    <3>1. CASE VerifyAdvisory \/ VerifyMavenTarget \/ SelectRoute
      BY <3>1 DEF VerifyAdvisory, VerifyMavenTarget, SelectRoute, At, Goto, IntakeNodes, Nodes,
         StepsFrom
    <3>2. CASE ApplyPolicy
      <4>1. next = "apply_policy"
            /\ next' \in {Finished, "review_remediation_approval", "remediate_simple",
                          "remediate_transitive", "prepare_complex_remediation"}
        BY <3>2 DEF ApplyPolicy, At, Goto, SelectPostPolicyNode, SelectRemediationNode
      <4> QED
        BY <4>1 DEF IntakeNodes, Nodes, ReviewNodes, StepsFrom, Finished
    <3> QED
      BY <1>2, <3>1, <3>2
  <2> QED
    BY <2>1, <2>2, Descends
<1> QED
  BY <1>1, <1>2 DEF Planning

LEMMA GatesKeepSteps == TypeInv /\ RunInv /\ StepsInv /\ Gates => StepsInv'
<1> SUFFICES ASSUME TypeInv, RunInv, StepsInv, Gates PROVE StepsInv'
  OBVIOUS
<1>1. running /\ steps' = steps + 1 /\ UNCHANGED <<current, pending, retries>>
  BY DEF Gates, ReviewRemediationApproval, ReviewDeliveryApproval, PrepareDeliveryApproval,
     ReviewApproval, At, Goto, repoVars, failureVars
<1>2. CASE ReviewRemediationApproval \/ ReviewDeliveryApproval
  <2>1. feedback = Undecided
    BY <1>2 DEF ReviewRemediationApproval, ReviewDeliveryApproval, At, RunInv, UndecidedInv, PlanNodes
  <2>2. next' = Finished /\ next \in ReviewNodes
    BY <1>2, <2>1 DEF ReviewRemediationApproval, ReviewDeliveryApproval, At, Goto,
       SelectPostApprovalNode, Undecided, ReviewNodes
  <2> QED
    BY <1>1, <2>2, Descends DEF ReviewNodes, Finished, IntakeNodes, StepsFrom
<1>3. CASE PrepareDeliveryApproval
  <2>1. next = "prepare_delivery_approval" /\ next' = "review_delivery_approval"
    BY <1>3 DEF PrepareDeliveryApproval, At, Goto
  <2> QED
    BY <1>1, <2>1, Descends DEF Nodes, ReviewNodes, IntakeNodes, StepsFrom
<1> QED
  BY <1>2, <1>3 DEF Gates

LEMMA LanesKeepSteps == TypeInv /\ StepsInv /\ Lanes => StepsInv'
<1> SUFFICES ASSUME TypeInv, StepsInv, Lanes PROVE StepsInv'
  OBVIOUS
<1>1. running /\ steps' = steps + 1 /\ UNCHANGED <<current, pending, retries>>
  BY DEF Lanes, RemediateSimple, RemediateTransitive, PreflightValidate, PrepareComplexRemediation,
     ExecuteComplexScaffold, ValidateRemediation, At, Goto, repoVars, failureVars
<1>2. CASE Lanes /\ ~ ValidateRemediation
  BY <1>1, <1>2, Descends
     DEF Lanes, RemediateSimple, RemediateTransitive, PreflightValidate, PrepareComplexRemediation,
         ExecuteComplexScaffold, At, Goto, Nodes, IntakeNodes, StepsFrom
<1>3. CASE ValidateRemediation
  <2>1. next = "validate_remediation"
        /\ next' \in {"handle_validation_failure", "skip_publish_for_dry_run",
                      "prepare_delivery_approval", "publish_remediation"}
    BY <1>3 DEF ValidateRemediation, At, Goto, SelectPostValidationNode
  <2> QED
    BY <1>1, <2>1, Descends DEF Nodes, IntakeNodes, StepsFrom
<1> QED
  BY <1>2, <1>3

LEMMA FailuresKeepSteps == TypeInv /\ StepsInv /\ Failures => StepsInv'
<1> SUFFICES ASSUME TypeInv, StepsInv, Failures PROVE StepsInv'
  OBVIOUS
<1>1. running /\ steps' = steps + 1 /\ UNCHANGED <<current, pending>>
  BY DEF Failures, HandleValidationFailure, ClassifyFailure, Escalate, At, Goto, repoVars
<1>2. CASE HandleValidationFailure \/ Escalate
  BY <1>1, <1>2, Descends DEF HandleValidationFailure, Escalate, At, Goto, Nodes, Finished,
     IntakeNodes, StepsFrom
<1>3. CASE ClassifyFailure
  <2>1. next = "classify_failure" /\ next' = FailureTarget
        /\ retries' = IF FailureTarget = "escalate" THEN retries ELSE retries + 1
    BY <1>3 DEF ClassifyFailure, At, Goto
  <2>2. CASE FailureTarget = "escalate"
    BY <1>1, <2>1, <2>2, Descends DEF Nodes, IntakeNodes, StepsFrom
  <2>3. CASE FailureTarget # "escalate"
    <3>1. FailureTarget \in RetryLanes \cup {"publish_remediation"} /\ retries < MaxRetries
      BY <2>3, FailureTargetType DEF TypeInv
    <3>2. current # NoRepo
      <4>1. SelectRetryNode(error, route) # "none"
        BY <2>3 DEF FailureTarget, CanRetry
      <4>2. CASE error.code \in DeliveryCodes
        BY <1>1, <2>1, <4>2 DEF TypeInv, InHand, RepoInHand
      <4>3. CASE error.code \notin DeliveryCodes
        BY <4>1, <4>3 DEF SelectRetryNode, LaneOf, NoRoute, TypeInv, InHand, RepoInHand
      <4> QED
        BY <4>2, <4>3
    <3>3. StepsFrom[next] = 2 /\ StepsFrom[next'] \in 3 .. 6
      BY <2>1, <3>1 DEF StepsFrom, RetryLanes
    <3>4. RetriesLeft = MaxRetries - retries /\ RetriesLeft' = MaxRetries - retries - 1
      BY <1>1, <2>1, <2>3, <3>2, BudgetAssumption
         DEF RetriesLeft, TypeInv, TypeOK, FailuresOK, BudgetAssumption
    <3>5. RepositoriesLeft' = RepositoriesLeft
      BY <1>1, <2>1, <3>1 DEF RepositoriesLeft, IntakeNodes, RetryLanes
    <3>6. steps' + StepsFrom[next'] + RetrySteps * RetriesLeft' + RepositorySteps * RepositoriesLeft
             <= SuperstepBound
      <4> DEFINE Rest == RepositorySteps * RepositoriesLeft
      <4>1. Rest \in Nat /\ SuperstepBound \in Nat /\ RetriesLeft \in Nat
        BY WorkIsNatural
      <4>2. steps \in Nat /\ retries \in Nat /\ MaxRetries \in Nat
        BY BudgetAssumption DEF TypeInv, TypeOK, ProcessOK, FailuresOK, BudgetAssumption
      <4>3. steps + 2 + RetrySteps * RetriesLeft + Rest <= SuperstepBound
        BY <1>1, <3>3 DEF StepsInv
      <4> HIDE DEF Rest
      <4>4. steps' + StepsFrom[next'] + RetrySteps * RetriesLeft' + Rest <= SuperstepBound
        BY <1>1, <3>3, <3>4, <4>1, <4>2, <4>3 DEF RetrySteps
      <4> QED
        BY <4>4 DEF Rest
    <3> QED
      BY <2>1, <3>1, <3>5, <3>6
         DEF StepsInv, IntakeNodes, RetryLanes, SuperstepBound, RepositorySteps, RetrySteps
  <2> QED
    BY <2>2, <2>3
<1> QED
  BY <1>2, <1>3 DEF Failures

LEMMA DeliveryKeepsSteps == TypeInv /\ StepsInv /\ Delivery => StepsInv'
<1> SUFFICES ASSUME TypeInv, StepsInv, Delivery PROVE StepsInv'
  OBVIOUS
<1>1. running /\ steps' = steps + 1 /\ next \in {"publish_remediation", "skip_publish_for_dry_run"}
      /\ steps \in Nat
  BY BudgetAssumption
     DEF Delivery, PublishRemediation, PublicationSucceeds, PublicationFails, SkipPublishForDryRun,
         At, Goto, TypeInv, TypeOK, ProcessOK, BudgetAssumption
<1>2. CASE At("publish_remediation") /\ PublicationFails
  <2>1. next = "publish_remediation" /\ next' = "classify_failure"
        /\ UNCHANGED <<current, pending, retries>>
    BY <1>2 DEF PublicationFails, At, Goto, repoVars
  <2> QED
    BY <1>1, <2>1, Descends DEF Nodes, IntakeNodes, StepsFrom
<1>3. ASSUME RepoContinuation(current), Goto(SelectPostDeliveryNode(Remaining(current)))
      PROVE  StepsInv'
  <2>1. CASE Remaining(current) = {}
    BY <1>3, <2>1 DEF SelectPostDeliveryNode, Goto, StepsInv, Finished
  <2>2. CASE Remaining(current) # {}
    <3>1. pending' = pending \ {current} /\ current' = NoRepo /\ next' = "detect_maven_profile"
      BY <1>3, <2>2 DEF RepoContinuation, Remaining, SelectPostDeliveryNode, Goto
    <3>2. pending' \ {NoRepo} = pending'
      BY <3>1 DEF TypeInv, TypeOK, ReposOK, Repos, NoRepo
    <3>3. RepositoriesLeft' = RepositoriesLeft /\ RetriesLeft' = 0
      BY <1>1, <3>1, <3>2 DEF RepositoriesLeft, RetriesLeft, IntakeNodes
    <3>4. StepsFrom[next] = 3 /\ StepsFrom[next'] = 2
      BY <1>1, <3>1 DEF StepsFrom
    <3>5. steps' + 2 + RetrySteps * 0 + RepositorySteps * RepositoriesLeft <= SuperstepBound
      <4> DEFINE Work == RetrySteps * RetriesLeft
                 Rest == RepositorySteps * RepositoriesLeft
      <4>1. Work \in Nat /\ Rest \in Nat /\ SuperstepBound \in Nat
        BY WorkIsNatural
      <4>2. steps + 3 + Work + Rest <= SuperstepBound
        BY <1>1, <3>4 DEF StepsInv
      <4> HIDE DEF Work, Rest
      <4>3. steps' + 2 + RetrySteps * 0 + Rest <= SuperstepBound
        BY <1>1, <4>1, <4>2 DEF RetrySteps
      <4> QED
        BY <4>3 DEF Rest
    <3> QED
      BY <3>1, <3>3, <3>4, <3>5 DEF StepsInv, SuperstepBound, RepositorySteps, RetrySteps
  <2> QED
    BY <2>1, <2>2
<1>4. CASE SkipPublishForDryRun
  BY <1>3, <1>4 DEF SkipPublishForDryRun
<1>5. CASE At("publish_remediation") /\ PublicationSucceeds
  BY <1>3, <1>5 DEF PublicationSucceeds
<1> QED
  BY <1>2, <1>4, <1>5 DEF Delivery, PublishRemediation

\* Every invocation starts with enough in hand.
LEMMA OthersKeepSteps == TypeInv /\ StepsInv /\ (InvocationDies \/ Operator) => StepsInv'
<1> SUFFICES ASSUME TypeInv, StepsInv, InvocationDies \/ Operator PROVE StepsInv'
  OBVIOUS
<1> DEFINE Rest == RepositorySteps * NumRepos
<1>1. CASE InvocationDies
  BY <1>1 DEF InvocationDies, StepsInv
<1>2. CASE Bootstrap
  <2>1. steps' = 0 /\ next' = "bootstrap_state" /\ current' = NoRepo
    BY <1>2 DEF Bootstrap, Invoke, ResetState
  <2>2. StepsFrom[next'] = 7 /\ RetriesLeft' = 0 /\ RepositoriesLeft' = NumRepos
    BY <2>1 DEF StepsFrom, RetriesLeft, RepositoriesLeft, IntakeNodes
  <2>3. Rest \in Nat /\ SuperstepBound = 7 + Rest
    BY WorkIsNatural, ReposAssumption DEF SuperstepBound
  <2>4. 0 + 7 + RetrySteps * 0 + RepositorySteps * NumRepos <= SuperstepBound
    <3> HIDE DEF Rest
    <3>1. 0 + 7 + RetrySteps * 0 + Rest <= SuperstepBound
      BY <2>3 DEF RetrySteps
    <3> QED
      BY <3>1 DEF Rest
  <2> QED
    BY <2>1, <2>2, <2>4 DEF StepsInv, SuperstepBound, RepositorySteps, RetrySteps
<1>3. CASE Decide
  <2> PICK decision \in Decisions :
        /\ ReviewApproval(DecisionStage, decision)
        /\ next' = SelectPostApprovalNode(DecisionStage, decision, route)
        /\ steps' = 0
        /\ route # NoRoute \/ DecisionStage = "delivery" \/ decision = "rejected"
    BY <1>3 DEF Decide, Invoke
  <2>1. UNCHANGED <<current, pending, retries>>
    BY DEF ReviewApproval, repoVars
  <2>2. next' \in {"remediate_simple", "remediate_transitive", "prepare_complex_remediation",
                   "publish_remediation", "classify_failure", Finished}
    BY DEF SelectPostApprovalNode, SelectRemediationNode
  <2>3. next' \notin IntakeNodes \cup {"detect_maven_profile"} /\ StepsFrom[next'] \in 0 .. 6
        /\ (current = NoRepo => StepsFrom[next'] \in 0 .. 2)
    <3>1. current = NoRepo => next' \in {"classify_failure", Finished}
      BY DEF TypeInv, InHand, RepoInHand, DecisionStage, SelectPostApprovalNode, Decisions, NoStage
    <3> QED
      BY <2>2, <3>1 DEF IntakeNodes, StepsFrom, Finished
  <2> DEFINE Left == Cardinality(pending \ {current})
  <2>4. RepositoriesLeft' = Left
    BY <2>1, <2>3 DEF RepositoriesLeft
  <2>5. CASE current = NoRepo
    <3>1. RetriesLeft' = 0 /\ Left \in 0 .. NumRepos
      BY <2>1, <2>5, LeftIsFinite DEF RetriesLeft, TypeInv, TypeOK, ReposOK
    <3>2. RepositorySteps * Left <= Rest /\ RepositorySteps * Left \in Nat
          /\ SuperstepBound = 7 + Rest /\ Rest \in Nat
      BY <3>1, WorkIsNatural, ReposAssumption, ProductMonotone DEF SuperstepBound
    <3>3. 0 + StepsFrom[next'] + RetrySteps * 0 + RepositorySteps * Left <= SuperstepBound
      <4> DEFINE Product == RepositorySteps * Left
      <4> HIDE DEF Rest, Product, Left
      <4>1. StepsFrom[next'] + RetrySteps * 0 + Product <= SuperstepBound
        BY <2>3, <2>5, <3>2 DEF RetrySteps, Product
      <4> QED
        BY <2>3, <3>2, <4>1 DEF Product, RetrySteps
    <3> QED
      BY <2>3, <2>4, <3>1, <3>3 DEF StepsInv, SuperstepBound, RepositorySteps, RetrySteps
  <2>6. CASE current # NoRepo
    <3>1. retries \in 0 .. MaxRetries /\ MaxRetries \in Nat /\ RetriesLeft' = MaxRetries - retries
      BY <2>1, <2>6, BudgetAssumption DEF RetriesLeft, TypeInv, TypeOK, FailuresOK, BudgetAssumption
    <3>2. Left \in 0 .. NumRepos - 1
      <4>1. current \in Repos /\ pending \ {current} \in SUBSET Repos
        BY <2>6 DEF TypeInv, TypeOK, ReposOK
      <4>2. IsFiniteSet(Repos) /\ Cardinality(Repos) = NumRepos
        BY ReposAssumption, FS_Interval DEF Repos
      <4>3. Cardinality(Repos \ {current}) = NumRepos - 1 /\ IsFiniteSet(Repos \ {current})
        BY <4>1, <4>2, FS_RemoveElement
      <4>4. Left <= NumRepos - 1
        BY <4>1, <4>3, FS_Subset
      <4> QED
        BY <4>1, <4>4, LeftIsFinite, ReposAssumption
    <3>3. /\ RepositorySteps * Left <= RepositorySteps * (NumRepos - 1)
          /\ RepositorySteps * Left \in Nat
          /\ RepositorySteps * NumRepos = RepositorySteps * (NumRepos - 1) + RepositorySteps
      BY <3>2, WorkIsNatural, ReposAssumption, ProductMonotone
    <3>4. 0 + StepsFrom[next'] + RetrySteps * (MaxRetries - retries) + RepositorySteps * Left
             <= SuperstepBound
      <4> DEFINE Product == RepositorySteps * Left
                 Others == RepositorySteps * (NumRepos - 1)
      <4>1. Others \in Nat
        BY <3>2, WorkIsNatural, ReposAssumption
      <4>2. SuperstepBound = 7 + Others + 9 + RetrySteps * MaxRetries /\ Product <= Others
        BY <3>1, <3>3, <4>1 DEF SuperstepBound, RepositorySteps, RetrySteps
      <4>3. Product \in Nat
        BY <3>3
      <4> HIDE DEF Product, Others, Left
      <4>4. StepsFrom[next'] + RetrySteps * (MaxRetries - retries) + Product <= SuperstepBound
        BY <2>3, <3>1, <4>1, <4>2, <4>3 DEF RetrySteps
      <4>5. 0 + StepsFrom[next'] = StepsFrom[next']
        BY <2>3
      <4> QED
        BY <4>4, <4>5 DEF Product
    <3> QED
      BY <2>3, <2>4, <3>1, <3>4 DEF StepsInv, SuperstepBound, RepositorySteps, RetrySteps
  <2> QED
    BY <2>5, <2>6
<1>4. CASE Resume \/ Abort
  BY <1>4 DEF Resume, Abort, Command, process, StepsInv
<1> QED
  BY <1>1, <1>2, <1>3, <1>4 DEF Operator

LEMMA StepsInvariant == Spec => []StepsInv
<1>1. Init => StepsInv
  BY DEF Init, StepsInv
<1>2. TypeInv /\ RunInv /\ ReposInv /\ StepsInv /\ [Next]_vars => StepsInv'
  <2>1. TypeInv /\ RunInv /\ ReposInv /\ StepsInv /\ Next => StepsInv'
    BY IntakeKeepsSteps, PlanningKeepsSteps, GatesKeepSteps, LanesKeepSteps, FailuresKeepSteps,
       DeliveryKeepsSteps, OthersKeepSteps DEF Next, GraphStep
  <2>2. StepsInv /\ UNCHANGED vars => StepsInv'
    BY DEF StepsInv, RetriesLeft, RepositoriesLeft, vars, process, repoVars, failureVars,
           SuperstepBound, RepositorySteps
  <2> QED
    BY <2>1, <2>2
<1> QED
  BY <1>1, <1>2, TypeInvariant, RunInvariant, ReposInvariant, PTL DEF Spec

\* An invocation that goes on has a node to run: Goto and Invoke stop it at END.
RunningGoesOn == running => next # Finished

LEMMA NodesGoOn == ASSUME NEW node, Goto(node) PROVE RunningGoesOn'
  BY DEF Goto, RunningGoesOn

LEMMA RunningInvariant == Spec => []RunningGoesOn
<1>1. Init => RunningGoesOn
  BY DEF Init, RunningGoesOn
<1>2. RunningGoesOn /\ [Next]_vars => RunningGoesOn'
  <2> SUFFICES ASSUME RunningGoesOn, [Next]_vars PROVE RunningGoesOn'
    OBVIOUS
  <2>1. CASE Intake \/ Planning
    BY <2>1, NodesGoOn
       DEF Intake, BootstrapState, ProbeCredentials, IngestAndParseJira,
           LoadRepositoryContext, CheckRepositoryIdempotency,
           Planning, DetectMavenProfile, VerifyAdvisory, VerifyMavenTarget, SelectRoute,
           ApplyPolicy
  <2>2. CASE Gates \/ Lanes
    BY <2>2, NodesGoOn
       DEF Gates, ReviewRemediationApproval, ReviewDeliveryApproval, PrepareDeliveryApproval,
           Lanes, RemediateSimple, RemediateTransitive, PreflightValidate,
           PrepareComplexRemediation, ExecuteComplexScaffold, ValidateRemediation
  <2>3. CASE Failures \/ Delivery
    BY <2>3, NodesGoOn
       DEF Failures, HandleValidationFailure, ClassifyFailure, Escalate,
           Delivery, PublishRemediation, PublicationSucceeds, PublicationFails,
           SkipPublishForDryRun
  <2>4. CASE InvocationDies
    BY <2>4 DEF InvocationDies, RunningGoesOn
  <2>5. CASE Bootstrap \/ Decide
    BY <2>5 DEF Bootstrap, Decide, Invoke, RunningGoesOn
  <2>6. CASE Resume \/ Abort
    BY <2>6 DEF Resume, Abort, Command, process, RunningGoesOn
  <2>7. CASE UNCHANGED vars
    BY <2>7 DEF vars, process, RunningGoesOn
  <2> QED
    BY <2>1, <2>2, <2>3, <2>4, <2>5, <2>6, <2>7 DEF Next, GraphStep, Operator
<1> QED
  BY <1>1, <1>2, PTL DEF Spec

(* SuperstepBound supersteps are enough for an invocation, however the       *)
(* validation, the publication and the operator behave: no repository       *)
(* after another and no retry runs into GraphRecursionError.  With the 64   *)
(* of build_thread_config this is two repositories for the default budget   *)
(* of three retries.                                                        *)
THEOREM SuperstepsSuffice ==
    ASSUME SuperstepBound <= RecursionLimit
    PROVE  Spec => []WithinRecursionLimit
<1>1. TypeInv /\ StepsInv /\ RunningGoesOn => WithinRecursionLimit
  <2> SUFFICES ASSUME TypeInv, StepsInv, RunningGoesOn, running, ~ (steps < RecursionLimit) PROVE FALSE
    BY DEF WithinRecursionLimit
  <2> DEFINE Work == RetrySteps * RetriesLeft
             Rest == RepositorySteps * RepositoriesLeft
  <2>1. Work \in Nat /\ Rest \in Nat /\ SuperstepBound \in Nat
    BY WorkIsNatural
  <2>2. steps \in 0 .. RecursionLimit /\ RecursionLimit \in Nat
    BY BudgetAssumption DEF TypeInv, TypeOK, ProcessOK, BudgetAssumption
  <2>3. steps + StepsFrom[next] + Work + Rest <= SuperstepBound
    BY DEF StepsInv
  <2>4. StepsFrom[next] \in 1 .. 10
    <3>1. next # Finished
      BY DEF RunningGoesOn
    <3> QED
      BY <3>1 DEF TypeInv, TypeOK, ProcessOK, StepsFrom, Nodes, ReviewNodes, Finished
  <2> HIDE DEF Work, Rest
  <2> QED
    BY <2>1, <2>2, <2>3, <2>4
<1> QED
  BY <1>1, TypeInvariant, StepsInvariant, RunningInvariant, PTL

-----------------------------------------------------------------------------
(* How an invocation ends. *)

\* A review node is reached with its approval awaited: from apply_policy, which
\* asks for it, or from prepare_delivery_approval.  The policy judges a route.
EndInv ==
    /\ running /\ next \in ReviewNodes => stage # NoStage
    /\ running /\ next = "apply_policy" => route # NoRoute

LEMMA EndInvariant == Spec => []EndInv
<1>1. Init => EndInv
  BY DEF Init, EndInv
<1>2. TypeInv /\ EndInv /\ [Next]_vars => EndInv'
  <2> SUFFICES ASSUME TypeInv, EndInv, [Next]_vars PROVE EndInv'
    OBVIOUS
  <2> USE DEF EndInv, ReviewNodes, Goto, NoStage, NoRoute, planVars
  <2>1. CASE Intake
    BY <2>1 DEF Intake, BootstrapState, ProbeCredentials, IngestAndParseJira,
           LoadRepositoryContext, CheckRepositoryIdempotency, Finished
  <2>2. CASE Planning
    BY <2>2 DEF Planning, DetectMavenProfile, VerifyAdvisory, VerifyMavenTarget, SelectRoute,
           ApplyPolicy, RouteDecision, SelectPostPolicyNode, SelectRemediationNode, Finished
  <2>3. CASE Gates
    BY <2>3 DEF Gates, ReviewRemediationApproval, ReviewDeliveryApproval,
           PrepareDeliveryApproval, SelectPostApprovalNode, SelectRemediationNode, Finished
  <2>4. CASE Lanes
    BY <2>4 DEF Lanes, RemediateSimple, RemediateTransitive, PreflightValidate,
           PrepareComplexRemediation, ExecuteComplexScaffold, ValidateRemediation,
           SelectPostValidationNode
  <2>5. CASE Failures
    BY <2>5, FailureTargetType
       DEF Failures, HandleValidationFailure, ClassifyFailure, Escalate, TypeInv, RetryLanes,
           Finished
  <2>6. CASE Delivery
    BY <2>6 DEF Delivery, PublishRemediation, PublicationSucceeds, PublicationFails,
           SkipPublishForDryRun, SelectPostDeliveryNode, Finished
  <2>7. CASE InvocationDies
    BY <2>7 DEF InvocationDies
  <2>8. CASE Bootstrap
    BY <2>8 DEF Bootstrap, Invoke
  <2>9. CASE Decide
    BY <2>9 DEF Decide, Invoke, SelectPostApprovalNode, SelectRemediationNode, Decisions, Finished
  <2>10. CASE Resume \/ Abort
    BY <2>10 DEF Resume, Abort, Command, process
  <2>11. CASE UNCHANGED vars
    BY <2>11 DEF vars, process, planVars, approvalVars
  <2> QED
    BY <2>1, <2>2, <2>3, <2>4, <2>5, <2>6, <2>7, <2>8, <2>9, <2>10, <2>11
       DEF Next, GraphStep, Operator
<1> QED
  BY <1>1, <1>2, TypeInvariant, PTL DEF Spec

(* An invocation that comes to its own end, at END or before a review node,  *)
(* leaves a state that asks for something: the ticket is completed or       *)
(* failed, a decision is awaited, or the target could not be trusted.       *)
(* Together with SuperstepsSuffice this is what InvocationSettles promises, *)
(* for any number of repositories and with any decisions.                   *)
THEOREM EndsAreSettled == Spec => [][GraphStep /\ ~ running' => Settled']_vars
<1> DEFINE Ends == GraphStep /\ ~ running' => Settled'
<1>1. TypeInv /\ RunInv /\ EndInv /\ [Next]_vars => [Ends]_vars
  <2> SUFFICES ASSUME TypeInv, RunInv, EndInv, GraphStep, ~ running' PROVE Settled'
    OBVIOUS
  <2> USE DEF Settled, At, Goto, Finished, ReviewNodes
  <2>1. CASE Intake
    BY <2>1 DEF Intake, BootstrapState, ProbeCredentials, IngestAndParseJira,
           LoadRepositoryContext, CheckRepositoryIdempotency
  <2>2. CASE DetectMavenProfile \/ VerifyAdvisory \/ VerifyMavenTarget \/ SelectRoute
    BY <2>2 DEF DetectMavenProfile, VerifyAdvisory, VerifyMavenTarget, SelectRoute
  <2>3. CASE ApplyPolicy
    BY <2>3 DEF ApplyPolicy, SelectPostPolicyNode, SelectRemediationNode, TypeInv, TypeOK, PlanOK,
                EndInv, Strategies, NoRoute, NoStage, planVars
  <2>4. CASE Gates
    <3>1. CASE PrepareDeliveryApproval
      BY <3>1 DEF PrepareDeliveryApproval, NoStage
    <3>2. CASE ReviewRemediationApproval \/ ReviewDeliveryApproval
      <4>1. running /\ next \in ReviewNodes /\ feedback = Undecided
        BY <3>2 DEF ReviewRemediationApproval, ReviewDeliveryApproval, RunInv, UndecidedInv,
                    PlanNodes
      <4> QED
        BY <3>2, <4>1 DEF ReviewRemediationApproval, ReviewDeliveryApproval, ReviewApproval,
                          EndInv
    <3> QED
      BY <2>4, <3>1, <3>2 DEF Gates
  <2>5. CASE Lanes
    BY <2>5 DEF Lanes, RemediateSimple, RemediateTransitive, PreflightValidate,
           PrepareComplexRemediation, ExecuteComplexScaffold, ValidateRemediation,
           SelectPostValidationNode
  <2>6. CASE Failures
    BY <2>6, FailureTargetType
       DEF Failures, HandleValidationFailure, ClassifyFailure, Escalate, TypeInv, RetryLanes
  <2>7. CASE Delivery
    BY <2>7 DEF Delivery, PublishRemediation, PublicationSucceeds, PublicationFails,
           SkipPublishForDryRun, RepoContinuation, SelectPostDeliveryNode
  <2> QED
    BY <2>1, <2>2, <2>3, <2>4, <2>5, <2>6, <2>7 DEF GraphStep, Planning
<1> QED
  BY <1>1, TypeInvariant, RunInvariant, EndInvariant, PTL DEF Spec

=============================================================================
