------------------------- MODULE PublicationSafety -------------------------
(* What is published, for an operator who decides only when a decision is  *)
(* awaited (StrayDecisions = FALSE): it is validated and approved, it is   *)
(* retried within the budgets, and the workflow implements TicketLedger.   *)
EXTENDS RemediationSafety

\* classify_failure may send the latest failure back to publication.
Republishable == running /\ next = "classify_failure" /\ error.code \in DeliveryCodes

\* The run is past the validation that the repository in hand passed.
Validated ==
    \/ stage = "delivery"
    \/ Republishable
    \/ /\ running
       /\ next \in {"prepare_delivery_approval", "review_delivery_approval",
                    "skip_publish_for_dry_run", "publish_remediation"}

(***************************************************************************)
(* PublicationIsValidated and PublicationIsApproved are not inductive.  An *)
(* approval is awaited only at a gate; a lane starts with no delivery      *)
(* approval on record and nothing delivered; and what validation found     *)
(* still holds at the second gate and while publication is retried.        *)
(***************************************************************************)
StageInv == running /\ next \notin ReviewNodes => stage = NoStage

FreshInv ==
    /\ running /\ next \in PlanNodes => approvals = {} /\ delivered = 0
    /\ stage = "remediation" => "delivery" \notin approvals /\ delivered = 0
    /\ (running /\ next \in WorkNodes \cup {"prepare_delivery_approval"}) \/ LaneRetriable =>
          "delivery" \notin approvals /\ delivered = 0

ValidatedInv ==
    /\ Validated => validated /\ result = Passed /\ (needsHuman => "remediation" \in granted)
    /\ stage = "delivery" => delivered = 0

PublishInv ==
    (running /\ next = "publish_remediation") \/ Republishable =>
        /\ delivered > 0 => branchFresh
        /\ needsDelivery => "delivery" \in granted

PubInv == StageInv /\ FreshInv /\ ValidatedInv /\ PublishInv

\* A run that goes on, or waits at a gate.
Continuing == (running /\ next # "escalate") \/ stage # NoStage

(* Every attempt of a run that goes on is a retry.                          *)
BudgetInv ==
    /\ RetryBudget
    /\ Continuing =>
          attempts = retries /\ (attempts < MaxTotalAttempts \/ attempts = 0)

-----------------------------------------------------------------------------
Known == TypeInv /\ RunInv /\ PubInv

LEMMA IntakeKeepsPub == Known /\ Intake => PubInv'
BY DEF Known, PubInv, StageInv, FreshInv, ValidatedInv, PublishInv, Validated, Republishable,
       LaneRetriable, PlanNodes, IntakeNodes, WorkNodes, RetryLanes, ReviewNodes, Intake,
       BootstrapState, ProbeCredentials, IngestAndParseJira, LoadRepositoryContext,
       CheckRepositoryIdempotency, At, Goto, Finished, gateVars, approvalVars, failureVars, workVars

LEMMA PlanningKeepsPub == Known /\ Planning => PubInv'
<1> SUFFICES ASSUME Known, Planning PROVE PubInv'
  OBVIOUS
<1> USE DEF Known, PubInv, StageInv, FreshInv, ValidatedInv, PublishInv, Validated, Republishable,
            LaneRetriable, PlanNodes, IntakeNodes, WorkNodes, RetryLanes, ReviewNodes, At, Goto,
            Finished
<1>1. CASE DetectMavenProfile \/ VerifyAdvisory \/ VerifyMavenTarget
  BY <1>1 DEF DetectMavenProfile, VerifyAdvisory, VerifyMavenTarget, gateVars, approvalVars, workVars
<1>2. CASE SelectRoute
  <2>1. /\ next' = "apply_policy" /\ stage = NoStage /\ approvals = {} /\ delivered = 0
        /\ UNCHANGED <<stage, approvals, delivered>>
    BY <1>2 DEF SelectRoute, approvalVars, workVars
  <2> QED
    BY <2>1 DEF NoStage
<1>3. CASE ApplyPolicy
  <2>1. /\ next' = SelectPostPolicyNode(allowed', needsHuman', route)
        /\ stage' = IF needsHuman' THEN "remediation" ELSE NoStage
        /\ UNCHANGED <<approvals, delivered>>
    BY <1>3 DEF ApplyPolicy, workVars
  <2>2. approvals = {} /\ delivered = 0
    BY <1>3 DEF ApplyPolicy
  <2>3. next' \in {Finished, "review_remediation_approval", "remediate_simple",
                   "remediate_transitive", "prepare_complex_remediation"}
    BY <2>1 DEF SelectPostPolicyNode, SelectRemediationNode
  <2>4. running' /\ next' \notin ReviewNodes => ~ needsHuman'
    BY <1>3 DEF ApplyPolicy, SelectPostPolicyNode
  <2>5. StageInv'
    BY <2>1, <2>4
  <2>6. FreshInv'
    BY <2>2, <2>1
  <2>7. ~ Validated'
    BY <2>1, <2>3 DEF NoStage
  <2> QED
    BY <2>5, <2>6, <2>7, <2>3
<1> QED
  BY <1>1, <1>2, <1>3 DEF Planning

LEMMA GatesKeepPub == Known /\ Gates => PubInv'
<1> SUFFICES ASSUME Known, Gates PROVE PubInv'
  OBVIOUS
<1> USE DEF Known, PubInv, StageInv, FreshInv, ValidatedInv, PublishInv, Validated, Republishable,
            LaneRetriable, PlanNodes, IntakeNodes, WorkNodes, RetryLanes, ReviewNodes, At, Goto,
            Finished
<1>1. CASE ReviewRemediationApproval \/ ReviewDeliveryApproval
  <2>1. feedback = Undecided
    BY <1>1 DEF ReviewRemediationApproval, ReviewDeliveryApproval, RunInv, UndecidedInv
  <2>2. UNCHANGED <<stage, approvals, delivered, result, validated, needsHuman, granted>>
    BY <1>1, <2>1 DEF ReviewRemediationApproval, ReviewDeliveryApproval, ReviewApproval, Undecided,
                      gateVars
  <2>3. ~ running'
    BY <1>1, <2>1 DEF ReviewRemediationApproval, ReviewDeliveryApproval, SelectPostApprovalNode,
                      Undecided
  <2> QED
    BY <2>2, <2>3
<1>2. CASE PrepareDeliveryApproval
  BY <1>2 DEF PrepareDeliveryApproval, gateVars, failureVars, workVars
<1> QED
  BY <1>1, <1>2 DEF Gates

LEMMA LanesKeepPub == Known /\ Lanes => PubInv'
<1> SUFFICES ASSUME Known, Lanes PROVE PubInv'
  OBVIOUS
<1> USE DEF Known, PubInv, StageInv, FreshInv, ValidatedInv, PublishInv, Validated, Republishable,
            LaneRetriable, PlanNodes, IntakeNodes, WorkNodes, RetryLanes, ReviewNodes, At, Goto,
            Finished
<1>1. CASE RemediateSimple \/ RemediateTransitive \/ ExecuteComplexScaffold
  BY <1>1 DEF RemediateSimple, RemediateTransitive, ExecuteComplexScaffold, EditWorkspace,
              gateVars, approvalVars, NoStage
<1>2. CASE PreflightValidate \/ PrepareComplexRemediation
  BY <1>2 DEF PreflightValidate, PrepareComplexRemediation, gateVars, approvalVars, workVars, NoStage
<1>3. CASE ValidateRemediation
  <2> PICK failed \in CheckResults :
        /\ result' = failed
        /\ validated' = (failed = Passed)
        /\ next' = SelectPostValidationNode(failed)
    BY <1>3 DEF ValidateRemediation
  <2>1. stage = NoStage /\ "delivery" \notin approvals /\ delivered = 0
        /\ (needsHuman => "remediation" \in granted)
    BY <1>3 DEF ValidateRemediation, RunInv, ApprovedInv
  <2>2. UNCHANGED <<stage, approvals, delivered, needsHuman, needsDelivery, granted>>
    BY <1>3 DEF ValidateRemediation, gateVars, approvalVars
  <2>3. CASE failed = Passed
    <3>1. next' \in {"skip_publish_for_dry_run", "prepare_delivery_approval", "publish_remediation"}
      BY <2>3 DEF SelectPostValidationNode
    <3>2. next' = "publish_remediation" => ~ needsDelivery
      BY <2>1, <2>3 DEF SelectPostValidationNode
    <3>3. StageInv' /\ FreshInv'
      BY <2>1, <2>2, <3>1 DEF NoStage
    <3>4. ValidatedInv'
      BY <2>1, <2>2, <2>3 DEF NoStage
    <3>5. PublishInv'
      BY <2>1, <2>2, <3>1, <3>2
    <3> QED
      BY <3>3, <3>4, <3>5
  <2>4. CASE failed # Passed
    <3>1. next' = "handle_validation_failure"
      BY <2>4 DEF SelectPostValidationNode
    <3> QED
      BY <2>1, <2>2, <3>1 DEF NoStage
  <2> QED
    BY <2>3, <2>4
<1> QED
  BY <1>1, <1>2, <1>3 DEF Lanes

(* A failed validation never looks like a failed delivery.                  *)
LEMMA ValidationErrorCodeIsNotDelivery ==
    ASSUME NEW failed \in ValidationResults
    PROVE  ValidationErrorCode(failed) \notin DeliveryCodes
<1>1. CASE failed = Passed
  BY <1>1 DEF ValidationErrorCode, DeliveryCodes
<1>2. CASE failed # Passed
  <2>1. First(failed) \in Checks
    BY <1>2, FirstIsMember DEF ValidationResults, Passed
  <2> QED
    BY <1>2, <2>1 DEF ValidationErrorCode, ValidationCodeOf, Checks, CheckOrder, DeliveryCodes
<1> QED
  BY <1>1, <1>2

(* Publication is retried only for a delivery failure.                      *)
LEMMA RepublishOnlyDelivery ==
    ASSUME TypeOK, FailureTarget = "publish_remediation"
    PROVE  error.code \in DeliveryCodes
<1>1. SelectRetryNode(error, route) = "publish_remediation"
  BY DEF FailureTarget
<1>2. route \in Strategies \cup {NoRoute}
  BY DEF TypeOK, PlanOK
<1> QED
  BY <1>1, <1>2 DEF SelectRetryNode, LaneOf, Strategies, NoRoute

LEMMA FailuresKeepPub == Known /\ Failures => PubInv'
<1> SUFFICES ASSUME Known, Failures PROVE PubInv'
  OBVIOUS
<1>1. CASE HandleValidationFailure
  <2>1. /\ next' = "classify_failure"
        /\ UNCHANGED <<stage, approvals, result, delivered, granted, validated>>
    BY <1>1 DEF HandleValidationFailure, Goto, approvalVars, workVars
  <2>2. stage = NoStage /\ "delivery" \notin approvals /\ delivered = 0
    BY <1>1 DEF HandleValidationFailure, At, Known, PubInv, StageInv, FreshInv, WorkNodes, ReviewNodes
  <2>3. result \in ValidationResults
    BY <1>1 DEF HandleValidationFailure, At, Known, TypeInv, InHand, ResultInHand, TypeOK, WorkOK
  <2>4. error'.code \notin DeliveryCodes
    BY <1>1, <2>3, ValidationErrorCodeIsNotDelivery DEF HandleValidationFailure
  <2> QED
    BY <2>1, <2>2, <2>4
       DEF PubInv, StageInv, FreshInv, ValidatedInv, PublishInv, Validated, Republishable, NoStage,
           PlanNodes, IntakeNodes, WorkNodes, RetryLanes
<1>2. CASE ClassifyFailure
  <2>1. /\ next' = FailureTarget /\ running /\ next = "classify_failure"
        /\ UNCHANGED <<needsHuman, needsDelivery, stage, approvals, result, delivered, granted,
                       validated, branchFresh>>
    BY <1>2 DEF ClassifyFailure, At, Goto, gateVars, approvalVars, workVars
  <2>2. stage = NoStage
    BY <2>1 DEF Known, PubInv, StageInv, ReviewNodes
  <2>3. CASE FailureTarget \in RetryLanes
    <3>1. "delivery" \notin approvals /\ delivered = 0
      BY <2>1, <2>3, RetryIsLaneRetriable DEF Known, PubInv, FreshInv
    <3> QED
      BY <2>1, <2>2, <2>3, <3>1
         DEF PubInv, StageInv, FreshInv, ValidatedInv, PublishInv, Validated, Republishable, NoStage,
             LaneRetriable, PlanNodes, IntakeNodes, RetryLanes
  <2>4. CASE FailureTarget = "publish_remediation"
    <3>1. error.code \in DeliveryCodes
      BY <2>4, RepublishOnlyDelivery DEF Known, TypeInv
    <3>2. Republishable
      BY <2>1, <3>1 DEF Republishable
    <3> QED
      BY <2>1, <2>2, <2>4, <3>2
         DEF Known, PubInv, StageInv, FreshInv, ValidatedInv, PublishInv, Validated, Republishable,
             NoStage, LaneRetriable, PlanNodes, IntakeNodes, WorkNodes, RetryLanes
  <2>5. CASE FailureTarget = "escalate"
    BY <2>1, <2>2, <2>5
       DEF PubInv, StageInv, FreshInv, ValidatedInv, PublishInv, Validated, Republishable, NoStage,
           LaneRetriable, PlanNodes, IntakeNodes, WorkNodes, RetryLanes
  <2> QED
    BY <2>3, <2>4, <2>5, FailureTargetType DEF Known, TypeInv
<1>3. CASE Escalate
  <2>1. ~ running' /\ UNCHANGED stage
    BY <1>3 DEF Escalate, Goto, Finished, approvalVars
  <2>2. stage = NoStage
    BY <1>3 DEF Escalate, At, Known, PubInv, StageInv, ReviewNodes
  <2> QED
    BY <2>1, <2>2 DEF PubInv, StageInv, FreshInv, ValidatedInv, PublishInv, Validated,
                      Republishable, LaneRetriable, NoStage
<1> QED
  BY <1>1, <1>2, <1>3 DEF Failures

LEMMA DeliveryKeepsPub == Known /\ Delivery => PubInv'
<1> SUFFICES ASSUME Known, Delivery PROVE PubInv'
  OBVIOUS
<1> USE DEF PubInv, StageInv, FreshInv, ValidatedInv, PublishInv, Validated, Republishable,
            LaneRetriable, NoStage
<1>1. ASSUME RepoContinuation(current), next' = SelectPostDeliveryNode(Remaining(current)),
             Remaining(current) # {} => delivered' = 0, next' = Finished => ~ running'
      PROVE  PubInv'
  <2>1. stage' = NoStage
    BY <1>1 DEF RepoContinuation
  <2>2. CASE Remaining(current) = {}
    BY <1>1, <2>1, <2>2 DEF SelectPostDeliveryNode
  <2>3. CASE Remaining(current) # {}
    <3>1. next' = "detect_maven_profile" /\ approvals' = {} /\ delivered' = 0
      BY <1>1, <2>3 DEF SelectPostDeliveryNode, RepoContinuation, ForgetDecisions
    <3> QED
      BY <2>1, <3>1 DEF WorkNodes, RetryLanes
  <2> QED
    BY <2>2, <2>3
<1>2. CASE SkipPublishForDryRun
  BY <1>1, <1>2 DEF SkipPublishForDryRun, Goto
<1>3. CASE At("publish_remediation") /\ PublicationSucceeds
  BY <1>1, <1>3 DEF PublicationSucceeds, Goto
<1>4. CASE At("publish_remediation") /\ PublicationFails
  <2> PICK reached \in delivered .. 2 :
        /\ delivered' = reached
        /\ branchFresh' = (branchFresh \/ (delivered = 0 /\ reached > 0))
        /\ error'.code = DeliveryCodeAfter[reached]
    BY <1>4 DEF PublicationFails
  <2>1. delivered \in 0 .. 3 /\ reached \in 0 .. 2
    BY DEF Known, TypeInv, TypeOK, WorkOK
  <2>2. error'.code \in DeliveryCodes
    BY <2>1 DEF DeliveryCodeAfter, DeliveryCodes
  <2>3. /\ next' = "classify_failure"
        /\ UNCHANGED <<stage, needsHuman, needsDelivery, result, granted, validated>>
    BY <1>4 DEF PublicationFails, Goto, gateVars, approvalVars
  <2>4. /\ stage = NoStage /\ validated /\ result = Passed
        /\ needsHuman => "remediation" \in granted
        /\ needsDelivery => "delivery" \in granted
        /\ delivered > 0 => branchFresh
    BY <1>4 DEF At, Known, ReviewNodes
  <2>5. delivered' > 0 => branchFresh'
    <3>1. CASE delivered = 0
      <4>1. delivered' > 0 => (delivered = 0 /\ reached > 0)
        BY <3>1
      <4> QED
        BY <4>1
    <3>2. CASE delivered # 0
      <4>1. delivered > 0
        BY <2>1, <3>2
      <4>2. branchFresh
        BY <2>4, <4>1
      <4> QED
        BY <4>2
    <3> QED
      BY <3>1, <3>2
  <2> QED
    BY <2>2, <2>3, <2>4, <2>5 DEF PlanNodes, IntakeNodes, WorkNodes, RetryLanes
<1> QED
  BY <1>2, <1>3, <1>4 DEF Delivery, PublishRemediation

LEMMA DeathKeepsPub == Known /\ InvocationDies => PubInv'
<1> SUFFICES ASSUME Known, InvocationDies PROVE PubInv'
  OBVIOUS
<1> USE DEF PubInv, StageInv, FreshInv, ValidatedInv, PublishInv, Validated, Republishable,
            LaneRetriable
<1>1. ~ running' /\ UNCHANGED <<stage, approvals, needsHuman, delivered>>
  BY DEF InvocationDies, EditWorkspace, workVars, approvalVars, gateVars
<1>2. CASE stage = "delivery"
  <2>1. next \notin RetryLanes
    BY <1>2 DEF InvocationDies, Known, RetryLanes, ReviewNodes, NoStage
  <2>2. UNCHANGED <<result, validated, granted>>
    BY <2>1 DEF InvocationDies, workVars
  <2> QED
    BY <1>1, <2>2 DEF Known
<1>3. CASE stage # "delivery"
  BY <1>1, <1>3 DEF Known
<1> QED
  BY <1>2, <1>3

LEMMA OthersKeepPub ==
    ASSUME StrayDecisions = FALSE, Known, Bootstrap \/ Decide \/ Resume \/ Abort
    PROVE  PubInv'
<1> USE DEF PubInv, StageInv, FreshInv, ValidatedInv, PublishInv, Validated, Republishable,
            LaneRetriable
<1>1. CASE Bootstrap
  <2>1. /\ next' = "bootstrap_state" /\ stage' = NoStage
        /\ approvals' = {} /\ delivered' = 0
    BY <1>1 DEF Bootstrap, Invoke, ResetState
  <2> QED
    BY <2>1 DEF NoStage, WorkNodes, RetryLanes
<1>2. CASE Decide
  <2> PICK decision \in Decisions, dry \in DryRuns :
        /\ ReviewApproval(DecisionStage, decision)
        /\ granted' = IF decision = "approved" THEN granted \cup {DecisionStage} ELSE granted
        /\ Invoke(SelectPostApprovalNode(DecisionStage, decision, route), FALSE, dry)
    BY <1>2 DEF Decide
  <2>1. stage = DecisionStage
    BY <1>2 DEF Decide, DecisionStage, Known, TypeInv, TypeOK, ApprovalsOK, Stages
  <2>2. /\ stage' = NoStage
        /\ UNCHANGED <<needsHuman, needsDelivery, result, delivered, validated, branchFresh>>
    BY DEF ReviewApproval, Decisions, Undecided, gateVars
  <2>3. next' = SelectPostApprovalNode(DecisionStage, decision, route)
    BY DEF Invoke
  <2>4. CASE decision = "rejected"
    <3>1. error'.code = "approval_rejected" /\ ~ error'.recoverable /\ next' = "classify_failure"
      BY <2>3, <2>4 DEF ReviewApproval, SelectPostApprovalNode
    <3> QED
      BY <2>2, <3>1 DEF NoStage, DeliveryCodes, PlanNodes, IntakeNodes, WorkNodes, RetryLanes
  <2>5. CASE decision = "approved" /\ DecisionStage = "remediation"
    <3>1. approvals' = approvals \cup {"remediation"} /\ delivered = 0 /\ "delivery" \notin approvals
      BY <2>1, <2>5 DEF ReviewApproval, Known
    <3>2. next' \in {"remediate_simple", "remediate_transitive", "prepare_complex_remediation",
                     Finished}
      BY <2>3, <2>5 DEF SelectPostApprovalNode, SelectRemediationNode
    <3> QED
      BY <2>2, <3>1, <3>2 DEF NoStage, Finished, PlanNodes, IntakeNodes
  <2>6. CASE decision = "approved" /\ DecisionStage = "delivery"
    <3>1. next' = "publish_remediation" /\ "delivery" \in granted'
      BY <2>3, <2>6 DEF SelectPostApprovalNode
    <3>2. /\ delivered = 0 /\ validated /\ result = Passed
          /\ needsHuman => "remediation" \in granted
      BY <2>1, <2>6 DEF Known
    <3>3. granted \subseteq granted'
      OBVIOUS
    <3>4. StageInv' /\ FreshInv'
      BY <2>2, <3>1 DEF NoStage, PlanNodes, IntakeNodes, WorkNodes, RetryLanes
    <3>5. ValidatedInv' /\ PublishInv'
      BY <2>2, <3>1, <3>2, <3>3 DEF NoStage
    <3> QED
      BY <3>4, <3>5
  <2> QED
    BY <2>4, <2>5, <2>6 DEF DecisionStage, Decisions
<1>3. CASE Resume
  BY <1>3 DEF Known, Resume, process, gateVars, approvalVars, failureVars, workVars
<1>4. CASE Abort
  BY <1>4 DEF Known, Abort, Command, process, gateVars, approvalVars, workVars
<1> QED
  BY <1>1, <1>2, <1>3, <1>4

LEMMA NextKeepsPub ==
    ASSUME StrayDecisions = FALSE, Known, [Next]_vars
    PROVE  PubInv'
<1>1. CASE GraphStep
  BY <1>1, IntakeKeepsPub, PlanningKeepsPub, GatesKeepPub, LanesKeepPub, FailuresKeepPub,
     DeliveryKeepsPub DEF GraphStep
<1>2. CASE InvocationDies
  BY <1>2, DeathKeepsPub
<1>3. CASE Operator
  BY <1>3, OthersKeepPub DEF Operator
<1>4. CASE UNCHANGED vars
  BY <1>4 DEF Known, PubInv, StageInv, FreshInv, ValidatedInv, PublishInv, Validated, Republishable,
              LaneRetriable, vars, process, gateVars, approvalVars, failureVars, workVars
<1> QED
  BY <1>1, <1>2, <1>3, <1>4 DEF Next

(* For an operator who decides only when asked, the invariant holds.        *)
THEOREM PublicationInvariant ==
    ASSUME StrayDecisions = FALSE
    PROVE  Spec => []PubInv
<1>1. Init => PubInv
  BY DEF Init, PubInv, StageInv, FreshInv, ValidatedInv, PublishInv, Validated, Republishable,
         LaneRetriable, NoStage
<1>2. TypeInv /\ RunInv /\ PubInv /\ [Next]_vars => PubInv'
  BY NextKeepsPub DEF Known
<1> QED
  BY <1>1, <1>2, TypeInvariant, RunInvariant, PTL DEF Spec

(* What is published has passed validation as it is in the workspace, also  *)
(* when a failed delivery is retried.                                       *)
THEOREM PublishedIsValidated ==
    ASSUME StrayDecisions = FALSE
    PROVE  Spec => []PublicationIsValidated
<1>1. PubInv => PublicationIsValidated
  BY DEF PubInv, ValidatedInv, PublishInv, Validated, PublicationIsValidated
<1> QED
  BY <1>1, PublicationInvariant, PTL

(* Delivery approval, where the policy asks for it, was given for the very  *)
(* edits that are published.                                                *)
THEOREM PublishedIsApproved ==
    ASSUME StrayDecisions = FALSE
    PROVE  Spec => []PublicationIsApproved
<1>1. PubInv => PublicationIsApproved
  BY DEF PubInv, PublishInv, PublicationIsApproved
<1> QED
  BY <1>1, PublicationInvariant, PTL

-----------------------------------------------------------------------------
(* The retry budgets. *)

LEMMA BudgetUntouched ==
    ASSUME BudgetInv, UNCHANGED <<attempts, retries>>, Continuing' => Continuing
    PROVE  BudgetInv'
BY DEF BudgetInv, RetryBudget, Continuing

LEMMA StepsKeepBudget ==
    BudgetInv /\ (Intake \/ Planning \/ Gates \/ Lanes \/ HandleValidationFailure) => BudgetInv'
<1> SUFFICES ASSUME BudgetInv, Intake \/ Planning \/ Gates \/ Lanes \/ HandleValidationFailure
             PROVE  BudgetInv'
  OBVIOUS
<1> USE DEF At, failureVars
<1>1. Continuing /\ UNCHANGED <<attempts, retries>>
  <2>1. CASE Intake
    BY <2>1 DEF Continuing, Intake, BootstrapState, ProbeCredentials, IngestAndParseJira,
                LoadRepositoryContext, CheckRepositoryIdempotency
  <2>2. CASE Planning
    BY <2>2 DEF Continuing, Planning, DetectMavenProfile, VerifyAdvisory, VerifyMavenTarget,
                SelectRoute, ApplyPolicy
  <2>3. CASE Gates
    BY <2>3 DEF Continuing, Gates, ReviewRemediationApproval, ReviewDeliveryApproval,
                ReviewApproval, PrepareDeliveryApproval
  <2>4. CASE Lanes
    BY <2>4 DEF Continuing, Lanes, RemediateSimple, RemediateTransitive, PreflightValidate,
                PrepareComplexRemediation, ExecuteComplexScaffold, ValidateRemediation
  <2>5. CASE HandleValidationFailure
    BY <2>5 DEF Continuing, HandleValidationFailure
  <2> QED
    BY <2>1, <2>2, <2>3, <2>4, <2>5
<1> QED
  BY <1>1, BudgetUntouched

(* A retry is counted against both budgets; the attempt that exhausts one   *)
(* of them escalates.                                                       *)
LEMMA ClassifyKeepsBudget == TypeInv /\ PubInv /\ BudgetInv /\ ClassifyFailure => BudgetInv'
<1> SUFFICES ASSUME TypeInv, PubInv, BudgetInv, ClassifyFailure PROVE BudgetInv'
  OBVIOUS
<1>1. /\ attempts' = attempts + 1 /\ next' = FailureTarget
      /\ retries' = IF FailureTarget = "escalate" THEN retries ELSE retries + 1
  BY DEF ClassifyFailure, Goto
<1>2. /\ attempts = retries /\ (attempts < MaxTotalAttempts \/ attempts = 0)
      /\ retries <= MaxRetries
  BY DEF ClassifyFailure, At, BudgetInv, Continuing, RetryBudget
<1>3. attempts \in Nat /\ retries \in Nat
  BY DEF TypeInv, TypeOK, FailuresOK
<1>4. stage' = NoStage
  BY DEF ClassifyFailure, At, approvalVars, PubInv, StageInv, ReviewNodes
<1>5. CASE FailureTarget = "escalate"
  <2>1. RetryBudget'
    BY <1>1, <1>2, <1>3, <1>5, BudgetAssumption DEF RetryBudget
  <2>2. ~ Continuing'
    BY <1>1, <1>5, <1>4 DEF Continuing
  <2> QED
    BY <2>1, <2>2 DEF BudgetInv
<1>6. CASE FailureTarget # "escalate"
  <2>1. attempts + 1 < MaxTotalAttempts /\ retries < MaxRetries
    BY <1>6 DEF FailureTarget, CanRetry
  <2>2. retries' = attempts' /\ attempts' < MaxTotalAttempts /\ retries' <= MaxRetries
    BY <1>1, <1>2, <1>3, <1>6, <2>1, BudgetAssumption
  <2>3. RetryBudget'
    BY <1>1, <1>3, <2>2, BudgetAssumption DEF RetryBudget
  <2> QED
    BY <2>2, <2>3 DEF BudgetInv
<1> QED
  BY <1>5, <1>6

LEMMA DeliveryKeepsBudget == TypeInv /\ BudgetInv /\ Delivery => BudgetInv'
<1> SUFFICES ASSUME TypeInv, BudgetInv, Delivery PROVE BudgetInv'
  OBVIOUS
<1>1. Continuing
  BY DEF Delivery, PublishRemediation, SkipPublishForDryRun, At, Continuing
<1>2. CASE RepoContinuation(current)
  <2>1. CASE UNCHANGED <<attempts, retries>>
    BY <1>1, <2>1, BudgetUntouched
  <2>2. CASE attempts' = 0 /\ retries' = 0
    BY <2>2, BudgetAssumption DEF BudgetInv, RetryBudget
  <2> QED
    BY <1>2, <2>1, <2>2 DEF RepoContinuation
<1>3. CASE PublicationFails
  BY <1>1, <1>3, BudgetUntouched DEF PublicationFails
<1> QED
  BY <1>2, <1>3 DEF Delivery, PublishRemediation, PublicationSucceeds, SkipPublishForDryRun

LEMMA OthersKeepBudget ==
    ASSUME StrayDecisions = FALSE, TypeInv, PubInv, BudgetInv, Escalate \/ InvocationDies \/ Operator
    PROVE  BudgetInv'
<1>1. CASE Escalate
  <2>1. ~ Continuing' /\ UNCHANGED <<attempts, retries>>
    BY <1>1 DEF Escalate, At, Goto, Finished, approvalVars, PubInv, StageInv, ReviewNodes, Continuing
  <2> QED
    BY <2>1, BudgetUntouched
<1>2. CASE InvocationDies
  BY <1>2, BudgetUntouched DEF InvocationDies, failureVars, approvalVars, Continuing
<1>3. CASE Bootstrap
  BY <1>3, BudgetAssumption DEF Bootstrap, ResetState, BudgetInv, RetryBudget
<1>4. CASE Decide
  <2>1. Continuing
    BY <1>4 DEF Decide, Continuing
  <2>2. UNCHANGED <<attempts, retries>>
    BY <1>4 DEF Decide, ReviewApproval
  <2> QED
    BY <2>1, <2>2, BudgetUntouched
<1>5. CASE Resume \/ Abort
  BY <1>5, BudgetUntouched
     DEF Resume, Abort, Command, process, failureVars, approvalVars, Continuing
<1> QED
  BY <1>1, <1>2, <1>3, <1>4, <1>5 DEF Operator

(* Whatever mix of failures occurs, the retries and attempts for one        *)
(* repository stay within EA_MAX_RETRIES and EA_MAX_TOTAL_ATTEMPTS.         *)
THEOREM RetriesAreBounded ==
    ASSUME StrayDecisions = FALSE
    PROVE  Spec => []RetryBudget
<1>1. Init => BudgetInv
  BY BudgetAssumption DEF Init, BudgetInv, RetryBudget
<1>2. TypeInv /\ PubInv /\ BudgetInv /\ [Next]_vars => BudgetInv'
  <2>1. TypeInv /\ PubInv /\ BudgetInv /\ Next => BudgetInv'
    BY StepsKeepBudget, ClassifyKeepsBudget, DeliveryKeepsBudget, OthersKeepBudget
       DEF Next, GraphStep, Failures
  <2>2. BudgetInv /\ UNCHANGED vars => BudgetInv'
    BY BudgetUntouched DEF vars, process, failureVars, approvalVars, Continuing
  <2> QED
    BY <2>1, <2>2
<1>3. BudgetInv => RetryBudget
  BY DEF BudgetInv
<1> QED
  BY <1>1, <1>2, <1>3, TypeInvariant, PublicationInvariant, PTL DEF Spec

-----------------------------------------------------------------------------
(* The ledger. *)

BeforeHand == IntakeNodes \cup {"detect_maven_profile"}

(***************************************************************************)
(* The step that finishes a repository maps to Finish only if the          *)
(* repository in hand is pending and cleared.  It is in hand from          *)
(* detect_maven_profile until it is handled, and while a gate waits; none  *)
(* is validated during intake; and publication is skipped only in a        *)
(* dry run.                                                                *)
(***************************************************************************)
HandInv ==
    /\ running /\ next \in BeforeHand => current = NoRepo
    /\ (running /\ next \notin BeforeHand) \/ stage # NoStage => current \in pending

SkipInv ==
    /\ running /\ next \in IntakeNodes => ~ validated
    /\ running /\ next = "skip_publish_for_dry_run" => dryRun

LedgerInv == HandInv /\ SkipInv

Facts == TypeInv /\ RunInv /\ ReposInv /\ PubInv /\ LedgerInv

-----------------------------------------------------------------------------
(* A step that keeps the repository in hand and does not go back to intake. *)
LEMMA HandUntouched ==
    ASSUME HandInv, UNCHANGED <<current, pending>>,
           running' => next' \notin BeforeHand,
           running' \/ stage' # NoStage => (running /\ next \notin BeforeHand) \/ stage # NoStage
    PROVE  HandInv'
BY DEF HandInv

LEMMA IntakeKeepsHandInv == Facts /\ Intake => LedgerInv'
<1> SUFFICES ASSUME Facts, Intake PROVE LedgerInv'
  OBVIOUS
<1> USE DEF At, Goto, IntakeNodes
<1>1. stage' = NoStage
  BY DEF Facts, PubInv, StageInv, ReviewNodes, Intake, BootstrapState, ProbeCredentials,
         IngestAndParseJira, LoadRepositoryContext, CheckRepositoryIdempotency, approvalVars
<1>2. ~ validated' /\ current' = NoRepo
  BY DEF Facts, LedgerInv, HandInv, SkipInv, BeforeHand, Intake, BootstrapState, ProbeCredentials,
         IngestAndParseJira, LoadRepositoryContext, CheckRepositoryIdempotency, repoVars, workVars
<1>3. running' => next' \in BeforeHand
  BY DEF BeforeHand, Intake, BootstrapState, ProbeCredentials,
         IngestAndParseJira, LoadRepositoryContext, CheckRepositoryIdempotency, Finished
<1>4. HandInv'
  BY <1>1, <1>2, <1>3 DEF HandInv
<1>5. SkipInv'
  BY <1>2, <1>3 DEF SkipInv, BeforeHand
<1> QED
  BY <1>4, <1>5 DEF LedgerInv

LEMMA PlanningKeepsHandInv == Facts /\ Planning => LedgerInv'
<1> SUFFICES ASSUME Facts, Planning PROVE LedgerInv'
  OBVIOUS
<1>1. SkipInv'
  BY DEF Planning, DetectMavenProfile, VerifyAdvisory, VerifyMavenTarget, SelectRoute, ApplyPolicy,
         SelectPostPolicyNode, SelectRemediationNode, Finished, Goto, IntakeNodes, SkipInv
<1>2. HandInv'
  <2>1. CASE DetectMavenProfile
    <3> PICK repo \in Repos : WorkingRepo(repo) /\ current' = repo
      BY <2>1 DEF DetectMavenProfile
    <3>1. current = NoRepo
      BY <2>1 DEF DetectMavenProfile, At, Facts, LedgerInv, HandInv, BeforeHand
    <3>2. repo \in pending /\ pending' = pending /\ next' = "verify_advisory"
      BY <2>1, <3>1 DEF DetectMavenProfile, Goto, WorkingRepo
    <3> QED
      BY <3>2 DEF HandInv, BeforeHand, IntakeNodes
  <2>2. CASE VerifyAdvisory \/ VerifyMavenTarget \/ SelectRoute
    BY <2>2, HandUntouched DEF VerifyAdvisory, VerifyMavenTarget, SelectRoute, At, Goto, repoVars,
       BeforeHand, IntakeNodes, Facts, LedgerInv
  <2>3. CASE ApplyPolicy
    <3>1. running' => next' \notin BeforeHand
      BY <2>3 DEF ApplyPolicy, SelectPostPolicyNode, SelectRemediationNode, Finished, Goto,
                  BeforeHand, IntakeNodes
    <3> QED
      BY <2>3, <3>1, HandUntouched DEF ApplyPolicy, At, repoVars, BeforeHand, IntakeNodes, Facts,
         LedgerInv
  <2> QED
    BY <2>1, <2>2, <2>3 DEF Planning
<1> QED
  BY <1>1, <1>2 DEF LedgerInv

LEMMA GatesKeepHandInv == Facts /\ Gates => LedgerInv'
<1> SUFFICES ASSUME Facts, Gates PROVE LedgerInv'
  OBVIOUS
<1>1. /\ running' => next' \notin BeforeHand
      /\ next' # "skip_publish_for_dry_run"
  BY DEF Gates, ReviewRemediationApproval, ReviewDeliveryApproval, PrepareDeliveryApproval,
         SelectPostApprovalNode, SelectRemediationNode, Finished, Goto, BeforeHand, IntakeNodes
<1>2. UNCHANGED <<current, pending>>
  BY DEF Gates, ReviewRemediationApproval, ReviewDeliveryApproval, PrepareDeliveryApproval,
         ReviewApproval, repoVars
<1>3. running /\ next \notin BeforeHand
  BY DEF Gates, ReviewRemediationApproval, ReviewDeliveryApproval, PrepareDeliveryApproval, At,
         BeforeHand, IntakeNodes
<1>4. HandInv'
  BY <1>1, <1>2, <1>3, HandUntouched DEF Facts, LedgerInv
<1>5. SkipInv'
  BY <1>1 DEF SkipInv, BeforeHand
<1> QED
  BY <1>4, <1>5 DEF LedgerInv

LEMMA LanesKeepHandInv == Facts /\ (Lanes \/ Failures) => LedgerInv'
<1> SUFFICES ASSUME Facts, Lanes \/ Failures PROVE LedgerInv'
  OBVIOUS
<1>1. FailureTarget \notin BeforeHand \cup {"skip_publish_for_dry_run"}
  BY FailureTargetType DEF Facts, TypeInv, RetryLanes, BeforeHand, IntakeNodes
<1>2. running' => next' \notin BeforeHand
  BY <1>1 DEF Lanes, RemediateSimple, RemediateTransitive, PreflightValidate,
         PrepareComplexRemediation, ExecuteComplexScaffold, ValidateRemediation,
         SelectPostValidationNode, Failures, HandleValidationFailure, ClassifyFailure, Escalate,
         Finished, Goto, BeforeHand, IntakeNodes
<1>3. UNCHANGED <<current, pending>>
  BY DEF Lanes, RemediateSimple, RemediateTransitive, PreflightValidate,
         PrepareComplexRemediation, ExecuteComplexScaffold, ValidateRemediation,
         Failures, HandleValidationFailure, ClassifyFailure, Escalate, repoVars
<1>4. running /\ next \notin BeforeHand
  BY DEF Lanes, RemediateSimple, RemediateTransitive, PreflightValidate,
         PrepareComplexRemediation, ExecuteComplexScaffold, ValidateRemediation,
         Failures, HandleValidationFailure, ClassifyFailure, Escalate, At, BeforeHand, IntakeNodes
<1>5. HandInv'
  BY <1>2, <1>3, <1>4, HandUntouched DEF Facts, LedgerInv
<1>6. next' = "skip_publish_for_dry_run" => dryRun'
  BY <1>1 DEF Lanes, RemediateSimple, RemediateTransitive, PreflightValidate,
         PrepareComplexRemediation, ExecuteComplexScaffold, ValidateRemediation,
         SelectPostValidationNode, Failures, HandleValidationFailure, ClassifyFailure, Escalate,
         Finished, Goto
<1>7. SkipInv'
  BY <1>2, <1>6 DEF SkipInv, BeforeHand
<1> QED
  BY <1>5, <1>7 DEF LedgerInv

LEMMA DeliveryKeepsHandInv == Facts /\ Delivery => LedgerInv'
<1> SUFFICES ASSUME Facts, Delivery PROVE LedgerInv'
  OBVIOUS
<1>1. ASSUME RepoContinuation(current), Goto(SelectPostDeliveryNode(Remaining(current)))
      PROVE  LedgerInv'
  <2>1. stage' = NoStage
    BY <1>1 DEF RepoContinuation
  <2>2. CASE Remaining(current) = {}
    <3>1. ~ running'
      BY <1>1, <2>2 DEF SelectPostDeliveryNode, Goto
    <3> QED
      BY <2>1, <3>1 DEF LedgerInv, HandInv, SkipInv
  <2>3. CASE Remaining(current) # {}
    <3>1. next' = "detect_maven_profile" /\ current' = NoRepo
      BY <1>1, <2>3 DEF SelectPostDeliveryNode, Goto, RepoContinuation
    <3> QED
      BY <2>1, <3>1 DEF LedgerInv, HandInv, SkipInv, BeforeHand, IntakeNodes
  <2> QED
    BY <2>2, <2>3
<1>2. CASE At("publish_remediation") /\ PublicationFails
  <2>1. HandInv'
    BY <1>2, HandUntouched DEF PublicationFails, At, Goto, repoVars, BeforeHand, IntakeNodes, Facts,
       LedgerInv
  <2>2. SkipInv'
    BY <1>2 DEF PublicationFails, Goto, SkipInv, IntakeNodes
  <2> QED
    BY <2>1, <2>2 DEF LedgerInv
<1> QED
  BY <1>1, <1>2 DEF Delivery, PublishRemediation, PublicationSucceeds, SkipPublishForDryRun

LEMMA OthersKeepHandInv ==
    ASSUME StrayDecisions = FALSE, Facts, InvocationDies \/ Operator
    PROVE  LedgerInv'
<1>1. CASE InvocationDies
  BY <1>1 DEF InvocationDies, Facts, LedgerInv, HandInv, SkipInv, repoVars, approvalVars
<1>2. CASE Bootstrap
  <2>1. /\ next' = "bootstrap_state" /\ stage' = NoStage /\ current' = NoRepo /\ validated' = FALSE
    BY <1>2 DEF Bootstrap, Invoke, ResetState
  <2> QED
    BY <2>1 DEF LedgerInv, HandInv, SkipInv, BeforeHand, IntakeNodes
<1>3. CASE Decide
  <2> PICK decision \in Decisions :
        /\ ReviewApproval(DecisionStage, decision)
        /\ next' = SelectPostApprovalNode(DecisionStage, decision, route)
    BY <1>3 DEF Decide, Invoke
  <2>1. next' \notin BeforeHand \cup {"skip_publish_for_dry_run"}
    BY DEF SelectPostApprovalNode, SelectRemediationNode, BeforeHand, IntakeNodes, Finished
  <2>2. stage # NoStage /\ UNCHANGED <<current, pending>>
    BY <1>3 DEF Decide, ReviewApproval, repoVars
  <2>3. HandInv'
    BY <2>1, <2>2, HandUntouched DEF Facts, LedgerInv
  <2>4. SkipInv'
    BY <2>1 DEF SkipInv, BeforeHand
  <2> QED
    BY <2>3, <2>4 DEF LedgerInv
<1>4. CASE Resume \/ Abort
  BY <1>4 DEF Resume, Abort, Command, process, Facts, LedgerInv, HandInv, SkipInv, repoVars,
              approvalVars, workVars
<1> QED
  BY <1>1, <1>2, <1>3, <1>4 DEF Operator

LEMMA NextKeepsHandInv ==
    ASSUME StrayDecisions = FALSE, Facts, [Next]_vars
    PROVE  LedgerInv'
<1>1. CASE Next
  BY <1>1, IntakeKeepsHandInv, PlanningKeepsHandInv, GatesKeepHandInv, LanesKeepHandInv,
     DeliveryKeepsHandInv, OthersKeepHandInv DEF Next, GraphStep
<1>2. CASE UNCHANGED vars
  BY <1>2 DEF Facts, LedgerInv, HandInv, SkipInv, vars, process, repoVars, approvalVars, workVars
<1> QED
  BY <1>1, <1>2

LEMMA LedgerInvariant ==
    ASSUME StrayDecisions = FALSE
    PROVE  Spec => []LedgerInv
<1>1. Init => LedgerInv
  BY DEF Init, LedgerInv, HandInv, SkipInv, NoStage
<1>2. TypeInv /\ RunInv /\ ReposInv /\ PubInv /\ LedgerInv /\ [Next]_vars => LedgerInv'
  BY NextKeepsHandInv DEF Facts
<1> QED
  BY <1>1, <1>2, TypeInvariant, RunInvariant, ReposInvariant, PublicationInvariant, PTL DEF Spec

-----------------------------------------------------------------------------
(* Every step of the workflow is a step of the ledger, or stutters. *)

LedgerStep == [Ledger!LedgerNext]_(Ledger!ledger)

(* With the books unchanged, clearance is given or withdrawn.               *)
LEMMA ClearOrStutter ==
    ASSUME UNCHANGED <<pending, completed, skipped>>
    PROVE  LedgerStep
<1>1. CASE pending = {}
  <2>1. ClearedForFinish = FALSE /\ ClearedForFinish' = FALSE
    BY <1>1 DEF ClearedForFinish
  <2> QED
    BY <2>1 DEF LedgerStep, Ledger!ledger
<1>2. CASE pending # {}
  <2>1. ClearedForFinish' \in BOOLEAN
    BY DEF ClearedForFinish
  <2>2. Ledger!Clear
    BY <1>2, <2>1 DEF Ledger!Clear
  <2> QED
    BY <2>2 DEF LedgerStep, Ledger!LedgerNext
<1> QED
  BY <1>1, <1>2

(* The idempotency check splits the repositories; none is cleared yet.      *)
LEMMA IdempotencySplits ==
    ASSUME Facts, CheckRepositoryIdempotency
    PROVE  LedgerStep
<1> PICK published \in SUBSET Repos :
      skipped' = skipped \cup published /\ pending' = Repos \ published
  BY DEF CheckRepositoryIdempotency
<1>1. pending = {} /\ completed = {} /\ skipped = {} /\ ~ validated
  BY DEF CheckRepositoryIdempotency, At, Facts, ReposInv, LedgerInv, SkipInv, IntakeNodes
<1>2. completed' = {} /\ ~ validated' /\ skipped' = published
  BY <1>1 DEF CheckRepositoryIdempotency, workVars
<1>3. ClearedForFinish = FALSE /\ ClearedForFinish' = FALSE
  BY <1>1, <1>2 DEF ClearedForFinish
<1>4. Ledger!Split
  BY <1>1, <1>2, <1>3 DEF Ledger!Split
<1> QED
  BY <1>4 DEF LedgerStep, Ledger!LedgerNext

(* The repository in hand is the first pending one and it is cleared when   *)
(* the workflow moves on to the next.                                       *)
LEMMA ContinuationFinishes ==
    ASSUME Facts, running, next \in {"publish_remediation", "skip_publish_for_dry_run"},
           RepoContinuation(current)
    PROVE  LedgerStep
<1>1. current \in pending /\ \A other \in pending : current <= other
  BY DEF Facts, LedgerInv, HandInv, BeforeHand, IntakeNodes, ReposInv, ReposAccounted
<1>2. validated /\ (needsHuman => "remediation" \in granted)
  BY DEF Facts, PubInv, ValidatedInv, Validated
<1>3. needsDelivery /\ ~ dryRun => "delivery" \in granted
  <2>1. CASE next = "publish_remediation"
    BY <2>1 DEF Facts, PubInv, PublishInv
  <2>2. CASE next = "skip_publish_for_dry_run"
    BY <2>2 DEF Facts, LedgerInv, SkipInv
  <2> QED
    BY <2>1, <2>2
<1>4. ClearedForFinish
  BY <1>1, <1>2, <1>3 DEF ClearedForFinish
<1>5. pending' = pending \ {current} /\ completed' = completed \cup {current} /\ skipped' = skipped
  BY DEF RepoContinuation, Remaining
<1>6. pending' = {} \/ validated' = FALSE
  BY DEF RepoContinuation
<1>7. ClearedForFinish' = FALSE
  BY <1>6 DEF ClearedForFinish
<1>8. Ledger!Finish
  BY <1>1, <1>4, <1>5, <1>7 DEF Ledger!Finish
<1> QED
  BY <1>8 DEF LedgerStep, Ledger!LedgerNext

LEMMA BootstrapStartsOver ==
    ASSUME Bootstrap
    PROVE  LedgerStep
<1>1. pending' = {} /\ completed' = {} /\ skipped' = {}
  BY DEF Bootstrap, ResetState
<1>2. ClearedForFinish' = FALSE
  BY <1>1 DEF ClearedForFinish
<1>3. Ledger!StartOver
  BY <1>1, <1>2 DEF Ledger!StartOver
<1> QED
  BY <1>3 DEF LedgerStep, Ledger!LedgerNext

LEMMA StepImplementsLedger == Facts /\ [Next]_vars => LedgerStep
<1> SUFFICES ASSUME Facts, [Next]_vars PROVE LedgerStep
  OBVIOUS
<1>1. CASE Intake
  <2>1. CASE CheckRepositoryIdempotency
    BY <2>1, IdempotencySplits
  <2>2. CASE ~ CheckRepositoryIdempotency
    <3>1. UNCHANGED <<pending, completed, skipped>>
      BY <1>1, <2>2 DEF Intake, BootstrapState, ProbeCredentials, IngestAndParseJira,
                        LoadRepositoryContext, repoVars
    <3> QED
      BY <3>1, ClearOrStutter
  <2> QED
    BY <2>1, <2>2
<1>2. CASE Planning \/ Gates
  <2>1. UNCHANGED <<pending, completed, skipped>>
    BY <1>2 DEF Planning, DetectMavenProfile, VerifyAdvisory, VerifyMavenTarget, SelectRoute,
                ApplyPolicy, Gates, ReviewRemediationApproval, ReviewDeliveryApproval,
                ReviewApproval, PrepareDeliveryApproval, repoVars
  <2> QED
    BY <2>1, ClearOrStutter
<1>3. CASE Lanes \/ Failures
  <2>1. UNCHANGED <<pending, completed, skipped>>
    BY <1>3 DEF Lanes, RemediateSimple, RemediateTransitive, PreflightValidate,
                PrepareComplexRemediation, ExecuteComplexScaffold, ValidateRemediation, Failures,
                HandleValidationFailure, ClassifyFailure, Escalate, repoVars
  <2> QED
    BY <2>1, ClearOrStutter
<1>4. CASE Delivery
  <2>1. CASE PublicationFails
    BY <2>1, ClearOrStutter DEF PublicationFails, repoVars
  <2>2. CASE RepoContinuation(current)
    BY <1>4, <2>2, ContinuationFinishes DEF Delivery, PublishRemediation, SkipPublishForDryRun, At
  <2> QED
    BY <1>4, <2>1, <2>2 DEF Delivery, PublishRemediation, PublicationSucceeds, SkipPublishForDryRun
<1>5. CASE Bootstrap
  BY <1>5, BootstrapStartsOver
<1>6. CASE InvocationDies \/ Decide \/ Resume \/ Abort \/ UNCHANGED vars
  <2>1. UNCHANGED <<pending, completed, skipped>>
    BY <1>6 DEF InvocationDies, Decide, ReviewApproval, Resume, Abort, repoVars, vars
  <2> QED
    BY <2>1, ClearOrStutter
<1> QED
  BY <1>1, <1>2, <1>3, <1>4, <1>5, <1>6 DEF Next, GraphStep, Operator

(* Whatever node dies and whatever the operator decides when asked, the     *)
(* repositories are handled as the ledger says: one at a time, in ticket    *)
(* order, each on its own validation and approvals.                         *)
THEOREM LedgerImplemented ==
    ASSUME StrayDecisions = FALSE
    PROVE  Spec => ImplementsLedger
<1>1. Init => Ledger!LedgerInit
  <2>1. Init => ClearedForFinish = FALSE
    BY DEF Init, ClearedForFinish
  <2> QED
    BY <2>1 DEF Init, Ledger!LedgerInit
<1>2. TypeInv /\ RunInv /\ ReposInv /\ PubInv /\ LedgerInv /\ [Next]_vars
        => [Ledger!LedgerNext]_(Ledger!ledger)
  BY StepImplementsLedger DEF Facts, LedgerStep
<1> QED
  BY <1>1, <1>2, TypeInvariant, RunInvariant, ReposInvariant, PublicationInvariant,
     LedgerInvariant, PTL DEF Spec, ImplementsLedger, Ledger!LedgerSpec

=============================================================================
