--------------------------- MODULE FailureMatrix ---------------------------
(***************************************************************************)
(* The failure classification and retry matrix, as pure operators.         *)
(*                                                                         *)
(* A validation result is the set of its FAILED checks.  The live adapter  *)
(* appends the checks in the fixed order compile, unit-tests,              *)
(* security-scan, license-scan and fails the result exactly when a check   *)
(* failed, so the empty set is a passed result.  A security or license     *)
(* failure comes in two flavours that the code tells apart by the details  *)
(* text: a verdict ("security_noop", "license_denied") or a lookup that    *)
(* could not be made ("security_unreachable", "license_unreachable").      *)
(***************************************************************************)
EXTENDS Naturals

CheckOrder == [compile |-> 1, unit_tests |-> 2,
               security_noop |-> 3, security_unreachable |-> 3,
               license_denied |-> 4, license_unreachable |-> 4]

Checks == DOMAIN CheckOrder

\* The results live validation can return: one flavour per check at most.
ValidationResults ==
    {failed \in SUBSET Checks :
        /\ ~ {"security_noop", "security_unreachable"} \subseteq failed
        /\ ~ {"license_denied", "license_unreachable"} \subseteq failed}

NoResult == {"no_result"}    \* validation_results is still empty
Passed   == {}

IsTransientCheck(check) == check \in {"security_unreachable", "license_unreachable"}

\* The failed check that comes first in the result.
First(failed) ==
    CHOOSE c \in failed : \A d \in failed : CheckOrder[c] <= CheckOrder[d]

(***************************************************************************)
(* WorkflowError: what the nodes append to state.errors.  Only the latest  *)
(* one is read, and only its code and its recoverable flag.                *)
(***************************************************************************)
ValidationCodeOf ==
    [compile |-> "validation_compile_failed",
     unit_tests |-> "validation_test_failed",
     security_noop |-> "validation_security_failed",
     license_denied |-> "validation_license_failed",
     security_unreachable |-> "validation_transient_failed",
     license_unreachable |-> "validation_transient_failed"]

ValidationErrorCode(failed) ==
    IF failed = Passed THEN "validation_failed" ELSE ValidationCodeOf[First(failed)]

\* Deviation: one retryable check is enough.
IsRecoverableValidationFailureByAny(failed) ==
    \E c \in failed : c = "unit_tests" \/ IsTransientCheck(c)

IsRecoverableValidationFailure(failed) ==
    /\ failed # Passed
    /\ \A c \in failed : c = "unit_tests" \/ IsTransientCheck(c)

ValidationCodes ==
    {"validation_failed"} \cup {ValidationCodeOf[c] : c \in Checks}

DeliveryCodes ==
    {"delivery_branch_publication_failed", "delivery_pull_request_failed",
     "delivery_jira_failed"}

PolicyCodes == {"policy_blocked", "approval_rejected"}

ErrorCodes ==
    ValidationCodes \cup DeliveryCodes \cup PolicyCodes \cup {"operator_abort", "none"}

WorkflowErrors == [code : ErrorCodes, recoverable : BOOLEAN]

NoError == [code |-> "none", recoverable |-> FALSE]    \* errors is empty

(***************************************************************************)
(* classify_failure's reading of the latest error and the latest result.   *)
(***************************************************************************)
FailureClassifications ==
    {"policy_block", "network_transient", "compile_error", "test_failure",
     "recipe_noop", "license_violation", "unknown"}

\* The loop over the checks skips a security check that matches none of its
\* texts and goes on to the next one.
ClassOf ==
    [compile |-> "compile_error", unit_tests |-> "test_failure",
     security_noop |-> "recipe_noop", license_denied |-> "license_violation",
     license_unreachable |-> "license_violation"]

ClassifyLatestFailure(error, failed) ==
    LET named == failed \cap DOMAIN ClassOf IN
    CASE error.code \in PolicyCodes -> "policy_block"
      [] error.code \in DeliveryCodes ->
            IF error.recoverable THEN "network_transient" ELSE "unknown"
      [] error.code = "validation_transient_failed" -> "network_transient"
      [] OTHER -> IF named = {} THEN "unknown" ELSE ClassOf[First(named)]

IsRetryableClassification(class) == class \in {"test_failure", "network_transient"}

Strategies == {"simple_update", "transitive_override", "complex_refactor", "unknown"}
NoRoute == "none"

\* The node a retry re-enters; "none" when the route has no lane.
LaneOf ==
    [simple_update |-> "remediate_simple",
     transitive_override |-> "remediate_transitive",
     complex_refactor |-> "execute_complex_scaffold",
     unknown |-> "none", none |-> "none"]

\* Deviation: any recoverable error is taken for a delivery error.
SelectRetryNodeByFlag(error, route) ==
    IF error.recoverable THEN "publish_remediation" ELSE LaneOf[route]

SelectRetryNode(error, route) ==
    IF error.code \in DeliveryCodes THEN "publish_remediation" ELSE LaneOf[route]

RetryLanes == {"remediate_simple", "remediate_transitive", "execute_complex_scaffold"}

(***************************************************************************)
(* can_retry: `attempts` already counts the failure being classified.      *)
(***************************************************************************)
\* Deviation: both ceilings are off by one.
CanRetryOnceMore(error, failed, route, attempts, retries, maxTotalAttempts, maxRetries) ==
    /\ SelectRetryNode(error, route) # "none"
    /\ IsRetryableClassification(ClassifyLatestFailure(error, failed))
    /\ attempts <= maxTotalAttempts
    /\ retries <= maxRetries
    /\ error.recoverable

CanRetry(error, failed, route, attempts, retries, maxTotalAttempts, maxRetries) ==
    /\ SelectRetryNode(error, route) # "none"
    /\ IsRetryableClassification(ClassifyLatestFailure(error, failed))
    /\ attempts < maxTotalAttempts
    /\ retries < maxRetries
    /\ error # NoError
    /\ error.recoverable

=============================================================================
