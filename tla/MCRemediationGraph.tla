------------------------ MODULE MCRemediationGraph ------------------------
(* Small instances of RemediationGraph for TLC. *)
EXTENDS RemediationGraph

\* One result per outcome the retry matrix tells apart: passed, retryable for
\* each of the two reasons, not retryable, and a mixture of both kinds.
RepresentativeResults ==
    {Passed, {"unit_tests"}, {"security_unreachable"}, {"compile", "unit_tests"},
     {"unit_tests", "license_denied"}}

PassedOrTests == {Passed, {"unit_tests"}}

=============================================================================
