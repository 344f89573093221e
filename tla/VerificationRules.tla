------------------------- MODULE VerificationRules -------------------------
(***************************************************************************)
(* What verification makes of the outside world's answers: the fix OSV     *)
(* recommends and how risky Maven calls the step to it.  A version is the  *)
(* sequence of its dotted parts, a number each, or Text when it is not all *)
(* digits; NoVersion where there is none.                                  *)
(*                                                                         *)
(* An OSV answer is the sequence of its vulnerabilities, a vulnerability   *)
(* the sequence of its affected ranges, a range the sequence of its events.*)
(***************************************************************************)
EXTENDS Integers, SequencesExt

NoVersion == <<>>
Text == -1

Events(vulnerability) == FlattenSeq(vulnerability)

\* _extract_fixed_version: the first event that names a fix.
FixedVersion(vulnerability) ==
    LET IsFix(event) == event.kind = "fixed" /\ event.version # NoVersion
        events == Events(vulnerability)
        first  == SelectInSeq(events, IsFix)
    IN  IF first = 0 THEN NoVersion ELSE events[first].version

\* parse_osv_response: the first fix of the first vulnerability, or else the
\* version the ticket names; NoVersion is the ValueError.
RecommendedFix(answer, hint) ==
    IF answer = <<>> THEN NoVersion
    ELSE IF FixedVersion(answer[1]) = NoVersion THEN hint
    ELSE FixedVersion(answer[1])

\* _parse_major_minor: 0 for a part that is missing or no number.
PartOf(version, i) == IF i > Len(version) \/ version[i] = Text THEN 0 ELSE version[i]

\* Deviation: a step back to an older major version is not called risky.
CompatibilityRiskUpwards(current, target, endOfLife) ==
    IF endOfLife \/ PartOf(current, 1) < PartOf(target, 1) THEN "high"
    ELSE IF PartOf(current, 2) # PartOf(target, 2) THEN "medium"
    ELSE "low"

\* _build_compatibility_risk.
CompatibilityRisk(current, target, endOfLife) ==
    IF endOfLife \/ PartOf(current, 1) # PartOf(target, 1) THEN "high"
    ELSE IF PartOf(current, 2) # PartOf(target, 2) THEN "medium"
    ELSE "low"

\* Deviation: a package declared anywhere as transitive is overridden.
MavenVerificationTransitiveFirst(current, target, released, entries, endOfLife) ==
    IF target \notin released \/ entries = {}
    THEN [status |-> "rejected", kind |-> "direct", risk |-> "high"]
    ELSE [status |-> "verified",
          kind   |-> IF \E e \in entries : ~ e.direct THEN "transitive" ELSE "direct",
          risk   |-> CompatibilityRisk(current, target, endOfLife)]

\* _load_live_verification, over the released versions and the entries of the
\* package in the dependency tree.
MavenVerification(current, target, released, entries, endOfLife) ==
    IF target \notin released \/ entries = {}
    THEN [status |-> "rejected", kind |-> "direct", risk |-> "high"]
    ELSE [status |-> "verified",
          kind   |-> IF \E e \in entries : e.direct THEN "direct" ELSE "transitive",
          risk   |-> CompatibilityRisk(current, target, endOfLife)]

\* _build_route_decision, for a verified advisory.
RouteDecision(maven) ==
    CASE maven.status = "rejected" -> "unknown"
      [] maven.status = "verified" /\ maven.risk = "high" -> "complex_refactor"
      [] maven.status = "verified" /\ maven.risk # "high" /\ maven.kind = "transitive"
            -> "transitive_override"
      [] OTHER -> "simple_update"

RequiresHumanApproval(route) == route \in {"unknown", "complex_refactor"}

=============================================================================
