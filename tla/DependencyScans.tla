-------------------------- MODULE DependencyScans --------------------------
(***************************************************************************)
(* The security rescan and the license scan of live validation, as pure    *)
(* operators over what the dependency tree and the poms say.               *)
(*                                                                         *)
(* A license name is a member of a set; a policy list stands for the set   *)
(* of the names that contain one of its patterns or aliases.  A dependency *)
(* is a record of its scope, of how fetching its pom ended and of the      *)
(* license names read from it.                                             *)
(***************************************************************************)
EXTENDS FailureMatrix

Fetches == {"read", "unreachable", "malformed"}

Dependencies(names) == [scope : {"compile", "test"}, fetch : Fetches, licenses : SUBSET names]

\* Deviation: the target among the versions found is enough.
SecurityFailuresAmong(versions, target) ==
    IF versions = {} \/ target \in versions THEN {} ELSE {"security_noop"}

\* The versions of the package left in the tree against the one expected.
SecurityFailures(versions, target) ==
    IF versions \subseteq {target} THEN {} ELSE {"security_noop"}

Findings == {"permitted", "denied", "outside", "unreachable", "unresolved"}

LicenseFinding(dep, denied, allowed) ==
    CASE dep.fetch = "unreachable" -> "unreachable"
      [] dep.fetch = "malformed" \/ (dep.fetch = "read" /\ dep.licenses = {}) -> "unresolved"
      [] OTHER -> IF dep.licenses \cap denied # {} THEN "denied"
                  ELSE IF allowed # {} /\ dep.licenses \cap allowed = {} THEN "outside"
                  ELSE "permitted"

LicenseFindings(tree, denied, allowed) ==
    {LicenseFinding(dep, denied, allowed) : dep \in {d \in tree : d.scope # "test"}}

\* Deviation: a failed lookup does not count.
LicenseFailuresOpen(found, enforced) ==
    IF enforced /\ found \cap {"denied", "outside", "unresolved"} # {}
    THEN {"license_denied"} ELSE {}

\* A forbidden license outranks a failed lookup, which outranks a missing
\* license; the last two fail the check only when a list is enforced, and
\* only the failed lookup is worded as transient.
LicenseFailures(found, enforced) ==
    CASE found \cap {"denied", "outside"} # {} -> {"license_denied"}
      [] enforced /\ found \cap {"denied", "outside"} = {} /\ "unreachable" \in found
            -> {"license_unreachable"}
      [] enforced /\ found \cap {"denied", "outside", "unreachable"} = {}
            /\ "unresolved" \in found -> {"license_denied"}
      [] OTHER -> {}

\* The failures when the tree itself could not be read.
UnreadableTreeFailures(enforced) ==
    {"security_unreachable"} \cup IF enforced THEN {"license_unreachable"} ELSE {}

=============================================================================
