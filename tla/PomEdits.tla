------------------------------ MODULE PomEdits ------------------------------
(***************************************************************************)
(* The edits of a pom, and the preflight that looks whether they took.     *)
(*                                                                         *)
(* A pom is the sequence of its dependency declarations in document order, *)
(* each with the section it stands in, its package and its version.  A     *)
(* declaration may leave its version to the dependencyManagement section.  *)
(***************************************************************************)
EXTENDS SequencesExt, Naturals

\* The search for "dependencies/dependency" finds them all; nested are the
\* ones of profiles and plugins.
Sections == {"managed", "direct", "nested"}

NoVersion == "none"

\* PomMutationTargetError: there is no pom to write.
NotFound == <<>>

\* Deviation: a declaration without a version is given one.
DirectDependencyUpdateAny(pom, package, target) ==
    LET Matches(d) == d.package = package
        first == SelectInSeq(pom, Matches)
    IN  IF first = 0 THEN NotFound ELSE [pom EXCEPT ![first].version = target]

\* _apply_direct_dependency_update: the first declaration of the package, in
\* any section, that has a version.
DirectDependencyUpdate(pom, package, target) ==
    LET Matches(d) == d.package = package /\ d.version # NoVersion
        first == SelectInSeq(pom, Matches)
    IN  IF first = 0 THEN NotFound ELSE [pom EXCEPT ![first].version = target]

Managed(target, package) == [section |-> "managed", package |-> package, version |-> target]

\* _apply_dependency_management_override: the managed declaration is updated,
\* or one added at the end of the section, which is created after all others.
DependencyManagementOverride(pom, package, target) ==
    LET InManagement(d) == d.section = "managed"
        Matches(d) == InManagement(d) /\ d.package = package
        first == SelectInSeq(pom, Matches)
        last  == SelectLastInSeq(pom, InManagement)
    IN  IF first > 0 THEN [pom EXCEPT ![first].version = target]
        ELSE InsertAt(pom, IF last = 0 THEN Len(pom) + 1 ELSE last + 1, Managed(target, package))

-----------------------------------------------------------------------------

\* _load_live_result: an entry at the target is preferred over the first.
Preflight(tree, package, target) ==
    LET entries  == {i \in DOMAIN tree : tree[i].package = package}
        atTarget == {i \in entries : tree[i].version = target}
    IN  [passed   |-> atTarget # {},
         resolved |-> IF entries = {} THEN NoVersion
                      ELSE tree[Min(IF atTarget = {} THEN entries ELSE atTarget)].version]

=============================================================================
