----------------------------- MODULE Workspace -----------------------------
(***************************************************************************)
(* The clone of one repository in live mode, across the attempts at its    *)
(* remediation: a lane edits it file by file, validation builds and scans  *)
(* it check by check, a failure rolls it back in two steps, a retry edits  *)
(* it again, and publication commits whatever it holds.                    *)
(*                                                                         *)
(* A node's update reaches the checkpoint only when the node ends.  A run  *)
(* that dies inside a node leaves its edits on disk and no record of them; *)
(* the next approval the operator gives enters the lane again.             *)
(***************************************************************************)
EXTENDS DependencyScans

CONSTANTS
    Planned,       \* files of the code change plan (complex lane)
    Sources,       \* other java files that use the legacy symbols
    Manifest,      \* the pom the plan names (simple and transitive lanes)
    ReactorPoms,   \* poms of the other modules of the build
    Metadata,      \* .execution-accelerator-repo.json, the inventory's own file
    Untracked,     \* planned files that HEAD does not have
    Repeatable,    \* files whose rewriting leaves rewritten text alone
    Routes,        \* the routes that have a lane
    LicenseLists,  \* is an allow list or a deny list configured
    MaxRetries, MaxTotalAttempts,
    MaxDecisions   \* bound: approvals given to an interrupted thread

Poms  == {Manifest} \cup ReactorPoms
Files == Planned \cup Sources \cup Poms \cup {Metadata}

\* A file is not there, as in the base commit, rewritten once, or rewritten
\* once more on top of its own rewriting.
Contents == {"absent", "base", "edited", "reedited"}

ASSUME WorkspaceAssumption ==
    /\ Planned \cap Sources = {} /\ Poms \cap (Planned \cup Sources) = {}
    /\ Metadata \notin Planned \cup Sources \cup Poms
    /\ Untracked \subseteq Planned
    /\ Repeatable \subseteq Files
    /\ Routes \subseteq {"simple_update", "transitive_override", "complex_refactor"}
    /\ LicenseLists \in BOOLEAN
    /\ MaxRetries \in Nat /\ MaxTotalAttempts \in Nat /\ MaxDecisions \in Nat

VARIABLES
    running,       \* graph.invoke is executing
    pc,            \* where in which node
    route,
    \* the clone
    disk,          \* the work tree
    head,          \* the commit HEAD names
    reports,       \* the Surefire and Failsafe reports under target/
    pushed,        \* the work tree the remote branch carries, or NoTree
    \* locals of the node that runs
    todo,          \* files the scaffold has still to visit
    touched,       \* modified_files so far
    failed,        \* checks of this validation that failed so far
    \* RemediationState
    modified,      \* modified_files
    result, error, retries, attempts,
    \* history: not program state
    verified,      \* the work tree the latest `mvn verify` saw
    fresh,         \* the reports were written since the lane last ran
    unseen,        \* edits the latest lane found or made and did not record
    decisions

clone    == <<disk, head, reports, pushed>>
locals   == <<todo, touched, failed>>
recorded == <<modified, result, error, retries, attempts>>
history  == <<verified, fresh, unseen, decisions>>
vars == <<running, pc, route, clone, locals, recorded, history>>

NoTree == [f \in Files |-> "absent"]
Steps == {"lane", "scaffold", "verify", "reports", "tree", "licenses", "result",
          "rollback", "remove", "classify", "publish", "push", "END"}

\* "elsewhere": a build of several modules writes none at its root.
Reports == {"none", "green", "red", "elsewhere"}

\* Every variable has its type; a validation result is one the retry matrix
\* was written for.
TypeOK ==
    /\ running \in BOOLEAN /\ pc \in Steps /\ route \in Routes
    /\ disk \in [Files -> Contents] /\ head \in [Files -> Contents]
    /\ pushed \in [Files -> Contents]
    /\ reports \in Reports
    /\ todo \subseteq Files /\ touched \subseteq Files /\ modified \subseteq Files
    /\ failed \in ValidationResults
    /\ result \in ValidationResults \cup {NoResult}
    /\ error \in WorkflowErrors
    /\ retries \in 0 .. MaxRetries /\ attempts \in Nat
    /\ verified \in [Files -> Contents]
    /\ fresh \in BOOLEAN /\ unseen \subseteq Files
    /\ decisions \in 0 .. MaxDecisions

\* The metadata file is in a base commit that earlier publications reached.
BaseCommits ==
    {commit \in [Files -> {"absent", "base"}] :
        \A f \in Files \ {Metadata} : commit[f] = IF f \in Untracked THEN "absent" ELSE "base"}

\* The remediation was approved (or needs no approval) and its lane is next.
\* prepare_workspace has cloned the base commit and written the metadata file,
\* which names that very commit and so is never the one HEAD has.
Init ==
    /\ running = TRUE /\ pc = "lane" /\ route \in Routes
    /\ head \in BaseCommits /\ disk = [head EXCEPT ![Metadata] = "edited"]
    /\ reports \in {"none", "elsewhere"} /\ pushed = NoTree
    /\ todo = {} /\ touched = {} /\ failed = Passed
    /\ modified = {} /\ result = NoResult /\ error = NoError
    /\ retries = 0 /\ attempts = 0
    /\ verified = NoTree /\ fresh = FALSE /\ unseen = {} /\ decisions = 0

At(step) == running /\ pc = step

\* Files the work tree and HEAD disagree on: what `git add --all` stages.
Dirty == {f \in Files : disk[f] # head[f]}

-----------------------------------------------------------------------------
(* Lanes. *)

Rewritten(f, content) ==
    CASE content \in {"absent", "base"} -> "edited"
      [] content = "edited" /\ f \notin Repeatable -> "reedited"
      [] OTHER -> content

\* remediate_simple, remediate_transitive: OpenRewrite edits poms anywhere in
\* the build, or none; the node records the one the plan names.
RemediatePom ==
    /\ At("lane") /\ route # "complex_refactor"
    /\ \E changed \in SUBSET Poms :
        /\ disk' = [f \in Files |-> IF f \in changed THEN "edited" ELSE disk[f]]
        /\ unseen' = (unseen \cup changed) \ {Manifest}
    /\ modified' = {Manifest}
    /\ fresh' = FALSE
    /\ pc' = "verify"
    /\ UNCHANGED <<running, route, head, reports, pushed, locals, result, error,
                   retries, attempts, verified, decisions>>

StartScaffold ==
    /\ At("lane") /\ route = "complex_refactor"
    /\ todo' = Planned \cup Sources
    /\ touched' = {}
    /\ fresh' = FALSE
    /\ pc' = "scaffold"
    /\ UNCHANGED <<running, route, clone, failed, recorded, verified, unseen, decisions>>

\* A planned file is written whatever it holds; the planned files come first.
WriteTarget(f) ==
    /\ At("scaffold") /\ f \in todo \cap Planned
    /\ disk' = [disk EXCEPT ![f] = Rewritten(f, disk[f])]
    /\ touched' = touched \cup {f}
    /\ todo' = todo \ {f}
    /\ UNCHANGED <<running, pc, route, head, reports, pushed, failed, recorded, history>>

\* Another source file is written, and recorded, only when its text changes.
RewriteSource(f) ==
    /\ At("scaffold") /\ f \in todo /\ todo \cap Planned = {}
    /\ disk' = [disk EXCEPT ![f] = Rewritten(f, disk[f])]
    /\ touched' = IF disk'[f] = disk[f] THEN touched ELSE touched \cup {f}
    /\ todo' = todo \ {f}
    /\ UNCHANGED <<running, pc, route, head, reports, pushed, failed, recorded, history>>

\* Deviation: only the files of the plan are recorded.
FinishScaffoldPlanned ==
    /\ At("scaffold") /\ todo = {}
    /\ modified' = touched \cap Planned
    /\ unseen' = unseen \ touched
    /\ pc' = "verify"
    /\ UNCHANGED <<running, route, clone, locals, result, error, retries, attempts,
                   verified, fresh, decisions>>

FinishScaffold ==
    /\ At("scaffold") /\ todo = {}
    /\ modified' = touched
    /\ unseen' = unseen \ touched
    /\ pc' = "verify"
    /\ UNCHANGED <<running, route, clone, locals, result, error, retries, attempts,
                   verified, fresh, decisions>>

-----------------------------------------------------------------------------
(***************************************************************************)
(* Validation.  The four checks are made in order and every one of them is *)
(* made whatever the earlier ones found.                                   *)
(***************************************************************************)

NewReports ==
    reports' \in IF reports = "elsewhere" THEN {"elsewhere"} ELSE {"green", "red"}

\* `mvn verify` without `clean`: a build that does not reach the tests leaves
\* the reports of an earlier one.  A build may ignore its test failures.
RunMavenVerify ==
    /\ At("verify")
    /\ verified' = disk
    /\ \/ /\ failed' = {"compile"}
          /\ UNCHANGED <<reports, fresh>>
       \/ /\ NewReports /\ fresh' = TRUE
          /\ \/ failed' = Passed
             \/ reports' # "green" /\ failed' = {"compile"}
    /\ pc' = "reports"
    /\ UNCHANGED <<running, route, disk, head, pushed, todo, touched, recorded, unseen,
                   decisions>>

\* No report: the check passes with the build, or stays pending.
CollectTestReports ==
    /\ At("reports")
    /\ failed' = IF reports = "red" THEN failed \cup {"unit_tests"} ELSE failed
    /\ pc' = "tree"
    /\ UNCHANGED <<running, route, clone, todo, touched, recorded, history>>

\* The rescan of the package: a target still resolved, or none of it left.
ScanDependencyTree ==
    /\ At("tree")
    /\ \/ /\ failed' = failed \cup UnreadableTreeFailures(LicenseLists)
          /\ pc' = "result"
       \/ /\ \E versions \in SUBSET {"old", "target"} :
                failed' = failed \cup SecurityFailures(versions, "target")
          /\ pc' = "licenses"
    /\ UNCHANGED <<running, route, clone, todo, touched, recorded, history>>

ScanLicenses ==
    /\ At("licenses")
    /\ \E found \in SUBSET Findings :
        /\ LicenseLists \/ found \cap {"denied", "outside"} = {}
        /\ failed' = failed \cup LicenseFailures(found, LicenseLists)
    /\ pc' = "result"
    /\ UNCHANGED <<running, route, clone, todo, touched, recorded, history>>

RecordValidation ==
    /\ At("result")
    /\ result' = failed
    /\ failed' = Passed
    /\ pc' = IF failed = Passed THEN "publish" ELSE "rollback"
    /\ UNCHANGED <<running, route, clone, todo, touched, modified, error, retries, attempts,
                   history>>

-----------------------------------------------------------------------------
(* Rollback, retry and escalation. *)

InHead(f) == head[f] # "absent"

\* Deviation: the tracked files are only unstaged, not restored.
RestoreIndexOnly ==
    /\ At("rollback")
    /\ pc' = "remove"
    /\ UNCHANGED <<running, route, clone, locals, recorded, history>>

\* handle_validation_failure: first `git restore` of the tracked files ...
RestoreTracked ==
    /\ At("rollback")
    /\ disk' = [f \in Files |-> IF f \in modified /\ InHead(f) THEN head[f] ELSE disk[f]]
    /\ pc' = "remove"
    /\ UNCHANGED <<running, route, head, reports, pushed, locals, recorded, history>>

\* Deviation: created files stay.
RemoveNothing ==
    /\ At("remove")
    /\ error' = [code |-> ValidationErrorCode(result),
                 recoverable |-> IsRecoverableValidationFailure(result)]
    /\ pc' = "classify"
    /\ UNCHANGED <<running, route, clone, locals, modified, result, retries, attempts, history>>

\* ... then the untracked ones are unlinked and the node ends.
RemoveUntracked ==
    /\ At("remove")
    /\ disk' = [f \in Files |-> IF f \in modified /\ ~ InHead(f) THEN "absent" ELSE disk[f]]
    /\ error' = [code |-> ValidationErrorCode(result),
                 recoverable |-> IsRecoverableValidationFailure(result)]
    /\ pc' = "classify"
    /\ UNCHANGED <<running, route, head, reports, pushed, locals, modified, result, retries,
                   attempts, history>>

Retried ==
    CanRetry(error, result, route, attempts + 1, retries, MaxTotalAttempts, MaxRetries)

\* A retry starts from a clean record of what was modified.
ClassifyFailure ==
    /\ At("classify")
    /\ attempts' = attempts + 1
    /\ IF Retried
       THEN /\ retries' = retries + 1
            /\ modified' = {}
            /\ pc' = "lane"
            /\ UNCHANGED running
       ELSE /\ pc' = "END"
            /\ running' = FALSE
            /\ UNCHANGED <<retries, modified>>
    /\ UNCHANGED <<route, clone, locals, result, error, history>>

-----------------------------------------------------------------------------
(* Publication of the branch. *)

\* Deviation: only the files the lane recorded are staged.
CommitRecorded ==
    /\ At("publish") /\ Dirty # {}
    /\ head' = [f \in Files |-> IF f \in modified THEN disk[f] ELSE head[f]]
    /\ pc' = "push"
    /\ UNCHANGED <<running, route, disk, reports, pushed, locals, recorded, history>>

\* checkout -B, add --all, commit.
CommitAll ==
    /\ At("publish") /\ Dirty # {}
    /\ head' = disk
    /\ pc' = "push"
    /\ UNCHANGED <<running, route, disk, reports, pushed, locals, recorded, history>>

Push ==
    /\ At("push")
    /\ pushed' = head
    /\ pc' = "END" /\ running' = FALSE
    /\ UNCHANGED <<route, disk, head, reports, locals, recorded, history>>

\* Nothing to commit, or git refuses the commit or the push: never retried.
PublicationFails ==
    /\ At("publish") \/ At("push")
    /\ error' = [code |-> "delivery_branch_publication_failed", recoverable |-> FALSE]
    /\ pc' = "classify"
    /\ UNCHANGED <<running, route, clone, locals, modified, result, retries, attempts, history>>

-----------------------------------------------------------------------------
(***************************************************************************)
(* The process is killed, a command runs into its timeout, or a tool fails *)
(* in a way no caller catches.  OpenRewrite may have written poms, Maven   *)
(* reports.                                                                *)
(***************************************************************************)
Dies ==
    /\ running
    /\ running' = FALSE
    /\ IF pc = "lane" /\ route # "complex_refactor"
       THEN \E changed \in SUBSET Poms :
              disk' = [f \in Files |-> IF f \in changed THEN "edited" ELSE disk[f]]
       ELSE UNCHANGED disk
    /\ IF pc = "verify" THEN NewReports ELSE UNCHANGED reports
    /\ UNCHANGED <<pc, route, head, pushed, locals, recorded, history>>

\* The operator approves on a thread where no approval is awaited: the lane
\* of the route runs again, on the clone as it was left.
Decide ==
    /\ ~ running
    /\ decisions < MaxDecisions
    /\ decisions' = decisions + 1
    /\ running' = TRUE /\ pc' = "lane"
    /\ unseen' = unseen \cup (Dirty \ {Metadata})
    /\ UNCHANGED <<route, clone, locals, recorded, verified, fresh>>

Lane ==
    \/ RemediatePom \/ StartScaffold \/ FinishScaffold
    \/ \E f \in Files : WriteTarget(f) \/ RewriteSource(f)

Validation ==
    \/ RunMavenVerify \/ CollectTestReports \/ ScanDependencyTree \/ ScanLicenses
    \/ RecordValidation

Failure == RestoreTracked \/ RemoveUntracked \/ ClassifyFailure

Publication == CommitAll \/ Push \/ PublicationFails

Next == Lane \/ Validation \/ Failure \/ Publication \/ Dies \/ Decide

Spec == Init /\ [][Next]_vars

-----------------------------------------------------------------------------
(* Safety. *)

\* A retry finds the clone as HEAD has it, except for the metadata file and
\* edits nobody recorded: the poms of other modules, and what a died attempt
\* left (the rollback plan is computed from modified_files alone).
RetryStartsClean ==
    [][running /\ pc = "classify" /\ pc' = "lane" => Dirty \subseteq unseen \cup {Metadata}]_vars

\* The rewriting of a source file is not repeatable, and the retries of one
\* invocation never repeat it: only an operator's second approval does.
RetriesRewriteOnce ==
    decisions = 0 => \A f \in Files : disk[f] # "reedited"

\* What reaches the remote branch is, file for file, the work tree the last
\* `mvn verify` ran on, and that validation passed.
PushedIsVerified ==
    [][pushed' # pushed => pushed' = verified /\ result = Passed]_vars

\* Every edit of the commit is named in modified_files, which the pull request
\* and the audit trail show, or is one of the unrecorded ones.  One file more
\* goes along with them: the inventory's metadata, which nothing rolls back and
\* `git add --all` stages, is in the first commit made of every clone.
CommitIsAccountedFor ==
    [][head' # head => /\ Dirty \subseteq modified \cup unseen \cup {Metadata}
                       /\ head'[Metadata] = "edited"]_vars

\* Test reports left by an earlier attempt neither let a result pass nor earn
\* a retry: both need reports of this very attempt.
StaleReportsDecideNothing ==
    /\ result = Passed /\ pc \in {"publish", "push"} => fresh /\ reports # "red"
    /\ pc = "classify" /\ error.recoverable /\ "unit_tests" \in result => fresh

=============================================================================
