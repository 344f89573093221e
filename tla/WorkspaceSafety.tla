-------------------------- MODULE WorkspaceSafety --------------------------
(* Proofs about the clone of a repository, for any plan, any sources, any   *)
(* build and any number of retries and interruptions.                       *)
EXTENDS Workspace, TLAPS

TreeInv == disk \in [Files -> Contents] /\ head \in [Files -> Contents]

Verdicts == {"reports", "tree", "licenses", "result"}

\* What publication holds is what was verified, through every check.
VerifiedInv ==
    /\ pc \in Verdicts \cup {"publish"} => disk = verified
    /\ pc \in {"publish", "push"} => result = Passed
    /\ pc = "push" => head = verified

\* No lane and no rollback touches the metadata file.
MetadataInv ==
    /\ disk[Metadata] = "edited"
    /\ Metadata \notin todo \cup touched \cup modified

\* The dirty files are the recorded ones, less what the rollback has done,
\* the unseen ones and the metadata file.  Publication fails for good, so the clone it leaves
\* dirty reaches no retry.
Accounted ==
    CASE pc = "scaffold" -> touched
      [] pc \in Verdicts \cup {"verify", "rollback", "publish"} -> modified
      [] pc = "remove" -> {f \in modified : ~ InHead(f)}
      [] OTHER -> {}

DirtInv ==
    running /\ (pc = "classify" => error.recoverable) => Dirty \subseteq Accounted \cup unseen \cup {Metadata}

IInv == TreeInv /\ VerifiedInv /\ MetadataInv /\ DirtInv

-----------------------------------------------------------------------------

\* The first attempt starts on the base commit.
LEMMA InitInv == Init => IInv
<1> SUFFICES ASSUME Init PROVE IInv
  OBVIOUS
<1>1. Metadata \in Files
  BY DEF Files
<1>2. head \in [Files -> Contents] /\ disk = [head EXCEPT ![Metadata] = "edited"]
  BY DEF Init, BaseCommits, Contents
<1>3. disk \in [Files -> Contents] /\ disk[Metadata] = "edited"
  BY <1>1, <1>2 DEF Contents
<1>4. Dirty \subseteq {Metadata}
  BY <1>2 DEF Dirty
<1> QED
  BY <1>2, <1>3, <1>4
     DEF Init, IInv, TreeInv, VerifiedInv, MetadataInv, DirtInv, Accounted, Verdicts

\* The metadata file is none of those a lane may edit.
LEMMA MetadataIsApart ==
    Metadata \in Files /\ Metadata \notin Planned \cup Sources \cup Poms /\ Manifest \in Poms
BY WorkspaceAssumption DEF Files, Poms

\* A lane's edits are recorded or unseen.
LEMMA LaneInv == IInv /\ Lane => IInv'
<1> SUFFICES ASSUME IInv, Lane PROVE IInv'
  OBVIOUS
<1> USE DEF IInv, TreeInv, VerifiedInv, MetadataInv, DirtInv, Accounted, Verdicts, Dirty, At,
            recorded, locals, history, clone, InHead
<1>1. CASE RemediatePom
  BY <1>1, MetadataIsApart DEF RemediatePom, Contents
<1>2. CASE StartScaffold
  BY <1>2, MetadataIsApart DEF StartScaffold
<1>3. ASSUME NEW f \in Files, WriteTarget(f) PROVE IInv'
  BY <1>3 DEF WriteTarget, Rewritten, Contents
<1>4. ASSUME NEW f \in Files, RewriteSource(f) PROVE IInv'
  BY <1>4 DEF RewriteSource, Rewritten, Contents
<1>5. CASE FinishScaffold
  BY <1>5 DEF FinishScaffold
<1> QED
  BY <1>1, <1>2, <1>3, <1>4, <1>5 DEF Lane

\* Validation only reads the tree.
LEMMA ValidationInv == IInv /\ Validation => IInv'
<1> SUFFICES ASSUME IInv, Validation PROVE IInv'
  OBVIOUS
<1> USE DEF IInv, TreeInv, VerifiedInv, MetadataInv, DirtInv, Accounted, Verdicts, Dirty, At,
            recorded, clone, history, InHead
<1>1. CASE RunMavenVerify
  BY <1>1 DEF RunMavenVerify
<1>2. CASE CollectTestReports
  BY <1>2 DEF CollectTestReports
<1>3. CASE ScanDependencyTree
  BY <1>3 DEF ScanDependencyTree
<1>4. CASE ScanLicenses
  BY <1>4 DEF ScanLicenses
<1>5. CASE RecordValidation
  BY <1>5 DEF RecordValidation
<1> QED
  BY <1>1, <1>2, <1>3, <1>4, <1>5 DEF Validation

\* The rollback takes the recorded files back to HEAD in its two steps.
LEMMA FailureInv == IInv /\ Failure => IInv'
<1> SUFFICES ASSUME IInv, Failure PROVE IInv'
  OBVIOUS
<1> USE DEF IInv, TreeInv, VerifiedInv, MetadataInv, DirtInv, Accounted, Verdicts, Dirty, At,
            recorded, locals, history, clone, InHead
<1>1. CASE RestoreTracked
  BY <1>1, MetadataIsApart DEF RestoreTracked
<1>2. CASE RemoveUntracked
  BY <1>2, MetadataIsApart DEF RemoveUntracked, Contents
<1>3. CASE ClassifyFailure
  BY <1>3 DEF ClassifyFailure, Retried, CanRetry
<1> QED
  BY <1>1, <1>2, <1>3 DEF Failure

\* The commit takes the whole tree.
LEMMA PublicationInv == IInv /\ Publication => IInv'
<1> SUFFICES ASSUME IInv, Publication PROVE IInv'
  OBVIOUS
<1> USE DEF IInv, TreeInv, VerifiedInv, MetadataInv, DirtInv, Accounted, Verdicts, Dirty, At,
            recorded, locals, history, clone, InHead
<1>1. CASE CommitAll
  BY <1>1 DEF CommitAll
<1>2. CASE Push
  BY <1>2 DEF Push
<1>3. CASE PublicationFails
  BY <1>3 DEF PublicationFails
<1> QED
  BY <1>1, <1>2, <1>3 DEF Publication

\* Every step keeps the invariant, and so do a crash and the operator.
LEMMA NextInv == IInv /\ [Next]_vars => IInv'
<1> SUFFICES ASSUME IInv, [Next]_vars PROVE IInv'
  OBVIOUS
<1> USE DEF IInv, TreeInv, VerifiedInv, MetadataInv, DirtInv, Accounted, Verdicts, Dirty,
            recorded, locals, history, clone, InHead
<1>1. CASE Dies
  BY <1>1, MetadataIsApart DEF Dies, Contents
<1>2. CASE Decide
  BY <1>2 DEF Decide
<1>3. CASE UNCHANGED vars
  BY <1>3 DEF vars
<1> QED
  BY <1>1, <1>2, <1>3, LaneInv, ValidationInv, FailureInv, PublicationInv DEF Next

-----------------------------------------------------------------------------

\* What is pushed is the tree that passed validation.
THEOREM PushVerified == Spec => PushedIsVerified
<1>1. IInv /\ [Next]_vars => [pushed' # pushed => pushed' = verified /\ result = Passed]_vars
  BY DEF IInv, VerifiedInv, Next, Lane, Validation, Failure, Publication, At,
         RemediatePom, StartScaffold, WriteTarget, RewriteSource, FinishScaffold,
         RunMavenVerify, CollectTestReports, ScanDependencyTree, ScanLicenses,
         RecordValidation, RestoreTracked, RemoveUntracked, ClassifyFailure,
         CommitAll, Push, PublicationFails, Dies, Decide, clone
<1> QED
  BY <1>1, InitInv, NextInv, PTL DEF Spec, PushedIsVerified

\* A commit holds recorded edits and unseen ones, and the metadata file.
THEOREM CommitAccounted == Spec => CommitIsAccountedFor
<1>1. IInv /\ [Next]_vars => [head' # head => /\ Dirty \subseteq modified \cup unseen \cup {Metadata}
                                              /\ head'[Metadata] = "edited"]_vars
  <2> SUFFICES ASSUME IInv, Next, head' # head
               PROVE  /\ Dirty \subseteq modified \cup unseen \cup {Metadata}
                      /\ head'[Metadata] = "edited"
    OBVIOUS
  <2>1. CommitAll
    BY DEF Next, Lane, Validation, Failure, Publication,
         RemediatePom, StartScaffold, WriteTarget, RewriteSource, FinishScaffold,
         RunMavenVerify, CollectTestReports, ScanDependencyTree, ScanLicenses,
         RecordValidation, RestoreTracked, RemoveUntracked, ClassifyFailure,
         Push, PublicationFails, Dies, Decide, clone
  <2> QED
    BY <2>1 DEF CommitAll, At, IInv, DirtInv, MetadataInv, Accounted
<1> QED
  BY <1>1, InitInv, NextInv, PTL DEF Spec, CommitIsAccountedFor

\* A retry starts on HEAD, but for the unseen edits and the metadata file.
THEOREM RetriesStartClean == Spec => RetryStartsClean
<1>1. IInv /\ [Next]_vars
      => [running /\ pc = "classify" /\ pc' = "lane" =>
             Dirty \subseteq unseen \cup {Metadata}]_vars
  <2> SUFFICES ASSUME IInv, Next, running, pc = "classify", pc' = "lane"
               PROVE  Dirty \subseteq unseen \cup {Metadata}
    OBVIOUS
  <2>1. ClassifyFailure
    BY DEF Next, Lane, Validation, Failure, Publication, At,
         RemediatePom, StartScaffold, WriteTarget, RewriteSource, FinishScaffold,
         RunMavenVerify, CollectTestReports, ScanDependencyTree, ScanLicenses,
         RecordValidation, RestoreTracked, RemoveUntracked,
         CommitAll, Push, PublicationFails, Dies, Decide
  <2>2. error.recoverable
    BY <2>1 DEF ClassifyFailure, Retried, CanRetry
  <2> QED
    BY <2>2 DEF IInv, DirtInv, Accounted, Verdicts
<1> QED
  BY <1>1, InitInv, NextInv, PTL DEF Spec, RetryStartsClean

-----------------------------------------------------------------------------

\* Until the operator decides, HEAD is the base commit wherever a lane can
\* follow, and the scaffold finds each file as HEAD has it.
RewriteInv ==
    /\ decisions \in Nat
    /\ decisions = 0 =>
        /\ \A f \in Files : disk[f] # "reedited" /\ head[f] # "reedited"
        /\ route = "complex_refactor" => unseen = {}
        /\ pc \notin {"push", "END"} /\ (pc = "classify" => error.recoverable) =>
               \A f \in Files : head[f] \in {"absent", "base"}
        /\ pc = "scaffold" => \A f \in todo : f \in Files => disk[f] \in {"absent", "base"}

LEMMA InitRewrite == Init => RewriteInv
BY DEF Init, RewriteInv, BaseCommits

\* A lane rewrites no file that it, or an earlier attempt, has rewritten.
LEMMA LaneRewrite == IInv /\ RewriteInv /\ Lane => RewriteInv'
<1> SUFFICES ASSUME IInv, RewriteInv, Lane PROVE RewriteInv'
  OBVIOUS
<1> USE DEF RewriteInv, IInv, TreeInv, At, recorded, locals, history, clone
<1>1. CASE RemediatePom
  BY <1>1 DEF RemediatePom
<1>2. CASE StartScaffold
  <2>1. Dirty \subseteq unseen \cup {Metadata} /\ Metadata \notin todo'
    BY <1>2, WorkspaceAssumption DEF StartScaffold, DirtInv, Accounted, Verdicts
  <2> QED
    BY <1>2, <2>1 DEF StartScaffold, Dirty
<1>3. ASSUME NEW f \in Files, WriteTarget(f) PROVE RewriteInv'
  BY <1>3 DEF WriteTarget, Rewritten
<1>4. ASSUME NEW f \in Files, RewriteSource(f) PROVE RewriteInv'
  BY <1>4 DEF RewriteSource, Rewritten
<1>5. CASE FinishScaffold
  BY <1>5 DEF FinishScaffold
<1> QED
  BY <1>1, <1>2, <1>3, <1>4, <1>5 DEF Lane

\* No other step edits a source.
LEMMA RewriteKept == IInv /\ RewriteInv /\ [Next]_vars => RewriteInv'
<1> SUFFICES ASSUME IInv, RewriteInv, [Next]_vars PROVE RewriteInv'
  OBVIOUS
<1> USE DEF RewriteInv, IInv, TreeInv, At, recorded, locals, history, clone
<1>1. CASE Validation
  BY <1>1 DEF Validation, RunMavenVerify, CollectTestReports, ScanDependencyTree,
              ScanLicenses, RecordValidation
<1>2. CASE RestoreTracked \/ RemoveUntracked
  BY <1>2 DEF RestoreTracked, RemoveUntracked, InHead
<1>3. CASE ClassifyFailure
  BY <1>3 DEF ClassifyFailure, Retried, CanRetry
<1>4. CASE CommitAll
  BY <1>4 DEF CommitAll
<1>5. CASE Push \/ PublicationFails
  BY <1>5 DEF Push, PublicationFails
<1>6. CASE Dies
  BY <1>6 DEF Dies
<1>7. CASE Decide
  BY <1>7 DEF Decide
<1>8. CASE UNCHANGED vars
  BY <1>8 DEF vars
<1> QED
  BY <1>1, <1>2, <1>3, <1>4, <1>5, <1>6, <1>7, <1>8, LaneRewrite
     DEF Next, Failure, Publication

\* However often it is retried, an attempt nobody interfered with rewrites
\* every source at most once on top of the base commit.
THEOREM RewritesOnce == Spec => []RetriesRewriteOnce
<1>1. RewriteInv => RetriesRewriteOnce
  BY DEF RewriteInv, RetriesRewriteOnce
<1> QED
  BY <1>1, InitInv, NextInv, InitRewrite, RewriteKept, PTL DEF Spec

-----------------------------------------------------------------------------
(* Types.  A validation result is one the retry matrix knows only because   *)
(* the checks are made in order and each adds at most one failure, and only *)
(* a recorded result is rolled back.                                        *)

TypeInv ==
    /\ TypeOK
    /\ pc = "reports" => failed \subseteq {"compile"}
    /\ pc = "tree" => failed \subseteq {"compile", "unit_tests"}
    /\ pc = "licenses" => failed \subseteq {"compile", "unit_tests", "security_noop"}
    /\ pc \in {"rollback", "remove"} => result \in ValidationResults

\* Of several failed checks one comes first.
LEMMA FirstIsMember ==
    ASSUME NEW some \in SUBSET Checks, some # {}
    PROVE  First(some) \in some
<1> DEFINE Position(c) == CheckOrder[c]
<1>1. \A c \in some : Position(c) \in 1 .. 4
  BY DEF Checks, CheckOrder
<1>2. \E c \in some : \A d \in some : Position(c) <= Position(d)
  <2>1. CASE \E c \in some : Position(c) = 1
    BY <1>1, <2>1
  <2>2. CASE (\A c \in some : Position(c) # 1) /\ \E c \in some : Position(c) = 2
    BY <1>1, <2>2
  <2>3. CASE (\A c \in some : Position(c) \notin {1, 2}) /\ \E c \in some : Position(c) = 3
    BY <1>1, <2>3
  <2>4. CASE \A c \in some : Position(c) \notin {1, 2, 3}
    BY <1>1, <2>4
  <2> QED
    BY <2>1, <2>2, <2>3, <2>4
<1> QED
  BY <1>2 DEF First

\* A failed validation has an error code of its own.
LEMMA ValidationErrorCodeType ==
    ASSUME NEW some \in ValidationResults
    PROVE  ValidationErrorCode(some) \in ErrorCodes
<1>1. CASE some = Passed
  BY <1>1 DEF ValidationErrorCode, ErrorCodes, ValidationCodes
<1>2. CASE some # Passed
  <2>1. First(some) \in Checks
    BY <1>2, FirstIsMember DEF ValidationResults, Passed
  <2>2. ValidationErrorCode(some) = ValidationCodeOf[First(some)]
    BY <1>2 DEF ValidationErrorCode
  <2> QED
    BY <2>1, <2>2 DEF ErrorCodes, ValidationCodes
<1> QED
  BY <1>1, <1>2

\* Any failures of the first three checks make a result with any of the fourth.
LEMMA FailuresOfChecks ==
    ASSUME NEW some \in SUBSET {"compile", "unit_tests", "security_noop", "security_unreachable"},
           ~ {"security_noop", "security_unreachable"} \subseteq some,
           NEW license \in {{}, {"license_denied"}, {"license_unreachable"}}
    PROVE  some \in ValidationResults /\ some \cup license \in ValidationResults
<1>1. Checks = {"compile", "unit_tests", "security_noop", "security_unreachable",
                "license_denied", "license_unreachable"}
  BY DEF Checks, CheckOrder
<1>2. some \in SUBSET Checks /\ some \cup license \in SUBSET Checks
  BY <1>1
<1> QED
  BY <1>2 DEF ValidationResults

\* Failures of the first three checks are a result when the scan could be made.
LEMMA VerdictsAreResults ==
    ASSUME NEW some, some \subseteq {"compile", "unit_tests", "security_noop"}
    PROVE  some \in ValidationResults
BY FailuresOfChecks

\* The first attempt starts typed.
LEMMA InitType == Init => TypeInv
<1> SUFFICES ASSUME Init PROVE TypeInv
  OBVIOUS
<1>1. Passed \in ValidationResults
  BY DEF Passed, ValidationResults
<1>2. NoError \in WorkflowErrors
  BY DEF NoError, WorkflowErrors, ErrorCodes
<1>3. /\ disk \in [Files -> Contents] /\ head \in [Files -> Contents]
      /\ NoTree \in [Files -> Contents]
  BY InitInv DEF IInv, TreeInv, NoTree, Contents
<1>4. 0 \in 0 .. MaxRetries /\ 0 \in 0 .. MaxDecisions
  BY WorkspaceAssumption
<1> QED
  BY <1>1, <1>2, <1>3, <1>4 DEF Init, TypeInv, TypeOK, Steps, Reports

\* A lane writes contents a file may have.
LEMMA LaneType == TypeInv /\ Lane => TypeInv'
<1> SUFFICES ASSUME TypeInv, Lane PROVE TypeInv'
  OBVIOUS
<1> USE DEF TypeInv, TypeOK, Steps, At, recorded, locals, history, clone
<1>1. CASE RemediatePom
  BY <1>1 DEF RemediatePom, Contents, Files, Poms
<1>2. CASE StartScaffold
  BY <1>2 DEF StartScaffold, Files
<1>3. ASSUME NEW f \in Files, WriteTarget(f) PROVE TypeInv'
  BY <1>3 DEF WriteTarget, Rewritten, Contents
<1>4. ASSUME NEW f \in Files, RewriteSource(f) PROVE TypeInv'
  BY <1>4 DEF RewriteSource, Rewritten, Contents
<1>5. CASE FinishScaffold
  BY <1>5 DEF FinishScaffold
<1> QED
  BY <1>1, <1>2, <1>3, <1>4, <1>5 DEF Lane

\* Check after check the result stays one the matrix knows.
LEMMA ValidationType == TypeInv /\ Validation => TypeInv'
<1> SUFFICES ASSUME TypeInv, Validation PROVE TypeInv'
  OBVIOUS
<1>empty. Passed = {}
  BY DEF Passed
<1> USE DEF TypeInv, TypeOK, Steps, At, recorded, locals, history, clone
<1>1. CASE RunMavenVerify
  <2>1. failed' \subseteq {"compile"} /\ failed' \in ValidationResults
    <3>1. failed' \subseteq {"compile"}
      BY <1>1, <1>empty DEF RunMavenVerify
    <3> QED
      BY <3>1, VerdictsAreResults
  <2>2. reports' \in Reports /\ fresh' \in BOOLEAN
    BY <1>1 DEF RunMavenVerify, NewReports, Reports
  <2> QED
    BY <1>1, <2>1, <2>2 DEF RunMavenVerify
<1>2. CASE CollectTestReports
  <2>1. failed' \subseteq {"compile", "unit_tests"}
    BY <1>2 DEF CollectTestReports
  <2>2. failed' \in ValidationResults
    BY <2>1, VerdictsAreResults
  <2> QED
    BY <1>2, <2>1, <2>2 DEF CollectTestReports
<1>3. CASE ScanDependencyTree
  <2>1. CASE failed' = failed \cup UnreadableTreeFailures(LicenseLists) /\ pc' = "result"
    <3> DEFINE some == failed \cup {"security_unreachable"}
    <3>1. failed \subseteq {"compile", "unit_tests"}
      BY <1>3 DEF ScanDependencyTree
    <3>2. some \cup (IF LicenseLists THEN {"license_unreachable"} ELSE {}) \in ValidationResults
      BY <3>1, FailuresOfChecks
    <3>3. failed' = some \cup (IF LicenseLists THEN {"license_unreachable"} ELSE {})
      BY <2>1 DEF UnreadableTreeFailures
    <3> QED
      BY <1>3, <2>1, <3>2, <3>3 DEF ScanDependencyTree
  <2>2. ASSUME NEW versions, failed' = failed \cup SecurityFailures(versions, "target"),
               pc' = "licenses"
        PROVE  TypeInv'
    <3>1. failed' \subseteq {"compile", "unit_tests", "security_noop"}
      BY <1>3, <2>2 DEF ScanDependencyTree, SecurityFailures
    <3>2. failed' \in ValidationResults
      BY <3>1, VerdictsAreResults
    <3> QED
      BY <1>3, <2>2, <3>1, <3>2 DEF ScanDependencyTree
  <2> QED
    BY <1>3, <2>1, <2>2 DEF ScanDependencyTree
<1>4. CASE ScanLicenses
  <2>1. PICK found : failed' = failed \cup LicenseFailures(found, LicenseLists)
    BY <1>4 DEF ScanLicenses
  <2>2. LicenseFailures(found, LicenseLists) \in {{}, {"license_denied"}, {"license_unreachable"}}
    BY DEF LicenseFailures
  <2>3. failed \subseteq {"compile", "unit_tests", "security_noop"}
    BY <1>4 DEF ScanLicenses
  <2>4. failed' \in ValidationResults
    BY <2>1, <2>2, <2>3, FailuresOfChecks
  <2> QED
    BY <1>4, <2>4 DEF ScanLicenses
<1>5. CASE RecordValidation
  <2>1. failed' \in ValidationResults
    BY <1>5, <1>empty, VerdictsAreResults DEF RecordValidation
  <2> QED
    BY <1>5, <2>1 DEF RecordValidation
<1> QED
  BY <1>1, <1>2, <1>3, <1>4, <1>5 DEF Validation

\* The rollback keeps the types, and a retry stays within its budget.
LEMMA FailureType == TypeInv /\ Failure => TypeInv'
<1> SUFFICES ASSUME TypeInv, Failure PROVE TypeInv'
  OBVIOUS
<1> USE DEF TypeInv, TypeOK, Steps, At, recorded, locals, history, clone
<1>1. CASE RestoreTracked
  BY <1>1 DEF RestoreTracked, Contents
<1>2. CASE RemoveUntracked
  <2>1. ValidationErrorCode(result) \in ErrorCodes
    BY <1>2, ValidationErrorCodeType DEF RemoveUntracked
  <2>2. IsRecoverableValidationFailure(result) \in BOOLEAN
    BY DEF IsRecoverableValidationFailure
  <2>3. error' \in WorkflowErrors
    BY <1>2, <2>1, <2>2 DEF RemoveUntracked, WorkflowErrors
  <2>4. disk' \in [Files -> Contents]
    BY <1>2 DEF RemoveUntracked, Contents
  <2> QED
    BY <1>2, <2>3, <2>4 DEF RemoveUntracked
<1>3. CASE ClassifyFailure
  <2>1. Retried => retries < MaxRetries
    BY DEF Retried, CanRetry
  <2>2. attempts' \in Nat /\ UNCHANGED <<route, clone, locals, result, error, history>>
    BY <1>3 DEF ClassifyFailure
  <2>3. CASE Retried
    <3>1. retries' = retries + 1 /\ modified' = {} /\ pc' = "lane" /\ running' = running
      BY <1>3, <2>3 DEF ClassifyFailure
    <3>2. retries' \in 0 .. MaxRetries
      BY <2>1, <2>3, <3>1, WorkspaceAssumption
    <3> QED
      BY <2>2, <3>1, <3>2
  <2>4. CASE ~ Retried
    BY <1>3, <2>2, <2>4 DEF ClassifyFailure
  <2> QED
    BY <2>3, <2>4
<1> QED
  BY <1>1, <1>2, <1>3 DEF Failure

\* Every step keeps the types.
LEMMA NextType == TypeInv /\ [Next]_vars => TypeInv'
<1> SUFFICES ASSUME TypeInv, [Next]_vars PROVE TypeInv'
  OBVIOUS
<1> USE DEF TypeInv, TypeOK, Steps, At, recorded, locals, history, clone
<1>1. CASE CommitAll
  BY <1>1 DEF CommitAll
<1>2. CASE Push
  BY <1>2 DEF Push
<1>3. CASE PublicationFails
  <2>1. error' \in WorkflowErrors
    BY <1>3 DEF PublicationFails, WorkflowErrors, ErrorCodes, DeliveryCodes
  <2> QED
    BY <1>3, <2>1 DEF PublicationFails
<1>4. CASE Dies
  <2>1. disk' \in [Files -> Contents]
    BY <1>4 DEF Dies, Contents
  <2>2. reports' \in Reports
    BY <1>4 DEF Dies, NewReports, Reports
  <2> QED
    BY <1>4, <2>1, <2>2 DEF Dies
<1>5. CASE Decide
  BY <1>5, WorkspaceAssumption DEF Decide, Dirty, WorkspaceAssumption
<1>6. CASE UNCHANGED vars
  BY <1>6 DEF vars
<1> QED
  BY <1>1, <1>2, <1>3, <1>4, <1>5, <1>6, LaneType, ValidationType, FailureType
     DEF Next, Publication

\* Every file, check, verdict and counter of a repository's attempts has its
\* type: validation hands the retry matrix only results it was written for.
THEOREM WorkspaceTypeCorrect == Spec => []TypeOK
<1>1. TypeInv => TypeOK
  BY DEF TypeInv
<1> QED
  BY <1>1, InitType, NextType, PTL DEF Spec

-----------------------------------------------------------------------------
(* Reports.  A build that wrote none has failed to compile, which no later  *)
(* check takes back, and red ones become a failure of the result; so        *)
(* whatever lies under target/ from earlier decides nothing by itself.      *)

ReportInv ==
    /\ pc \in Verdicts => fresh \/ "compile" \in failed
    /\ pc \in Verdicts \ {"reports"} /\ reports = "red" => "unit_tests" \in failed
    /\ pc \in {"rollback", "remove"} => fresh \/ "compile" \in result
    /\ StaleReportsDecideNothing

\* Nothing has been validated yet.
LEMMA InitReport == Init => ReportInv
BY DEF Init, ReportInv, StaleReportsDecideNothing, Verdicts

\* A lane makes the reports stale, and decides nothing.
LEMMA LaneReport == ReportInv /\ Lane => ReportInv'
BY DEF ReportInv, StaleReportsDecideNothing, Verdicts, Lane, RemediatePom, StartScaffold,
       WriteTarget, RewriteSource, FinishScaffold, At, recorded, locals, history, clone

\* The failures a check found stay until the result is recorded.
LEMMA ValidationReport == ReportInv /\ Validation => ReportInv'
<1> SUFFICES ASSUME ReportInv, Validation PROVE ReportInv'
  OBVIOUS
<1> USE DEF ReportInv, StaleReportsDecideNothing, Verdicts, At, recorded, clone, history
<1>1. CASE RunMavenVerify
  BY <1>1 DEF RunMavenVerify
<1>2. CASE CollectTestReports
  BY <1>2 DEF CollectTestReports
<1>3. CASE ScanDependencyTree
  BY <1>3 DEF ScanDependencyTree
<1>4. CASE ScanLicenses
  BY <1>4 DEF ScanLicenses
<1>5. CASE RecordValidation
  BY <1>5 DEF RecordValidation, Passed
<1> QED
  BY <1>1, <1>2, <1>3, <1>4, <1>5 DEF Validation

\* A result that failed to compile is worth no retry, whatever else it says.
LEMMA FailureReport == ReportInv /\ Failure => ReportInv'
<1> SUFFICES ASSUME ReportInv, Failure PROVE ReportInv'
  OBVIOUS
<1> USE DEF ReportInv, StaleReportsDecideNothing, Verdicts, At, recorded, locals, history, clone
<1>1. CASE RestoreTracked
  BY <1>1 DEF RestoreTracked
<1>2. CASE RemoveUntracked
  <2>1. IsRecoverableValidationFailure(result) /\ "unit_tests" \in result => fresh
    BY <1>2 DEF RemoveUntracked, IsRecoverableValidationFailure, IsTransientCheck
  <2>2. error'.recoverable = IsRecoverableValidationFailure(result)
    BY <1>2 DEF RemoveUntracked
  <2> QED
    BY <1>2, <2>1, <2>2 DEF RemoveUntracked
<1>3. CASE ClassifyFailure
  BY <1>3 DEF ClassifyFailure
<1> QED
  BY <1>1, <1>2, <1>3 DEF Failure

\* A commit builds nothing; a killed build may leave reports that no record
\* speaks of, and the lane that follows makes them stale.
LEMMA NextReport == ReportInv /\ [Next]_vars => ReportInv'
<1> SUFFICES ASSUME ReportInv, [Next]_vars PROVE ReportInv'
  OBVIOUS
<1> USE DEF ReportInv, StaleReportsDecideNothing, Verdicts, At, recorded, locals, history, clone
<1>1. CASE CommitAll \/ Push
  BY <1>1 DEF CommitAll, Push
<1>2. CASE PublicationFails
  BY <1>2 DEF PublicationFails
<1>3. CASE Dies
  BY <1>3 DEF Dies
<1>4. CASE Decide
  BY <1>4 DEF Decide
<1>5. CASE UNCHANGED vars
  BY <1>5 DEF vars
<1> QED
  BY <1>1, <1>2, <1>3, <1>4, <1>5, LaneReport, ValidationReport, FailureReport
     DEF Next, Publication

\* Reports of an earlier attempt never let a result pass and never earn a
\* retry, however the attempts were interrupted.
THEOREM OnlyFreshReportsCount == Spec => []StaleReportsDecideNothing
<1>1. ReportInv => StaleReportsDecideNothing
  BY DEF ReportInv
<1> QED
  BY <1>1, InitReport, NextReport, PTL DEF Spec

=============================================================================
