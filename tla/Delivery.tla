------------------------------ MODULE Delivery ------------------------------
(***************************************************************************)
(* Live delivery of one ticket, call by call: the idempotency search and   *)
(* the clones at intake, and for every repository the commit, the push,    *)
(* the pull request, the Jira comment and the Jira transition, against a   *)
(* Git remote, GitHub and a Jira ticket that outlive the process.          *)
(*                                                                         *)
(* RemediationGraph takes publish_remediation as one step; here it is cut  *)
(* at every effect another party can see.  The results of the calls are    *)
(* checkpointed only when the node returns.  Lanes, validation and gates   *)
(* are left out: they come between taking a repository in hand and its     *)
(* commit.                                                                 *)
(***************************************************************************)
EXTENDS FailureMatrix, FiniteSets

CONSTANTS
    NumRepos,           \* repositories the ticket affects, in ticket order
    MaxRetries,         \* EA_MAX_RETRIES
    MaxTotalAttempts,   \* EA_MAX_TOTAL_ATTEMPTS
    JiraSetups,         \* how the done transition may be configured
    SearchMatches,      \* is the ticket's fixed version the recommended one
    NetworkFails,       \* requests and answers may be lost
    ServersRefuse,      \* a request may fail with an error the code takes for final
    ProcessDies,        \* the process may be killed
    MaxCommands         \* bound: operator commands in a behaviour

Repos == 1 .. NumRepos
NoRepo == 0
Commands == 1 .. MaxCommands
\* doneBy: which of jira_done_transition_id ("id") and jira_done_status_name
\* ("name") are configured; doneAgain: Jira offers and takes the done
\* transition of an issue that is done already.
Setups == [doneBy : SUBSET {"id", "name"}, doneAgain : BOOLEAN]
NoClone == 0     \* no commit; otherwise the command that made the clone it is in

ASSUME DeliveryAssumption ==
    /\ NumRepos \in Nat \ {0}
    /\ MaxRetries \in Nat /\ MaxTotalAttempts \in Nat /\ MaxCommands \in Nat
    /\ JiraSetups \subseteq Setups
    /\ {SearchMatches, NetworkFails, ServersRefuse, ProcessDies} \subseteq BOOLEAN

VARIABLES
    at,           \* the call the process makes next
    outcome,      \* how the latest invocation ended
    \* RemediationState
    repo, pending, completed, skipped,
    delivered,    \* how many of branch, pull request, Jira completion are recorded
    error, retries, attempts,
    \* workspaces on disk
    clone,        \* the command that cloned the repository, NoClone if there is no workspace
    head,         \* the clone whose commit is checked out, NoClone for the default branch
    dirty,        \* the workspace in hand has changes git would commit
    \* the other parties
    remote,       \* the clone whose commits the remote branch carries
    pull,         \* the latest pull request of the branch
    commented,    \* repositories the ticket has a comment about
    ticket,       \* the ticket's status
    setup,        \* the configuration, the same in every run
    \* history
    command,      \* operator commands so far
    opened,       \* clones from which a pull request was opened
    refused       \* a request of this invocation failed with an error taken for final

runVars == <<repo, pending, completed, skipped>>
failureVars == <<error, retries, attempts>>
diskVars == <<clone, head, dirty>>
hubVars == <<remote, pull, opened>>
jiraVars == <<commented, ticket>>
operatorVars == <<command, setup>>

vars == <<at, outcome, runVars, delivered, failureVars, diskVars, hubVars, jiraVars,
          operatorVars, refused>>

CallSteps == {"commit", "push", "pull_request", "existing", "comment", "choose", "transition"}
Requests == {"pull_request", "existing", "comment", "choose", "transition"}

TypeOK ==
    /\ at \in CallSteps \cup {"rest", "check", "classify"}
    /\ outcome \in {"none", "running", "completed", "escalated", "died"}
    /\ repo \in Repos \cup {NoRepo}
    /\ pending \subseteq Repos /\ completed \subseteq Repos /\ skipped \subseteq Repos
    /\ delivered \in 0 .. 3
    /\ error \in WorkflowErrors /\ retries \in 0 .. MaxRetries /\ attempts \in Nat
    /\ clone \in [Repos -> Commands \cup {NoClone}]
    /\ head \in [Repos -> Commands \cup {NoClone}]
    /\ dirty \in BOOLEAN
    /\ remote \in [Repos -> Commands \cup {NoClone}]
    /\ pull \in [Repos -> {"none", "open", "closed"}]
    /\ opened \in [Repos -> SUBSET Commands]
    /\ commented \subseteq Repos /\ ticket \in {"open", "done"}
    /\ setup \in JiraSetups
    /\ command \in 0 .. MaxCommands
    /\ refused \in BOOLEAN

Init ==
    /\ at = "rest" /\ outcome = "none"
    /\ repo = NoRepo /\ pending = {} /\ completed = {} /\ skipped = {}
    /\ delivered = 0
    /\ error = NoError /\ retries = 0 /\ attempts = 0
    /\ clone = [r \in Repos |-> NoClone] /\ head = [r \in Repos |-> NoClone] /\ dirty = FALSE
    /\ remote = [r \in Repos |-> NoClone] /\ pull = [r \in Repos |-> "none"]
    /\ opened = [r \in Repos |-> {}]
    /\ commented = {} /\ ticket = "open" /\ setup \in JiraSetups
    /\ command = 0 /\ refused = FALSE

FirstOf(repos) == CHOOSE r \in repos : \A other \in repos : r <= other

-----------------------------------------------------------------------------
(* Intake: the idempotency search and the clones. *)

\* Deviation: only open pull requests are searched for.
FindExistingPullRequestOpenOnly(r) == SearchMatches /\ pull[r] = "open"

\* The search asks for the ticket, the package and the ticket's fixed version,
\* among open and recently closed pull requests; a pull request names the
\* version the advisory recommended.
FindExistingPullRequest(r) == SearchMatches /\ pull[r] # "none"

\* One target of the loop; the lists are returned, and checkpointed, at its end.
CheckTarget ==
    /\ at = "check"
    /\ IF FindExistingPullRequest(repo)
       THEN /\ skipped' = skipped \cup {repo}
            /\ UNCHANGED <<pending, clone, head>>
       ELSE /\ clone[repo] = NoClone
            /\ clone' = [clone EXCEPT ![repo] = command]
            /\ head' = [head EXCEPT ![repo] = NoClone]
            /\ pending' = pending \cup {repo}
            /\ UNCHANGED skipped
    /\ CASE repo < NumRepos -> at' = "check" /\ repo' = repo + 1 /\ UNCHANGED <<outcome, dirty>>
         [] repo = NumRepos /\ pending' = {} ->
                at' = "rest" /\ repo' = NoRepo /\ outcome' = "completed" /\ UNCHANGED dirty
         [] OTHER -> at' = "commit" /\ repo' = FirstOf(pending') /\ dirty' = TRUE /\ UNCHANGED outcome
    /\ UNCHANGED <<completed, delivered, failureVars, hubVars, jiraVars, operatorVars, refused>>

\* git clone refuses a directory that an earlier run left behind.
CloneRefused == at = "check" /\ ~ FindExistingPullRequest(repo) /\ clone[repo] # NoClone

-----------------------------------------------------------------------------
(* publish_remediation, call by call. *)

\* What is recorded when the node returns from the call it is at.
Reached == CASE at \in {"commit", "push"} -> 0
             [] at \in {"pull_request", "existing"} -> 1
             [] OTHER -> 2

\* Deviation: the pull request is not looked at.
ResumeAtSkipping(recorded) == IF recorded = 0 THEN "commit" ELSE "comment"

\* The first call whose result is not recorded.
ResumeAt(recorded) == CASE recorded = 0 -> "commit" [] recorded = 1 -> "pull_request"
                        [] OTHER -> "comment"

\* Deviation: the calls that succeeded are forgotten with the one that failed.
FailForgetting(recoverable) ==
    /\ delivered' = 0
    /\ error' = [code |-> CASE Reached = 0 -> "delivery_branch_publication_failed"
                            [] Reached = 1 -> "delivery_pull_request_failed"
                            [] OTHER -> "delivery_jira_failed",
                 recoverable |-> recoverable]
    /\ at' = "classify"
    /\ UNCHANGED <<outcome, runVars, retries, attempts>>

\* The node returns a failure: progress is recorded with the error.
Fail(recoverable) ==
    /\ delivered' = Reached
    /\ error' = [code |-> CASE Reached = 0 -> "delivery_branch_publication_failed"
                            [] Reached = 1 -> "delivery_pull_request_failed"
                            [] OTHER -> "delivery_jira_failed",
                 recoverable |-> recoverable]
    /\ at' = "classify"
    /\ UNCHANGED <<outcome, runVars, retries, attempts>>

\* The server acted and its answer is lost: a timeout or a network error is
\* transient; a connection that breaks inside the answer is taken for final.
LoseAnswer ==
    \E transient \in {TRUE, ~ ServersRefuse} :
        Fail(transient) /\ refused' = (refused \/ ~ transient)

\* The node goes on to its next call.
Continue(call) == at' = call /\ UNCHANGED <<outcome, runVars, delivered, failureVars>>

\* The node returns success: the next repository is taken in hand.
Finish ==
    /\ completed' = completed \cup {repo}
    /\ pending' = pending \ {repo}
    /\ error' = NoError
    /\ IF pending' = {}
       THEN at' = "rest" /\ outcome' = "completed" /\ delivered' = 3
            /\ UNCHANGED <<repo, dirty, retries, attempts>>
       ELSE at' = "commit" /\ delivered' = 0 /\ repo' = FirstOf(pending') /\ dirty' = TRUE
            /\ retries' = 0 /\ attempts' = 0 /\ UNCHANGED outcome
    /\ UNCHANGED <<skipped, clone, head>>

\* create_branch (checkout -B), add_all, status_clean, commit.
Commit ==
    /\ at = "commit"
    /\ IF dirty
       THEN /\ head' = [head EXCEPT ![repo] = clone[repo]]
            /\ dirty' = FALSE
            /\ Continue("push")
       ELSE Fail(FALSE) /\ UNCHANGED <<head, dirty>>
    /\ UNCHANGED <<clone, hubVars, jiraVars, operatorVars, refused>>

FastForward == remote[repo] \in {NoClone, head[repo]}

Push ==
    /\ at = "push"
    /\ FastForward
    /\ remote' = [remote EXCEPT ![repo] = head[repo]]
    /\ Continue("pull_request")
    /\ UNCHANGED <<diskVars, pull, opened, jiraVars, operatorVars, refused>>

\* POST /pulls: GitHub refuses a second open pull request for a branch (422).
OpenPullRequest ==
    /\ at = "pull_request"
    /\ \E answered \in {TRUE, ~ NetworkFails} :
        IF pull[repo] = "open" /\ answered
        THEN Continue("existing") /\ UNCHANGED <<pull, opened, refused>>
        ELSE /\ pull' = [pull EXCEPT ![repo] = "open"]
             /\ opened' = [opened EXCEPT ![repo] =
                              IF pull[repo] = "open" THEN @ ELSE @ \cup {clone[repo]}]
             /\ IF answered THEN Continue("comment") /\ UNCHANGED refused ELSE LoseAnswer
    /\ UNCHANGED <<diskVars, remote, jiraVars, operatorVars>>

\* After the 422: the open pull request is looked up, brought up to date and
\* used.  If a reviewer closed it meanwhile the 422 is raised.
BindExistingPullRequest ==
    /\ at = "existing"
    /\ IF pull[repo] = "open"
       THEN Continue("comment") /\ UNCHANGED refused
       ELSE Fail(FALSE) /\ refused' = TRUE
    /\ UNCHANGED <<diskVars, hubVars, jiraVars, operatorVars>>

CommentOnTicket ==
    /\ at = "comment"
    /\ commented' = commented \cup {repo}
    /\ \E answered \in {TRUE, ~ NetworkFails} :
        CASE answered /\ setup.doneBy = {} -> Finish /\ UNCHANGED refused
          [] answered /\ setup.doneBy # {} ->
                /\ Continue(IF "id" \in setup.doneBy THEN "transition" ELSE "choose")
                /\ UNCHANGED <<diskVars, refused>>
          [] OTHER -> LoseAnswer /\ UNCHANGED diskVars
    /\ UNCHANGED <<hubVars, ticket, operatorVars>>

\* GET /transitions: the one that leads to jira_done_status_name.
ChooseTransition ==
    /\ at = "choose"
    /\ IF ticket = "open" \/ setup.doneAgain THEN Continue("transition") ELSE Fail(FALSE)
    /\ UNCHANGED <<diskVars, hubVars, jiraVars, operatorVars, refused>>

\* Deviation: an issue that is done already is taken for a failed transition.
AcceptsTransitionStrictly == ticket = "open" \/ setup.doneAgain

\* Jira makes the transition; or it says the issue is there already, which is
\* believed when the configured status name is the issue's status.
AcceptsTransition == ticket = "open" \/ setup.doneAgain \/ "name" \in setup.doneBy

TransitionTicket ==
    /\ at = "transition"
    /\ \E answered \in {TRUE, ~ NetworkFails} :
        CASE ~ answered -> ticket' = "done" /\ LoseAnswer /\ UNCHANGED diskVars
          [] answered /\ AcceptsTransition -> ticket' = "done" /\ Finish /\ UNCHANGED refused
          [] OTHER -> Fail(FALSE) /\ UNCHANGED <<ticket, diskVars, refused>>
    /\ UNCHANGED <<hubVars, commented, operatorVars>>

\* A request does not get through, or a server refuses it.
RequestFails ==
    /\ at \in Requests
    /\ \/ NetworkFails /\ Fail(TRUE) /\ UNCHANGED refused
       \/ ServersRefuse /\ Fail(FALSE) /\ refused' = TRUE
    /\ UNCHANGED <<diskVars, hubVars, jiraVars, operatorVars>>

\* Deviation: a retry is not counted.
ClassifyFailureUncounted ==
    /\ at = "classify"
    /\ IF CanRetry(error, Passed, NoRoute, attempts + 1, retries, MaxTotalAttempts, MaxRetries)
       THEN at' = ResumeAt(delivered) /\ UNCHANGED outcome
       ELSE at' = "rest" /\ outcome' = "escalated"
    /\ UNCHANGED <<runVars, delivered, failureVars, diskVars, hubVars, jiraVars,
                   operatorVars, refused>>

ClassifyFailure ==
    /\ at = "classify"
    /\ attempts' = attempts + 1
    /\ IF CanRetry(error, Passed, NoRoute, attempts + 1, retries, MaxTotalAttempts, MaxRetries)
       THEN /\ at' = ResumeAt(delivered)
            /\ retries' = retries + 1
            /\ UNCHANGED outcome
       ELSE /\ at' = "rest" /\ outcome' = "escalated"
            /\ UNCHANGED retries
    /\ UNCHANGED <<runVars, delivered, error, diskVars, hubVars, jiraVars, operatorVars, refused>>

\* The process is killed, or git or the search fails: GitCommandError and
\* RepositoryInventoryAdapterError are no errors the nodes catch.  The
\* checkpoint keeps what the last node returned.
Die ==
    /\ at # "rest"
    /\ \/ ProcessDies
       \/ CloneRefused
       \/ at = "push" /\ ~ FastForward
       \/ at \in {"check", "push"} /\ NetworkFails
    /\ at' = "rest" /\ outcome' = "died"
    /\ UNCHANGED <<runVars, delivered, failureVars, diskVars, hubVars, jiraVars,
                   operatorVars, refused>>

-----------------------------------------------------------------------------
(* The operator and the reviewers. *)

Bootstrap ==
    /\ at = "rest" /\ command < MaxCommands
    /\ command' = command + 1
    /\ at' = "check" /\ outcome' = "running"
    /\ repo' = 1 /\ pending' = {} /\ completed' = {} /\ skipped' = {}
    /\ delivered' = 0 /\ error' = NoError /\ retries' = 0 /\ attempts' = 0
    /\ refused' = FALSE
    /\ UNCHANGED <<diskVars, hubVars, jiraVars, setup>>

\* An approval given after the run died or escalated: the lane runs again in
\* the same workspace, where it may find nothing left to change.
Reenter ==
    /\ at = "rest" /\ outcome \in {"died", "escalated"}
    /\ repo \in pending /\ pending \cup skipped = Repos \ completed
    /\ command < MaxCommands
    /\ command' = command + 1
    /\ at' = ResumeAt(delivered) /\ outcome' = "running"
    /\ dirty' \in {dirty, TRUE}
    /\ refused' = FALSE
    /\ UNCHANGED <<runVars, delivered, failureVars, clone, head, hubVars, jiraVars, setup>>

\* Somebody deletes the workspaces; the program never does.
RemoveWorkspaces ==
    /\ at = "rest" /\ outcome \in {"completed", "escalated", "died"}
    /\ clone' = [r \in Repos |-> NoClone] /\ head' = [r \in Repos |-> NoClone] /\ dirty' = FALSE
    /\ outcome' = "none"
    /\ UNCHANGED <<at, runVars, delivered, failureVars, hubVars, jiraVars, operatorVars, refused>>

\* A reviewer closes the pull request, with or without its branch.
Review ==
    \E r \in Repos :
        /\ pull[r] = "open"
        /\ pull' = [pull EXCEPT ![r] = "closed"]
        /\ \/ UNCHANGED remote
           \/ at = "rest" /\ remote' = [remote EXCEPT ![r] = NoClone]
        /\ UNCHANGED <<at, outcome, runVars, delivered, failureVars, diskVars, opened, jiraVars,
                       operatorVars, refused>>

Publication ==
    \/ Commit \/ Push \/ OpenPullRequest \/ BindExistingPullRequest
    \/ CommentOnTicket \/ ChooseTransition \/ TransitionTicket \/ RequestFails

Process == CheckTarget \/ Publication \/ ClassifyFailure \/ Die

Next == Process \/ Bootstrap \/ Reenter \/ RemoveWorkspaces \/ Review

Spec == Init /\ [][Next]_vars

\* The process runs on without waiting for the operator or the reviewers.
FairSpec == Spec /\ WF_vars(Process)

-----------------------------------------------------------------------------
(* Properties. *)

\* Rerunning a ticket, after whatever end of the earlier run, opens no second
\* pull request for a repository (check_repository_idempotency together with
\* the branch name that every run shares).
RerunOpensNoSecond == \A r \in Repos : Cardinality(opened[r]) <= 1

\* Lost answers, retries, a pull request that exists already and an issue that
\* is done already are absorbed: a GitHub or Jira step fails for good only on
\* an error of its own (the 422 recovery and _is_transition_already_applied).
OnlyRefusalsAreFinal ==
    at = "classify" /\ error.code # "delivery_branch_publication_failed" /\ ~ error.recoverable
        => refused

\* The ticket never tells of a pull request that was not opened, and a
\* repository is completed only with its pull request opened, announced and
\* the ticket in its final status.
AnnouncedIsPublished ==
    /\ \A r \in commented : opened[r] # {}
    /\ ticket = "done" => commented # {}
    /\ completed \subseteq commented
    /\ completed # {} /\ setup.doneBy # {} => ticket = "done"

\* What publish_remediation does is what RemediationGraph's atomic step
\* allows: a failure keeps what was delivered, names the first missing part,
\* and is never recoverable before the branch is out.
FailureKeepsProgress ==
    [][at # "classify" /\ at' = "classify" =>
         /\ delivered' \in delivered .. 2
         /\ error'.recoverable => delivered' > 0
         /\ error'.code = <<"delivery_branch_publication_failed", "delivery_pull_request_failed",
                            "delivery_jira_failed">>[delivered' + 1]]_vars

\* A delivery ends whatever fails and however often: the budgets end it.
RunsEnd == at # "rest" ~> at = "rest"

=============================================================================
