---------------------------- MODULE DeliverySafety ----------------------------
(* Live delivery for any number of repositories, commands and retries,      *)
(* whatever calls and answers are lost.                                     *)
EXTENDS Delivery, FiniteSetTheorems, WellFoundedInduction, TLAPS

InHand == at \notin {"rest", "check"}

\* The approval command may take the run up again.
Reenterable == outcome \in {"running", "died", "escalated"}

(***************************************************************************)
(* The repository in hand is pending, and every pending repository of a    *)
(* run that can go on has its workspace.                                   *)
(***************************************************************************)
RunInv ==
    /\ at # "rest" => outcome = "running" /\ command > 0
    /\ at = "check" => repo \in Repos
    /\ InHand => repo \in pending
    /\ Reenterable => \A r \in pending : clone[r] # NoClone

\* What is recorded is at most what the calls have reached.
ProgressInv ==
    /\ at = "check" => delivered = 0
    /\ at \in CallSteps => delivered <= Reached
    /\ at = "classify" => delivered <= 2
    /\ delivered = 3 => pending = {}

(***************************************************************************)
(* The calls after the pull request are made only with a pull request      *)
(* opened, those after the comment only with the comment on the ticket.    *)
(***************************************************************************)
CallInv ==
    /\ \A r \in Repos : pull[r] # "none" => opened[r] # {}
    /\ at \in {"existing", "comment", "choose", "transition"} \/ delivered = 2 =>
          opened[repo] # {}
    /\ at \in {"choose", "transition"} => repo \in commented /\ setup.doneBy # {}
    /\ at = "choose" => "id" \notin setup.doneBy

IInv == TypeOK /\ RunInv /\ ProgressInv /\ CallInv /\ AnnouncedIsPublished

(***************************************************************************)
(* A repository that has a pull request is found, so a pull request can    *)
(* only be opened from the clone that the run which found none has made.   *)
(***************************************************************************)
OnceInv ==
    /\ \A r \in Repos : opened[r] # {} => pull[r] # "none"
    /\ Reenterable => \A r \in pending : opened[r] \subseteq {clone[r]}
    /\ \A r \in Repos : \A c, d \in opened[r] : c = d

\* A configuration under which a done transition can be repeated.
Lenient(s) ==
    /\ s.doneBy = {"name"} => s.doneAgain
    /\ s.doneBy = {"id"} => s.doneAgain

-----------------------------------------------------------------------------
(* What the helpers of Delivery do. *)

LEMMA FirstOfIsFirst ==
    ASSUME NEW repos \in SUBSET Repos, repos # {}
    PROVE  FirstOf(repos) \in repos /\ \A other \in repos : FirstOf(repos) <= other
<1> DEFINE Less == {pair \in Nat \X Nat : pair[1] < pair[2]}
<1>1. repos \subseteq Nat
  BY DEF Repos
<1>2. IsWellFoundedOn(Less, Nat)
  BY NatLessThanWellFounded DEF OpToRel
<1>3. \E r \in repos : \A other \in repos : <<other, r>> \notin Less
  <2> HIDE DEF Less
  <2> QED
    BY <1>1, <1>2, WFMin
<1>4. \E r \in repos : \A other \in repos : r <= other
  <2>1. PICK r \in repos : \A other \in repos : <<other, r>> \notin Less
    BY <1>3
  <2>2. ASSUME NEW other \in repos PROVE r <= other
    <3>1. <<other, r>> \in Nat \X Nat /\ <<other, r>>[1] = other /\ <<other, r>>[2] = r
      BY <1>1
    <3>2. ~ (other < r)
      BY <2>1, <3>1
    <3> QED
      BY <1>1, <3>2
  <2> QED
    BY <2>2
<1> QED
  BY <1>4 DEF FirstOf

LEMMA ReachedBounds ==
    /\ Reached \in 0 .. 2
    /\ at \in {"comment", "choose", "transition"} => Reached = 2
    /\ at \in {"pull_request", "existing"} => Reached = 1
    /\ at \in {"commit", "push"} => Reached = 0
BY DEF Reached

\* Where a run resumes, no more is recorded than that call has reached.
LEMMA ResumeIsBehind ==
    ASSUME delivered \in 0 .. 2
    PROVE  /\ ResumeAt(delivered) \in {"commit", "pull_request", "comment"}
           /\ ResumeAt(delivered) = "commit" => delivered = 0
           /\ ResumeAt(delivered) = "pull_request" => delivered = 1
           /\ ResumeAt(delivered) = "comment" => delivered = 2
BY DEF ResumeAt

LEMMA FailRecords ==
    ASSUME NEW recoverable \in BOOLEAN, Fail(recoverable)
    PROVE  /\ at' = "classify" /\ delivered' = Reached
           /\ error' \in WorkflowErrors /\ error'.recoverable = recoverable
           /\ error'.code = <<"delivery_branch_publication_failed", "delivery_pull_request_failed",
                              "delivery_jira_failed">>[Reached + 1]
           /\ UNCHANGED <<outcome, repo, pending, completed, skipped, retries, attempts>>
<1>1. PICK code \in DeliveryCodes :
        /\ error' = [code |-> code, recoverable |-> recoverable]
        /\ code = <<"delivery_branch_publication_failed", "delivery_pull_request_failed",
                    "delivery_jira_failed">>[Reached + 1]
  <2>1. CASE Reached = 0
    BY <2>1 DEF Fail, DeliveryCodes
  <2>2. CASE Reached = 1
    BY <2>2 DEF Fail, DeliveryCodes
  <2>3. CASE Reached = 2
    BY <2>3 DEF Fail, DeliveryCodes
  <2> QED
    BY <2>1, <2>2, <2>3, ReachedBounds
<1>2. code \in ErrorCodes
  BY DEF ErrorCodes
<1>3. error' \in WorkflowErrors /\ error'.recoverable = recoverable /\ error'.code = code
  BY <1>1, <1>2 DEF WorkflowErrors
<1> QED
  BY <1>1, <1>3 DEF Fail, runVars

LEMMA LostAnswerFails ==
    ASSUME LoseAnswer
    PROVE  \E recoverable \in BOOLEAN :
              Fail(recoverable) /\ refused' = (refused \/ ~ recoverable)
BY DeliveryAssumption DEF LoseAnswer, DeliveryAssumption

LEMMA FinishTakesNext ==
    ASSUME pending \subseteq Repos, Finish
    PROVE  /\ completed' = completed \cup {repo} /\ pending' = pending \ {repo}
           /\ error' = NoError
           /\ UNCHANGED <<skipped, clone, head>>
           /\ \/ /\ at' = "rest" /\ outcome' = "completed" /\ delivered' = 3 /\ pending' = {}
                 /\ UNCHANGED <<repo, dirty, retries, attempts>>
              \/ /\ at' = "commit" /\ delivered' = 0 /\ repo' \in pending'
                 /\ dirty' = TRUE /\ retries' = 0 /\ attempts' = 0 /\ UNCHANGED outcome
<1>1. pending' \subseteq Repos
  BY DEF Finish
<1>2. pending' # {} => FirstOf(pending') \in pending'
  BY <1>1, FirstOfIsFirst
<1> QED
  BY <1>2 DEF Finish

-----------------------------------------------------------------------------
(* Every call fails, goes on to the next call, or ends the repository. *)

CallOrder ==
    {<<"commit", "push">>, <<"push", "pull_request">>, <<"pull_request", "existing">>,
     <<"pull_request", "comment">>, <<"existing", "comment">>, <<"comment", "choose">>,
     <<"comment", "transition">>, <<"choose", "transition">>}

Fails == \E recoverable \in BOOLEAN : Fail(recoverable)
GoesOn == \E call \in CallSteps : <<at, call>> \in CallOrder /\ Continue(call)
Ends == at \in {"comment", "transition"} /\ Finish

LEMMA CallEnds ==
    ASSUME Publication
    PROVE  /\ at \in CallSteps
           /\ Fails \/ GoesOn \/ Ends
           /\ UNCHANGED <<clone, command, setup>>
<1>1. CASE Commit
  <2>1. Fail(FALSE) \/ Continue("push")
    BY <1>1 DEF Commit
  <2> QED
    BY <1>1, <2>1 DEF Commit, operatorVars, CallSteps, Fails, GoesOn, CallOrder
<1>2. CASE Push
  BY <1>2 DEF Push, operatorVars, diskVars, CallSteps, GoesOn, CallOrder
<1>3. CASE OpenPullRequest
  <2>1. LoseAnswer \/ Continue("comment") \/ Continue("existing")
    BY <1>3 DEF OpenPullRequest
  <2> QED
    BY <1>3, <2>1, LostAnswerFails DEF OpenPullRequest, operatorVars, diskVars, CallSteps, Fails,
       GoesOn, CallOrder
<1>4. CASE BindExistingPullRequest
  <2>1. Fail(FALSE) \/ Continue("comment")
    BY <1>4 DEF BindExistingPullRequest
  <2> QED
    BY <1>4, <2>1 DEF BindExistingPullRequest, operatorVars, diskVars, CallSteps, Fails, GoesOn,
       CallOrder
<1>5. CASE CommentOnTicket
  <2>1. PICK answered \in {TRUE, ~ NetworkFails} :
          CASE answered /\ setup.doneBy = {} -> Finish /\ UNCHANGED refused
            [] answered /\ setup.doneBy # {} ->
                  /\ Continue(IF "id" \in setup.doneBy THEN "transition" ELSE "choose")
                  /\ UNCHANGED <<diskVars, refused>>
            [] OTHER -> LoseAnswer /\ UNCHANGED diskVars
    BY <1>5 DEF CommentOnTicket
  <2>2. \/ Finish
        \/ (Continue("transition") \/ Continue("choose") \/ LoseAnswer) /\ UNCHANGED diskVars
    BY <2>1
  <2> QED
    BY <1>5, <2>2, LostAnswerFails DEF CommentOnTicket, Finish, operatorVars, diskVars, CallSteps,
       Fails, GoesOn, Ends, CallOrder
<1>6. CASE ChooseTransition
  <2>1. Fail(FALSE) \/ Continue("transition")
    BY <1>6 DEF ChooseTransition
  <2> QED
    BY <1>6, <2>1 DEF ChooseTransition, operatorVars, diskVars, CallSteps, Fails, GoesOn, CallOrder
<1>7. CASE TransitionTicket
  <2>1. PICK answered \in {TRUE, ~ NetworkFails} :
          CASE ~ answered -> ticket' = "done" /\ LoseAnswer /\ UNCHANGED diskVars
            [] answered /\ AcceptsTransition -> ticket' = "done" /\ Finish /\ UNCHANGED refused
            [] OTHER -> Fail(FALSE) /\ UNCHANGED <<ticket, diskVars, refused>>
    BY <1>7 DEF TransitionTicket
  <2>2. \/ Finish
        \/ (Fail(FALSE) \/ LoseAnswer) /\ UNCHANGED diskVars
    BY <2>1
  <2> QED
    BY <1>7, <2>2, LostAnswerFails DEF TransitionTicket, Finish, operatorVars, diskVars, CallSteps,
       Fails, Ends
<1>8. CASE RequestFails
  BY <1>8 DEF RequestFails, operatorVars, diskVars, CallSteps, Requests, Fails
<1> QED
  BY <1>1, <1>2, <1>3, <1>4, <1>5, <1>6, <1>7, <1>8 DEF Publication

\* What the calls change at the other parties, and what they have seen there.
LEMMA HubEffects ==
    ASSUME Publication
    PROVE  /\ \/ UNCHANGED hubVars
              \/ /\ at = "push" /\ FastForward
                 /\ remote' = [remote EXCEPT ![repo] = head[repo]]
                 /\ UNCHANGED <<pull, opened>>
              \/ /\ at = "pull_request"
                 /\ pull' = [pull EXCEPT ![repo] = "open"]
                 /\ opened' = [opened EXCEPT ![repo] =
                                  IF pull[repo] = "open" THEN @ ELSE @ \cup {clone[repo]}]
                 /\ UNCHANGED remote
           /\ at' = "existing" => pull[repo] = "open"
           /\ at = "existing" /\ at' = "comment" => pull[repo] = "open"
           /\ at = "pull_request" /\ at' = "comment" => pull' = [pull EXCEPT ![repo] = "open"]
<1>1. ASSUME Commit \/ CommentOnTicket \/ ChooseTransition \/ TransitionTicket
      PROVE  UNCHANGED hubVars /\ at \in {"commit", "comment", "choose", "transition"}
  BY <1>1 DEF Commit, CommentOnTicket, ChooseTransition, TransitionTicket
<1>2. CASE RequestFails
  BY <1>2, FailRecords DEF RequestFails, Requests
<1>3. CASE Push
  BY <1>3 DEF Push, Continue
<1>4. CASE OpenPullRequest
  <2>1. CASE pull[repo] = "open" /\ Continue("existing") /\ UNCHANGED <<pull, opened>>
    BY <1>4, <2>1 DEF OpenPullRequest, hubVars, Continue
  <2>2. CASE /\ pull' = [pull EXCEPT ![repo] = "open"]
             /\ opened' = [opened EXCEPT ![repo] =
                              IF pull[repo] = "open" THEN @ ELSE @ \cup {clone[repo]}]
             /\ Continue("comment") \/ LoseAnswer
    BY <1>4, <2>2, LostAnswerFails, FailRecords DEF OpenPullRequest, Continue
  <2> QED
    BY <1>4, <2>1, <2>2 DEF OpenPullRequest
<1>5. CASE BindExistingPullRequest
  BY <1>5, FailRecords DEF BindExistingPullRequest, Continue
<1>6. at' = "existing" => ~ (Commit \/ CommentOnTicket \/ ChooseTransition \/ TransitionTicket)
  <2>1. ASSUME at' = "existing", Commit \/ CommentOnTicket \/ ChooseTransition \/ TransitionTicket
        PROVE  FALSE
    <3>1. Fails \/ GoesOn \/ Ends
      BY CallEnds
    <3>2. at # "pull_request"
      BY <1>1, <2>1
    <3>3. CASE Fails
      BY <2>1, <3>3, FailRecords DEF Fails
    <3>4. CASE GoesOn
      BY <2>1, <3>2, <3>4 DEF GoesOn, CallOrder, Continue
    <3>5. CASE Ends
      BY <2>1, <3>5 DEF Ends, Finish
    <3> QED
      BY <3>1, <3>3, <3>4, <3>5
  <2> QED
    BY <2>1
<1> QED
  BY <1>1, <1>2, <1>3, <1>4, <1>5, <1>6 DEF Publication

LEMMA JiraEffects ==
    ASSUME Publication
    PROVE  /\ \/ UNCHANGED jiraVars
              \/ at = "comment" /\ commented' = commented \cup {repo} /\ UNCHANGED ticket
              \/ at = "transition" /\ ticket' = "done" /\ UNCHANGED commented
           /\ at = "comment" /\ ~ Fails => commented' = commented \cup {repo}
           /\ at = "comment" /\ at' \in {"rest", "commit"} => setup.doneBy = {}
           /\ at = "transition" /\ at' \in {"rest", "commit"} => ticket' = "done"
           /\ at = "comment" /\ at' \in {"choose", "transition"} => setup.doneBy # {}
           /\ at = "comment" /\ at' = "choose" => "id" \notin setup.doneBy
<1>1. CASE Commit \/ Push \/ OpenPullRequest \/ BindExistingPullRequest \/ ChooseTransition
  BY <1>1 DEF Commit, Push, OpenPullRequest, BindExistingPullRequest, ChooseTransition
<1>2. CASE RequestFails
  <2>1. Fails /\ UNCHANGED jiraVars
    BY <1>2 DEF RequestFails, Fails
  <2> QED
    BY <2>1, FailRecords DEF Fails
<1>3. CASE CommentOnTicket
  <2>1. at = "comment" /\ commented' = commented \cup {repo} /\ UNCHANGED ticket
    BY <1>3 DEF CommentOnTicket
  <2>2. PICK answered \in {TRUE, ~ NetworkFails} :
          CASE answered /\ setup.doneBy = {} -> Finish /\ UNCHANGED refused
            [] answered /\ setup.doneBy # {} ->
                  /\ Continue(IF "id" \in setup.doneBy THEN "transition" ELSE "choose")
                  /\ UNCHANGED <<diskVars, refused>>
            [] OTHER -> LoseAnswer /\ UNCHANGED diskVars
    BY <1>3 DEF CommentOnTicket
  <2>3. \/ setup.doneBy = {}
        \/ setup.doneBy # {} /\ Continue(IF "id" \in setup.doneBy THEN "transition" ELSE "choose")
        \/ LoseAnswer
    BY <2>2
  <2>4. LoseAnswer => at' = "classify"
    BY LostAnswerFails, FailRecords
  <2>5. setup.doneBy = {} => at' \notin {"choose", "transition"}
    <3>1. setup.doneBy = {} => Finish \/ LoseAnswer
      BY <2>2
    <3> QED
      BY <2>4, <3>1 DEF Finish
  <2> QED
    BY <2>1, <2>3, <2>4, <2>5 DEF Continue
<1>4. CASE TransitionTicket
  <2>1. at = "transition" /\ UNCHANGED commented
    BY <1>4 DEF TransitionTicket
  <2>2. PICK answered \in {TRUE, ~ NetworkFails} :
          CASE ~ answered -> ticket' = "done" /\ LoseAnswer /\ UNCHANGED diskVars
            [] answered /\ AcceptsTransition -> ticket' = "done" /\ Finish /\ UNCHANGED refused
            [] OTHER -> Fail(FALSE) /\ UNCHANGED <<ticket, diskVars, refused>>
    BY <1>4 DEF TransitionTicket
  <2>3. \/ ticket' = "done"
        \/ Fail(FALSE) /\ UNCHANGED ticket
    BY <2>2
  <2> QED
    BY <2>1, <2>3, FailRecords DEF jiraVars
<1> QED
  BY <1>1, <1>2, <1>3, <1>4 DEF Publication, jiraVars

LEMMA DiskEffects ==
    ASSUME Publication
    PROVE  /\ head' \in {head, [head EXCEPT ![repo] = clone[repo]]}
           /\ dirty' \in {dirty, TRUE, FALSE}
<1>1. CASE Commit
  BY <1>1 DEF Commit
<1>2. CASE Push \/ OpenPullRequest \/ BindExistingPullRequest \/ ChooseTransition \/ RequestFails
  BY <1>2 DEF Push, OpenPullRequest, BindExistingPullRequest, ChooseTransition, RequestFails,
              diskVars
<1>3. ASSUME Finish \/ UNCHANGED diskVars
      PROVE  head' = head /\ dirty' \in {dirty, TRUE}
  BY <1>3 DEF Finish, diskVars
<1>4. CASE CommentOnTicket
  <2>1. PICK answered \in {TRUE, ~ NetworkFails} :
          CASE answered /\ setup.doneBy = {} -> Finish /\ UNCHANGED refused
            [] answered /\ setup.doneBy # {} ->
                  /\ Continue(IF "id" \in setup.doneBy THEN "transition" ELSE "choose")
                  /\ UNCHANGED <<diskVars, refused>>
            [] OTHER -> LoseAnswer /\ UNCHANGED diskVars
    BY <1>4 DEF CommentOnTicket
  <2>2. Finish \/ UNCHANGED diskVars
    BY <2>1
  <2> QED
    BY <1>3, <2>2
<1>5. CASE TransitionTicket
  <2>1. PICK answered \in {TRUE, ~ NetworkFails} :
          CASE ~ answered -> ticket' = "done" /\ LoseAnswer /\ UNCHANGED diskVars
            [] answered /\ AcceptsTransition -> ticket' = "done" /\ Finish /\ UNCHANGED refused
            [] OTHER -> Fail(FALSE) /\ UNCHANGED <<ticket, diskVars, refused>>
    BY <1>5 DEF TransitionTicket
  <2>2. Finish \/ UNCHANGED diskVars
    BY <2>1
  <2> QED
    BY <1>3, <2>2
<1> QED
  BY <1>1, <1>2, <1>4, <1>5 DEF Publication

\* A call that fails for good was refused, or the transition is not to be had.
LEMMA RefusalsAreRecorded ==
    ASSUME Publication, refused \in BOOLEAN
    PROVE  /\ refused' \in BOOLEAN
           /\ at' = "classify" => \/ error'.recoverable \/ refused'
                                  \/ at \in {"commit", "push"}
                                  \/ at = "choose" /\ ~ setup.doneAgain
                                  \/ at = "transition" /\ ~ AcceptsTransition
<1>1. CASE Commit \/ Push
  BY <1>1 DEF Commit, Push
<1>2. ASSUME LoseAnswer
      PROVE  refused' \in BOOLEAN /\ (error'.recoverable \/ refused')
  BY <1>2, LostAnswerFails, FailRecords
<1>3. CASE OpenPullRequest
  <2>1. (at' # "classify" /\ refused' = refused) \/ LoseAnswer
    BY <1>3 DEF OpenPullRequest, Continue
  <2> QED
    BY <1>2, <2>1
<1>4. CASE BindExistingPullRequest
  BY <1>4 DEF BindExistingPullRequest, Continue
<1>5. CASE CommentOnTicket
  <2>1. PICK answered \in {TRUE, ~ NetworkFails} :
          CASE answered /\ setup.doneBy = {} -> Finish /\ UNCHANGED refused
            [] answered /\ setup.doneBy # {} ->
                  /\ Continue(IF "id" \in setup.doneBy THEN "transition" ELSE "choose")
                  /\ UNCHANGED <<diskVars, refused>>
            [] OTHER -> LoseAnswer /\ UNCHANGED diskVars
    BY <1>5 DEF CommentOnTicket
  <2>2. \/ Finish /\ UNCHANGED refused
        \/ (Continue("transition") \/ Continue("choose")) /\ UNCHANGED refused
        \/ LoseAnswer
    BY <2>1
  <2>3. (at' # "classify" /\ refused' = refused) \/ LoseAnswer
    BY <2>2 DEF Finish, Continue
  <2> QED
    BY <1>2, <2>3
<1>6. CASE ChooseTransition
  <2>1. refused' = refused /\ at = "choose"
    BY <1>6 DEF ChooseTransition
  <2>2. at' = "classify" => ~ setup.doneAgain
    BY <1>6 DEF ChooseTransition, Continue
  <2> QED
    BY <2>1, <2>2
<1>7. CASE TransitionTicket
  <2>1. PICK answered \in {TRUE, ~ NetworkFails} :
          CASE ~ answered -> ticket' = "done" /\ LoseAnswer /\ UNCHANGED diskVars
            [] answered /\ AcceptsTransition -> ticket' = "done" /\ Finish /\ UNCHANGED refused
            [] OTHER -> Fail(FALSE) /\ UNCHANGED <<ticket, diskVars, refused>>
    BY <1>7 DEF TransitionTicket
  <2>2. \/ LoseAnswer
        \/ Finish /\ UNCHANGED refused
        \/ ~ AcceptsTransition /\ UNCHANGED refused
    <3>1. CASE ~ answered
      BY <2>1, <3>1
    <3>2. CASE answered /\ AcceptsTransition
      BY <2>1, <3>2
    <3>3. CASE answered /\ ~ AcceptsTransition
      BY <2>1, <3>3
    <3> QED
      BY <3>1, <3>2, <3>3
  <2>3. Finish => at' # "classify"
    BY DEF Finish
  <2>4. at = "transition"
    BY <1>7 DEF TransitionTicket
  <2> QED
    BY <1>2, <2>2, <2>3, <2>4
<1>8. CASE RequestFails
  BY <1>8, FailRecords DEF RequestFails
<1> QED
  BY <1>1, <1>3, <1>4, <1>5, <1>6, <1>7, <1>8 DEF Publication

-----------------------------------------------------------------------------
(* The inductive invariant, step by step. *)

LEMMA CheckTargetSteps ==
    ASSUME TypeOK, RunInv, CheckTarget
    PROVE  /\ at = "check" /\ repo \in Repos
           /\ pending \subseteq pending' /\ pending' \subseteq pending \cup {repo}
           /\ \/ at' = "check" /\ repo' = repo + 1 /\ repo' \in Repos /\ UNCHANGED <<outcome, dirty>>
              \/ /\ at' = "rest" /\ repo' = NoRepo /\ outcome' = "completed" /\ pending' = {}
                 /\ UNCHANGED dirty
              \/ at' = "commit" /\ repo' \in pending' /\ dirty' = TRUE /\ UNCHANGED outcome
<1>1. at = "check" /\ repo \in Repos
  BY DEF CheckTarget, RunInv
<1>2. pending' \in {pending, pending \cup {repo}}
  BY DEF CheckTarget
<1>3. pending' # {} => FirstOf(pending') \in pending'
  BY <1>1, <1>2, FirstOfIsFirst DEF TypeOK
<1>4. CASE repo < NumRepos
  <2>1. repo # NumRepos
    BY <1>1, <1>4, DeliveryAssumption DEF Repos, DeliveryAssumption
  <2>2. at' = "check" /\ repo' = repo + 1 /\ UNCHANGED <<outcome, dirty>>
    BY <1>4, <2>1 DEF CheckTarget
  <2>3. repo + 1 \in Repos
    BY <1>1, <1>4, DeliveryAssumption DEF Repos, DeliveryAssumption
  <2> QED
    BY <1>1, <1>2, <2>2, <2>3
<1>5. CASE ~ (repo < NumRepos)
  <2>1. repo = NumRepos
    BY <1>1, <1>5, DeliveryAssumption DEF Repos, DeliveryAssumption
  <2>2. CASE pending' = {}
    <3>1. at' = "rest" /\ repo' = NoRepo /\ outcome' = "completed" /\ UNCHANGED dirty
      BY <1>5, <2>1, <2>2 DEF CheckTarget
    <3> QED
      BY <1>1, <1>2, <2>2, <3>1
  <2>3. CASE pending' # {}
    <3>1. at' = "commit" /\ repo' = FirstOf(pending') /\ dirty' = TRUE /\ UNCHANGED outcome
      BY <1>5, <2>3 DEF CheckTarget
    <3> QED
      BY <1>1, <1>2, <1>3, <2>3, <3>1
  <2> QED
    BY <2>2, <2>3
<1> QED
  BY <1>4, <1>5

LEMMA CallsKeepTypes == IInv /\ Publication => TypeOK'
<1> SUFFICES ASSUME IInv, Publication PROVE TypeOK'
  OBVIOUS
<1> USE DEF TypeOK
<1>1. at \in CallSteps /\ UNCHANGED <<clone, command, setup>>
  BY CallEnds
<1>2. repo \in Repos /\ clone[repo] \in Commands
  BY <1>1 DEF IInv, RunInv, InHand, CallSteps, Reenterable, NoClone
<1>3. /\ at' \in CallSteps \cup {"rest", "classify"}
      /\ outcome' \in {outcome, "completed"} /\ repo' \in Repos \cup {NoRepo}
      /\ pending' \subseteq Repos /\ completed' \subseteq Repos /\ skipped' \subseteq Repos
      /\ delivered' \in 0 .. 3 /\ error' \in WorkflowErrors
      /\ retries' \in 0 .. MaxRetries /\ attempts' \in Nat
  <2>1. CASE Fails
    BY <2>1, FailRecords, ReachedBounds DEF IInv, Fails
  <2>2. CASE GoesOn
    BY <2>2 DEF IInv, GoesOn, Continue, runVars, failureVars
  <2>3. CASE Ends
    <3>1. NoError \in WorkflowErrors
      BY DEF NoError, WorkflowErrors, ErrorCodes
    <3>2. 0 \in 0 .. MaxRetries
      BY DeliveryAssumption DEF DeliveryAssumption
    <3>3. completed' = completed \cup {repo} /\ pending' = pending \ {repo} /\ error' = NoError
          /\ skipped' = skipped
      BY <2>3, FinishTakesNext DEF IInv, Ends
    <3>4. \/ at' = "rest" /\ outcome' = "completed" /\ delivered' = 3
             /\ UNCHANGED <<repo, retries, attempts>>
          \/ at' = "commit" /\ delivered' = 0 /\ repo' \in pending' /\ retries' = 0 /\ attempts' = 0
             /\ UNCHANGED outcome
      BY <2>3, FinishTakesNext DEF IInv, Ends
    <3>5. pending' \subseteq Repos /\ completed' \subseteq Repos
      BY <1>2, <3>3 DEF IInv
    <3> QED
      BY <1>2, <3>1, <3>2, <3>3, <3>4, <3>5 DEF IInv, CallSteps
  <2> QED
    BY <2>1, <2>2, <2>3, CallEnds
<1>4. head' \in [Repos -> Commands \cup {NoClone}] /\ dirty' \in BOOLEAN
  BY <1>2, DiskEffects DEF IInv
<1>5. remote' \in [Repos -> Commands \cup {NoClone}] /\ pull' \in [Repos -> {"none", "open", "closed"}]
      /\ opened' \in [Repos -> SUBSET Commands]
  <2>1. CASE UNCHANGED hubVars
    BY <2>1 DEF IInv, hubVars
  <2>2. CASE remote' = [remote EXCEPT ![repo] = head[repo]] /\ UNCHANGED <<pull, opened>>
    BY <1>2, <2>2 DEF IInv
  <2>3. CASE /\ pull' = [pull EXCEPT ![repo] = "open"]
             /\ opened' = [opened EXCEPT ![repo] =
                              IF pull[repo] = "open" THEN @ ELSE @ \cup {clone[repo]}]
             /\ UNCHANGED remote
    BY <1>2, <2>3 DEF IInv
  <2> QED
    BY <2>1, <2>2, <2>3, HubEffects
<1>6. commented' \subseteq Repos /\ ticket' \in {"open", "done"}
  BY <1>2, JiraEffects DEF IInv, jiraVars
<1>7. refused' \in BOOLEAN
  BY RefusalsAreRecorded DEF IInv
<1> QED
  BY <1>1, <1>3, <1>4, <1>5, <1>6, <1>7 DEF IInv

LEMMA TypesKept == IInv /\ [Next]_vars => TypeOK'
<1> SUFFICES ASSUME IInv, [Next]_vars PROVE TypeOK'
  OBVIOUS
<1> USE DEF TypeOK
<1>1. CASE CheckTarget
  <2>1. command \in Commands
    BY <1>1 DEF IInv, RunInv, CheckTarget, Commands
  <2>2. at' \in {"check", "rest", "commit"} /\ repo' \in Repos \cup {NoRepo} /\ pending' \subseteq Repos
        /\ outcome' \in {outcome, "completed"} /\ dirty' \in BOOLEAN
    BY <1>1, CheckTargetSteps DEF IInv
  <2>3. skipped' \subseteq Repos /\ clone' \in [Repos -> Commands \cup {NoClone}]
        /\ head' \in [Repos -> Commands \cup {NoClone}]
    BY <1>1, <2>1, CheckTargetSteps DEF IInv, CheckTarget
  <2> QED
    BY <1>1, <2>2, <2>3 DEF IInv, CheckTarget, CallSteps, failureVars, hubVars, jiraVars, operatorVars
<1>2. CASE Publication
  BY <1>2, CallsKeepTypes
<1>3. CASE ClassifyFailure
  <2>1. delivered \in 0 .. 2
    BY <1>3 DEF IInv, ProgressInv, ClassifyFailure
  <2>2. retries' \in 0 .. MaxRetries
    BY <1>3, DeliveryAssumption DEF IInv, ClassifyFailure, CanRetry, DeliveryAssumption
  <2>3. at' \in CallSteps \cup {"rest"}
    BY <1>3, <2>1, ResumeIsBehind DEF ClassifyFailure, CallSteps
  <2> QED
    BY <1>3, <2>2, <2>3 DEF IInv, ClassifyFailure, runVars, diskVars, hubVars, jiraVars, operatorVars
<1>4. CASE Die
  BY <1>4 DEF IInv, Die, runVars, failureVars, diskVars, hubVars, jiraVars, operatorVars
<1>5. CASE Bootstrap
  <2>1. 1 \in Repos /\ 0 \in 0 .. MaxRetries
    BY DeliveryAssumption DEF Repos, DeliveryAssumption
  <2>2. NoError \in WorkflowErrors
    BY DEF NoError, WorkflowErrors, ErrorCodes
  <2>3. command' \in 0 .. MaxCommands
    BY <1>5, DeliveryAssumption DEF IInv, Bootstrap, DeliveryAssumption
  <2>4. /\ at' = "check" /\ outcome' = "running" /\ repo' = 1 /\ refused' = FALSE
        /\ pending' = {} /\ completed' = {} /\ skipped' = {}
        /\ delivered' = 0 /\ error' = NoError /\ retries' = 0 /\ attempts' = 0
        /\ UNCHANGED <<diskVars, hubVars, jiraVars, setup>>
    BY <1>5 DEF Bootstrap
  <2>5. UNCHANGED <<clone, head, dirty, remote, pull, opened, commented, ticket, setup>>
    BY <2>4 DEF diskVars, hubVars, jiraVars
  <2>6. delivered' \in 0 .. 3 /\ error' \in WorkflowErrors /\ retries' \in 0 .. MaxRetries
        /\ attempts' \in Nat /\ repo' \in Repos
    BY <2>1, <2>2, <2>4
  <2>7. pending' \subseteq Repos /\ completed' \subseteq Repos /\ skipped' \subseteq Repos
    BY <2>4
  <2>8. /\ at' \in CallSteps \cup {"rest", "check", "classify"} /\ refused' \in BOOLEAN
        /\ outcome' \in {"none", "running", "completed", "escalated", "died"}
    BY <2>4
  <2> QED
    BY <2>3, <2>5, <2>6, <2>7, <2>8 DEF IInv
<1>6. CASE Reenter
  <2>1. delivered \in 0 .. 2
    BY <1>6 DEF IInv, ProgressInv, Reenter
  <2>2. command' \in 0 .. MaxCommands
    BY <1>6, DeliveryAssumption DEF IInv, Reenter, DeliveryAssumption
  <2>3. at' \in CallSteps
    BY <1>6, <2>1, ResumeIsBehind DEF Reenter, CallSteps
  <2> QED
    BY <1>6, <2>2, <2>3 DEF IInv, Reenter, runVars, failureVars, hubVars, jiraVars
<1>7. CASE RemoveWorkspaces
  BY <1>7 DEF IInv, RemoveWorkspaces, runVars, failureVars, hubVars, jiraVars, operatorVars
<1>8. CASE Review
  <2>1. PICK r \in Repos : pull' = [pull EXCEPT ![r] = "closed"]
                           /\ remote' \in {remote, [remote EXCEPT ![r] = NoClone]}
    BY <1>8 DEF Review
  <2> QED
    BY <1>8, <2>1 DEF IInv, Review, runVars, failureVars, diskVars, jiraVars, operatorVars
<1>9. CASE UNCHANGED vars
  BY <1>9 DEF IInv, vars, runVars, failureVars, diskVars, hubVars, jiraVars, operatorVars
<1> QED
  BY <1>1, <1>2, <1>3, <1>4, <1>5, <1>6, <1>7, <1>8, <1>9 DEF Next, Process

LEMMA CallsKeepRunAndProgress ==
    IInv /\ Publication => RunInv' /\ ProgressInv'
<1> SUFFICES ASSUME IInv, Publication PROVE RunInv' /\ ProgressInv'
  OBVIOUS
<1>1. at \in CallSteps /\ UNCHANGED <<clone, command, setup>> /\ repo \in pending
      /\ outcome = "running" /\ command > 0
  BY CallEnds DEF IInv, RunInv, InHand, CallSteps
<1>2. CASE Fails
  <2>1. at' = "classify" /\ delivered' \in 0 .. 2 /\ UNCHANGED <<outcome, repo, pending>>
    BY <1>2, FailRecords, ReachedBounds DEF Fails
  <2> QED
    BY <1>1, <2>1 DEF IInv, RunInv, ProgressInv, InHand, Reenterable, CallSteps
<1>3. CASE GoesOn
  <2>1. PICK call \in CallSteps : <<at, call>> \in CallOrder /\ Continue(call)
    BY <1>3 DEF GoesOn
  <2>2. at' = call /\ UNCHANGED <<outcome, repo, pending, delivered>>
    BY <2>1 DEF Continue, runVars
  <2>3. delivered <= Reached'
    BY <1>1, <2>1, <2>2, ReachedBounds DEF IInv, ProgressInv, TypeOK, CallOrder, Reached
  <2> QED
    BY <1>1, <2>2, <2>3 DEF IInv, RunInv, ProgressInv, InHand, Reenterable, CallSteps
<1>4. CASE Ends
  <2>1. pending' = pending \ {repo}
        /\ \/ at' = "rest" /\ outcome' = "completed" /\ delivered' = 3 /\ pending' = {}
           \/ at' = "commit" /\ delivered' = 0 /\ repo' \in pending' /\ UNCHANGED outcome
    BY <1>4, FinishTakesNext DEF IInv, TypeOK, Ends
  <2> QED
    BY <1>1, <2>1 DEF IInv, RunInv, ProgressInv, InHand, Reenterable, CallSteps, Reached
<1> QED
  BY <1>2, <1>3, <1>4, CallEnds

LEMMA RunAndProgressKept == IInv /\ [Next]_vars => RunInv' /\ ProgressInv'
<1> SUFFICES ASSUME IInv, [Next]_vars PROVE RunInv' /\ ProgressInv'
  OBVIOUS
<1>1. CASE CheckTarget
  <2>1. clone' = clone \/ clone' = [clone EXCEPT ![repo] = command]
    BY <1>1 DEF CheckTarget
  <2>2. pending' # pending => clone' = [clone EXCEPT ![repo] = command]
    BY <1>1 DEF CheckTarget
  <2>3. command > 0 /\ command' = command /\ command # NoClone /\ delivered = 0 /\ delivered' = 0
    BY <1>1 DEF IInv, TypeOK, RunInv, ProgressInv, CheckTarget, operatorVars, NoClone
  <2>4. outcome = "running"
    BY <1>1 DEF IInv, RunInv, CheckTarget
  <2>5. \A r \in pending' : clone'[r] # NoClone
    BY <1>1, <2>1, <2>2, <2>3, <2>4, CheckTargetSteps DEF IInv, TypeOK, RunInv, Reenterable
  <2>6. \/ at' = "check" /\ repo' \in Repos /\ UNCHANGED outcome
        \/ at' = "rest" /\ pending' = {}
        \/ at' = "commit" /\ repo' \in pending' /\ UNCHANGED outcome
    BY <1>1, CheckTargetSteps DEF IInv
  <2> QED
    BY <2>3, <2>4, <2>5, <2>6 DEF RunInv, ProgressInv, InHand, CallSteps, Reached
<1>2. CASE Publication
  BY <1>2, CallsKeepRunAndProgress
<1>3. CASE ClassifyFailure
  <2>1. delivered \in 0 .. 2 /\ repo \in pending
    BY <1>3 DEF IInv, TypeOK, RunInv, ProgressInv, InHand, ClassifyFailure
  <2>2. CASE at' = "rest"
    BY <1>3, <2>1, <2>2
       DEF IInv, RunInv, ProgressInv, InHand, Reenterable, CallSteps, ClassifyFailure, runVars,
           diskVars, operatorVars
  <2>3. CASE at' = ResumeAt(delivered) /\ UNCHANGED outcome
    <3>1. at' \in CallSteps /\ delivered <= Reached'
      BY <2>1, <2>3, ResumeIsBehind DEF Reached, CallSteps
    <3> QED
      BY <1>3, <2>1, <2>3, <3>1
         DEF IInv, RunInv, ProgressInv, InHand, Reenterable, CallSteps, ClassifyFailure, runVars,
             diskVars, operatorVars
  <2> QED
    BY <1>3, <2>2, <2>3 DEF ClassifyFailure
<1>4. CASE Die
  BY <1>4 DEF IInv, RunInv, ProgressInv, InHand, Reenterable, CallSteps, Die, runVars, diskVars,
              operatorVars
<1>5. CASE Bootstrap
  <2>1. 1 \in Repos
    BY DeliveryAssumption DEF Repos, DeliveryAssumption
  <2>2. command + 1 > 0
    BY DEF IInv, TypeOK
  <2> QED
    BY <1>5, <2>1, <2>2 DEF RunInv, ProgressInv, InHand, CallSteps, Bootstrap
<1>6. CASE Reenter
  <2>1. delivered \in 0 .. 2 /\ repo \in pending /\ command + 1 > 0
    BY <1>6 DEF IInv, TypeOK, ProgressInv, Reenter
  <2>2. at' \in CallSteps /\ delivered <= Reached'
    BY <1>6, <2>1, ResumeIsBehind DEF Reached, CallSteps, Reenter
  <2> QED
    BY <1>6, <2>1, <2>2 DEF IInv, RunInv, ProgressInv, InHand, Reenterable, CallSteps, Reenter, runVars
<1>7. CASE RemoveWorkspaces
  BY <1>7 DEF IInv, RunInv, ProgressInv, InHand, Reenterable, CallSteps, RemoveWorkspaces, runVars
<1>8. CASE Review
  BY <1>8 DEF IInv, RunInv, ProgressInv, InHand, Reenterable, Reached, Review, runVars, diskVars,
              operatorVars
<1>9. CASE UNCHANGED vars
  BY <1>9 DEF IInv, RunInv, ProgressInv, InHand, Reenterable, Reached, vars, runVars, diskVars,
              operatorVars
<1> QED
  BY <1>1, <1>2, <1>3, <1>4, <1>5, <1>6, <1>7, <1>8, <1>9 DEF Next, Process

LEMMA CallsKeepCallInv == IInv /\ Publication => CallInv' /\ AnnouncedIsPublished'
<1> SUFFICES ASSUME IInv, Publication PROVE CallInv' /\ AnnouncedIsPublished'
  OBVIOUS
<1>1. at \in CallSteps /\ repo \in pending /\ repo \in Repos /\ setup' = setup
  BY CallEnds DEF IInv, TypeOK, RunInv, InHand, CallSteps
<1>2. \A r \in Repos : opened[r] # {} => opened'[r] # {}
  BY <1>1, HubEffects DEF IInv, TypeOK, hubVars
<1>3. \A r \in Repos : pull'[r] # "none" => opened'[r] # {}
  <2>1. CASE UNCHANGED <<pull, opened>>
    BY <2>1 DEF IInv, CallInv
  <2>2. CASE /\ pull' = [pull EXCEPT ![repo] = "open"]
             /\ opened' = [opened EXCEPT ![repo] =
                              IF pull[repo] = "open" THEN @ ELSE @ \cup {clone[repo]}]
    BY <1>1, <2>2 DEF IInv, TypeOK, CallInv
  <2> QED
    BY <2>1, <2>2, HubEffects DEF hubVars
<1>4. at \in {"existing", "comment", "choose", "transition"} => opened[repo] # {}
  BY DEF IInv, CallInv
<1>5. at' \in {"existing", "comment", "choose", "transition"} \/ delivered' = 2
        => opened'[repo'] # {}
  <2>1. CASE Fails
    <3>1. delivered' = Reached /\ repo' = repo /\ at' = "classify"
      BY <2>1, FailRecords DEF Fails
    <3>2. Reached = 2 => at \in {"comment", "choose", "transition"}
      BY <1>1, ReachedBounds DEF CallSteps
    <3> QED
      BY <1>1, <1>2, <1>4, <3>1, <3>2
  <2>2. CASE GoesOn
    <3>1. PICK call \in CallSteps : <<at, call>> \in CallOrder /\ at' = call
                                    /\ delivered' = delivered /\ repo' = repo
      BY <2>2 DEF GoesOn, Continue, runVars
    <3>2. at' \in {"existing", "comment"} => opened'[repo] # {}
      BY <1>1, <1>2, <1>3, <1>4, <3>1, HubEffects DEF IInv, CallInv, TypeOK, CallOrder
    <3>3. at' \in {"choose", "transition"} => opened'[repo] # {}
      BY <1>1, <1>2, <1>4, <3>1 DEF CallOrder
    <3>4. delivered = 2 => opened'[repo] # {}
      BY <1>1, <1>2 DEF IInv, CallInv
    <3> QED
      BY <3>1, <3>2, <3>3, <3>4
  <2>3. CASE Ends
    <3>1. at' \in {"rest", "commit"} /\ delivered' \in {0, 3}
      BY <2>3, FinishTakesNext DEF Ends, IInv, TypeOK
    <3> QED
      BY <3>1
  <2> QED
    BY <2>1, <2>2, <2>3, CallEnds
<1>6. commented \subseteq commented' /\ commented' \subseteq commented \cup {repo}
  BY JiraEffects DEF jiraVars
<1>7. /\ at' \in {"choose", "transition"} => repo' \in commented' /\ setup.doneBy # {}
      /\ at' = "choose" => "id" \notin setup.doneBy
  <2>1. CASE Fails
    BY <2>1, FailRecords DEF Fails
  <2>2. CASE GoesOn
    <3>1. PICK call \in CallSteps : <<at, call>> \in CallOrder /\ at' = call /\ repo' = repo
      BY <2>2 DEF GoesOn, Continue, runVars
    <3>2. at' \in {"choose", "transition"} => at \in {"comment", "choose"} /\ ~ Fails
      BY <3>1, FailRecords DEF CallOrder, Fails
    <3> QED
      BY <1>6, <3>1, <3>2, JiraEffects DEF IInv, CallInv, CallOrder
  <2>3. CASE Ends
    BY <2>3, FinishTakesNext DEF Ends, IInv, TypeOK
  <2> QED
    BY <2>1, <2>2, <2>3, CallEnds
<1>8. CallInv'
  BY <1>1, <1>3, <1>5, <1>7 DEF CallInv
<1>9. \A r \in commented' : opened'[r] # {}
  <2>1. \A r \in commented : opened'[r] # {}
    BY <1>2 DEF IInv, TypeOK, AnnouncedIsPublished
  <2>2. commented' # commented => at = "comment"
    BY JiraEffects DEF jiraVars
  <2> QED
    BY <1>1, <1>2, <1>4, <1>6, <2>1, <2>2
<1>10. ticket' = "done" => commented' # {}
  BY <1>6, JiraEffects DEF IInv, AnnouncedIsPublished, CallInv, jiraVars
<1>11. completed' \subseteq commented'
       /\ (completed' # {} /\ setup.doneBy # {} => ticket' = "done")
  <2>1. ticket = "done" => ticket' = "done"
    BY JiraEffects DEF jiraVars
  <2>2. CASE completed' = completed
    BY <1>6, <2>1, <2>2 DEF IInv, AnnouncedIsPublished
  <2>3. CASE Ends
    <3>1. completed' = completed \cup {repo} /\ at' \in {"rest", "commit"}
          /\ at \in {"comment", "transition"} /\ ~ Fails
      BY <2>3, FinishTakesNext, FailRecords DEF Ends, Fails, IInv, TypeOK
    <3>2. repo \in commented'
      BY <1>6, <3>1, JiraEffects DEF IInv, CallInv
    <3>3. setup.doneBy # {} => ticket' = "done"
      BY <3>1, JiraEffects
    <3> QED
      BY <1>6, <3>1, <3>2, <3>3 DEF IInv, AnnouncedIsPublished
  <2> QED
    BY <2>2, <2>3, CallEnds, FailRecords DEF Fails, GoesOn, Continue, runVars
<1> QED
  BY <1>1, <1>8, <1>9, <1>10, <1>11 DEF AnnouncedIsPublished

LEMMA CallInvKept == IInv /\ [Next]_vars => CallInv' /\ AnnouncedIsPublished'
<1> SUFFICES ASSUME IInv, [Next]_vars PROVE CallInv' /\ AnnouncedIsPublished'
  OBVIOUS
<1> USE DEF IInv, CallInv, AnnouncedIsPublished
<1>1. CASE CheckTarget
  <2>1. at' \in {"check", "rest", "commit"} /\ delivered' = 0
    BY <1>1, CheckTargetSteps DEF ProgressInv, CheckTarget
  <2>2. UNCHANGED <<completed, remote, pull, opened, commented, ticket, setup>>
    BY <1>1 DEF CheckTarget, hubVars, jiraVars, operatorVars
  <2> QED
    BY <2>1, <2>2
<1>2. CASE Publication
  BY <1>2, CallsKeepCallInv
<1>3. CASE ClassifyFailure
  <2>1. delivered \in 0 .. 2 /\ at = "classify"
    BY <1>3 DEF TypeOK, ProgressInv, ClassifyFailure
  <2>2. UNCHANGED <<repo, completed, delivered, pull, opened, commented, ticket, setup>>
    BY <1>3 DEF ClassifyFailure, runVars, hubVars, jiraVars, operatorVars
  <2>3. at' = "rest" \/ at' \in {"commit", "pull_request"} \/ (at' = "comment" /\ delivered = 2)
    BY <1>3, <2>1, ResumeIsBehind DEF ClassifyFailure
  <2> QED
    BY <2>1, <2>2, <2>3
<1>4. CASE Die
  BY <1>4 DEF Die, runVars, hubVars, jiraVars, operatorVars
<1>5. CASE Bootstrap
  BY <1>5 DEF Bootstrap, hubVars, jiraVars
<1>6. CASE Reenter
  <2>1. delivered \in 0 .. 2 /\ at = "rest"
    BY <1>6 DEF TypeOK, ProgressInv, Reenter
  <2>2. UNCHANGED <<repo, completed, delivered, pull, opened, commented, ticket, setup>>
    BY <1>6 DEF Reenter, runVars, hubVars, jiraVars
  <2>3. at' \in {"commit", "pull_request"} \/ (at' = "comment" /\ delivered = 2)
    BY <1>6, <2>1, ResumeIsBehind DEF Reenter
  <2> QED
    BY <2>1, <2>2, <2>3
<1>7. CASE RemoveWorkspaces
  BY <1>7 DEF RemoveWorkspaces, runVars, hubVars, jiraVars, operatorVars
<1>8. CASE Review
  BY <1>8 DEF TypeOK, Review, runVars, jiraVars, operatorVars
<1>9. CASE UNCHANGED vars
  BY <1>9 DEF vars, runVars, hubVars, jiraVars, operatorVars
<1> QED
  BY <1>1, <1>2, <1>3, <1>4, <1>5, <1>6, <1>7, <1>8, <1>9 DEF Next, Process

LEMMA InitEstablishes == Init => IInv
<1> SUFFICES ASSUME Init PROVE IInv
  OBVIOUS
<1>1. TypeOK
  <2>1. NoError \in WorkflowErrors
    BY DEF NoError, WorkflowErrors, ErrorCodes
  <2>2. 0 \in 0 .. MaxRetries /\ 0 \in 0 .. MaxCommands
    BY DeliveryAssumption DEF DeliveryAssumption
  <2>3. /\ at \in {"rest"} /\ outcome \in {"none"} /\ delivered \in 0 .. 3
        /\ repo \in Repos \cup {NoRepo} /\ pending \subseteq Repos /\ completed \subseteq Repos
        /\ skipped \subseteq Repos
        /\ error \in WorkflowErrors /\ retries \in 0 .. MaxRetries /\ attempts \in Nat
    BY <2>1, <2>2 DEF Init
  <2>4. /\ clone \in [Repos -> Commands \cup {NoClone}] /\ head \in [Repos -> Commands \cup {NoClone}]
        /\ remote \in [Repos -> Commands \cup {NoClone}]
        /\ pull \in [Repos -> {"none", "open", "closed"}] /\ opened \in [Repos -> SUBSET Commands]
    BY DEF Init
  <2>5. /\ dirty \in BOOLEAN /\ refused \in BOOLEAN /\ commented \subseteq Repos
        /\ ticket \in {"open", "done"} /\ setup \in JiraSetups /\ command \in 0 .. MaxCommands
    BY <2>2 DEF Init
  <2> QED
    BY <2>3, <2>4, <2>5 DEF TypeOK
<1>2. RunInv /\ ProgressInv /\ CallInv /\ AnnouncedIsPublished
  BY DEF Init, RunInv, ProgressInv, CallInv, AnnouncedIsPublished, InHand, CallSteps
<1> QED
  BY <1>1, <1>2 DEF IInv

LEMMA Invariant == Spec => []IInv
<1>1. IInv /\ [Next]_vars => IInv'
  BY TypesKept, RunAndProgressKept, CallInvKept DEF IInv
<1> QED
  BY <1>1, InitEstablishes, PTL DEF Spec

-----------------------------------------------------------------------------
(* Results. *)

\* The variables keep their types (TypeOK): every repository taken in hand is
\* one of the ticket, and no retry goes beyond EA_MAX_RETRIES.
THEOREM DeliveryTypes == Spec => []TypeOK
<1>1. IInv => TypeOK
  BY DEF IInv
<1> QED
  BY <1>1, Invariant, PTL

\* The ticket tells only of pull requests that were opened, and a completed
\* repository is announced on a ticket in its final status
\* (AnnouncedIsPublished), whatever answers are lost and wherever the process
\* is killed between two calls of publish_remediation.
THEOREM AnnouncedAlwaysPublished == Spec => []AnnouncedIsPublished
<1>1. IInv => AnnouncedIsPublished
  BY DEF IInv
<1> QED
  BY <1>1, Invariant, PTL

LEMMA OnlyCallsFail ==
    ASSUME IInv, [Next]_vars, at # "classify", at' = "classify"
    PROVE  Publication
<1>1. ~ CheckTarget
  BY CheckTargetSteps DEF IInv
<1>2. ~ Reenter
  <2>1. Reenter => delivered \in 0 .. 2
    BY DEF IInv, TypeOK, ProgressInv, Reenter
  <2> QED
    BY <2>1, ResumeIsBehind DEF Reenter
<1> QED
  BY <1>1, <1>2 DEF Next, Process, ClassifyFailure, Die, Bootstrap, RemoveWorkspaces, Review, vars

LEMMA OnlyFailuresClassify ==
    ASSUME IInv, Publication, at' = "classify"
    PROVE  Fails
BY CallEnds, FinishTakesNext DEF IInv, TypeOK, GoesOn, Continue, Ends, CallSteps

\* Progress is never forgotten with a failure (FailureKeepsProgress): the
\* error names the first part of the delivery that is missing, and nothing is
\* retried before the branch is out (_build_delivery_failure_update).
THEOREM FailuresKeepProgress == Spec => FailureKeepsProgress
<1>1. ASSUME IInv, [Next]_vars, at # "classify", at' = "classify"
      PROVE  /\ delivered' \in delivered .. 2
             /\ error'.recoverable => delivered' > 0
             /\ error'.code = <<"delivery_branch_publication_failed", "delivery_pull_request_failed",
                                "delivery_jira_failed">>[delivered' + 1]
  <2>1. Publication
    BY <1>1, OnlyCallsFail
  <2>2. PICK recoverable \in BOOLEAN : Fail(recoverable)
    BY <1>1, <2>1, OnlyFailuresClassify DEF Fails
  <2>3. delivered' = Reached /\ delivered <= Reached /\ delivered \in 0 .. 3 /\ Reached \in 0 .. 2
    BY <1>1, <2>1, <2>2, CallEnds, FailRecords, ReachedBounds DEF IInv, TypeOK, ProgressInv
  <2>4. error'.recoverable => Reached # 0
    <3>1. SUFFICES ASSUME at \in {"commit", "push"} PROVE ~ error'.recoverable
      BY <2>1, CallEnds, ReachedBounds DEF CallSteps
    <3>2. Commit \/ Push
      BY <2>1, <3>1 DEF Publication, OpenPullRequest, BindExistingPullRequest, CommentOnTicket,
         ChooseTransition, TransitionTicket, RequestFails, Requests
    <3>3. Fail(FALSE)
      BY <1>1, <3>2 DEF Commit, Push, Continue
    <3> QED
      BY <3>3, FailRecords
  <2> QED
    BY <2>2, <2>3, <2>4, FailRecords
<1> QED
  BY <1>1, Invariant, PTL DEF Spec, FailureKeepsProgress

(***************************************************************************)
(* Under SearchMatches, that is, if the ticket's fixed version is the one   *)
(* the pull requests name.                                                  *)
(***************************************************************************)
LEMMA OnceInvKept ==
    ASSUME SearchMatches, IInv, OnceInv, [Next]_vars
    PROVE  OnceInv'
<1> USE DEF OnceInv
<1>1. CASE CheckTarget
  <2>1. UNCHANGED <<pull, opened>> /\ outcome = "running" /\ repo \in Repos
    BY <1>1 DEF IInv, RunInv, CheckTarget, hubVars
  <2>2. CASE FindExistingPullRequest(repo)
    <3>1. UNCHANGED <<pending, clone>>
      BY <1>1, <2>2 DEF CheckTarget
    <3> QED
      BY <2>1, <3>1 DEF Reenterable
  <2>3. CASE ~ FindExistingPullRequest(repo)
    <3>1. opened[repo] = {}
      BY <2>1, <2>3 DEF FindExistingPullRequest
    <3>2. clone' = [clone EXCEPT ![repo] = command] /\ pending' = pending \cup {repo}
      BY <1>1, <2>3 DEF CheckTarget
    <3>3. \A r \in pending' : opened[r] \subseteq {clone'[r]}
      BY <2>1, <3>1, <3>2 DEF Reenterable, IInv, TypeOK
    <3> QED
      BY <2>1, <3>3
  <2> QED
    BY <2>2, <2>3
<1>2. CASE Publication
  <2>1. repo \in pending /\ repo \in Repos /\ outcome = "running" /\ clone' = clone
    BY <1>2, CallEnds DEF IInv, TypeOK, RunInv, InHand, CallSteps
  <2>2. pending' \subseteq pending
    <3>1. Fails \/ GoesOn \/ Ends
      BY <1>2, CallEnds
    <3> QED
      BY <3>1, FailRecords, FinishTakesNext
         DEF IInv, TypeOK, Fails, GoesOn, Continue, Ends, runVars
  <2>3. opened[repo] \subseteq {clone[repo]}
    BY <2>1 DEF Reenterable
  <2>4. CASE UNCHANGED <<pull, opened>>
    BY <2>1, <2>2, <2>4 DEF Reenterable
  <2>5. CASE /\ pull' = [pull EXCEPT ![repo] = "open"]
             /\ opened' = [opened EXCEPT ![repo] =
                              IF pull[repo] = "open" THEN @ ELSE @ \cup {clone[repo]}]
    <3>1. \A r \in Repos \ {repo} : opened'[r] = opened[r] /\ pull'[r] = pull[r]
      BY <2>1, <2>5 DEF IInv, TypeOK
    <3>2. opened'[repo] \subseteq {clone[repo]} /\ pull'[repo] = "open"
      BY <2>1, <2>3, <2>5 DEF IInv, TypeOK
    <3>3. \A r \in Repos : opened'[r] # {} => pull'[r] # "none"
      BY <3>1, <3>2
    <3>4. \A r \in pending' : opened'[r] \subseteq {clone'[r]}
      BY <2>1, <2>2, <3>1, <3>2 DEF Reenterable, IInv, TypeOK
    <3>5. \A r \in Repos : \A c, d \in opened'[r] : c = d
      BY <3>1, <3>2
    <3> QED
      BY <3>3, <3>4, <3>5
  <2> QED
    BY <1>2, <2>4, <2>5, HubEffects DEF hubVars
<1>3. CASE ClassifyFailure \/ Die
  <2>1. UNCHANGED <<pull, opened, pending, clone>> /\ outcome = "running"
    BY <1>3 DEF ClassifyFailure, Die, hubVars, runVars, diskVars, IInv, RunInv
  <2> QED
    BY <2>1 DEF Reenterable
<1>4. CASE Bootstrap
  BY <1>4 DEF Bootstrap, hubVars
<1>5. CASE Reenter
  BY <1>5 DEF Reenter, hubVars, runVars, Reenterable
<1>6. CASE RemoveWorkspaces
  BY <1>6 DEF RemoveWorkspaces, hubVars, Reenterable
<1>7. CASE Review
  <2>1. PICK r \in Repos : pull' = [pull EXCEPT ![r] = "closed"]
    BY <1>7 DEF Review
  <2>2. UNCHANGED <<opened, outcome, pending, clone>>
    BY <1>7 DEF Review, runVars, diskVars
  <2>3. \A q \in Repos : pull[q] # "none" => pull'[q] # "none"
    BY <2>1 DEF IInv, TypeOK
  <2> QED
    BY <2>2, <2>3 DEF Reenterable
<1>8. CASE UNCHANGED vars
  BY <1>8 DEF vars, hubVars, runVars, diskVars, Reenterable
<1> QED
  BY <1>1, <1>2, <1>3, <1>4, <1>5, <1>6, <1>7, <1>8 DEF Next, Process

\* At most one pull request is ever opened for a repository
\* (RerunOpensNoSecond), over any number of runs that die, escalate, are
\* rerun or taken up again, and whether or not the reviewers close it: a
\* rerun finds the open or closed one, a retry and a re-entry are answered
\* 422 and bind it.
THEOREM NoSecondPullRequest ==
    ASSUME SearchMatches
    PROVE  Spec => []RerunOpensNoSecond
<1>1. Init => OnceInv
  BY DEF Init, OnceInv
<1>2. IInv /\ OnceInv /\ [Next]_vars => OnceInv'
  BY OnceInvKept
<1>3. OnceInv => RerunOpensNoSecond
  <2>1. SUFFICES ASSUME OnceInv, NEW r \in Repos
                 PROVE  Cardinality(opened[r]) <= 1
    BY DEF RerunOpensNoSecond
  <2>2. CASE opened[r] = {}
    BY <2>2, FS_EmptySet
  <2>3. CASE opened[r] # {}
    <3>1. PICK c \in opened[r] : TRUE
      BY <2>3
    <3>2. opened[r] = {c}
      BY <2>1 DEF OnceInv
    <3>3. Cardinality({c}) = 1
      BY FS_Singleton
    <3> QED
      BY <3>2, <3>3
  <2> QED
    BY <2>2, <2>3
<1> QED
  BY <1>1, <1>2, <1>3, Invariant, PTL DEF Spec

\* If Jira lets the done transition be repeated, or the configured status name
\* tells that it was made, a pull request or Jira step fails for good only
\* because a server refused a request (OnlyRefusalsAreFinal): a lost answer,
\* the 422 and an issue that is done already are absorbed.
THEOREM OnlyRefusalsFail ==
    ASSUME \A s \in JiraSetups : Lenient(s)
    PROVE  Spec => []OnlyRefusalsAreFinal
<1>1. Init => OnlyRefusalsAreFinal
  BY DEF Init, OnlyRefusalsAreFinal
<1>2. ASSUME IInv, OnlyRefusalsAreFinal, [Next]_vars
      PROVE  OnlyRefusalsAreFinal'
  <2>1. SUFFICES ASSUME at' = "classify",
                        error'.code # "delivery_branch_publication_failed",
                        ~ error'.recoverable
                 PROVE  refused'
    BY DEF OnlyRefusalsAreFinal
  <2>2. CASE at = "classify"
    <3>1. UNCHANGED <<error, refused>>
      <4>1. ~ Publication
        BY <2>2, CallEnds DEF CallSteps
      <4>2. ~ ClassifyFailure
        <5>1. delivered \in 0 .. 2
          BY <1>2, <2>2 DEF IInv, TypeOK, ProgressInv
        <5> QED
          BY <2>1, <5>1, ResumeIsBehind DEF ClassifyFailure
      <4> QED
        BY <1>2, <2>1, <2>2, <4>1, <4>2 DEF Next, Process, CheckTarget, Die, Bootstrap, Reenter,
           RemoveWorkspaces, Review, failureVars, vars
    <3> QED
      BY <1>2, <2>1, <2>2, <3>1 DEF OnlyRefusalsAreFinal
  <2>3. CASE at # "classify"
    <3>1. Publication
      BY <1>2, <2>1, <2>3, OnlyCallsFail
    <3>2. at \notin {"commit", "push"}
      <4>1. PICK recoverable \in BOOLEAN : Fail(recoverable)
        BY <1>2, <2>1, <3>1, OnlyFailuresClassify DEF Fails
      <4>2. Reached # 0
        BY <2>1, <4>1, FailRecords
      <4> QED
        BY <4>2, ReachedBounds
    <3>3. setup \in JiraSetups /\ setup.doneBy \in SUBSET {"id", "name"} /\ Lenient(setup)
      BY <1>2, DeliveryAssumption DEF IInv, TypeOK, DeliveryAssumption, Setups
    <3>4. at = "choose" => setup.doneAgain
      BY <1>2, <3>3 DEF IInv, CallInv, Lenient
    <3>5. at = "transition" => AcceptsTransition
      BY <1>2, <3>3 DEF IInv, CallInv, Lenient, AcceptsTransition
    <3> QED
      BY <1>2, <2>1, <3>1, <3>2, <3>4, <3>5, RefusalsAreRecorded DEF IInv, TypeOK
  <2> QED
    BY <2>2, <2>3
<1> QED
  BY <1>1, <1>2, Invariant, PTL DEF Spec

-----------------------------------------------------------------------------
(***************************************************************************)
(* Delivery, call by call, is one more way to keep the books of a ticket.  *)
(* The lists intake builds count from the moment every target is on one of *)
(* them, as they are checkpointed at the end of the loop; a repository is  *)
(* cleared while the run is past its pull request.                         *)
(***************************************************************************)
Listed == pending \cup skipped \cup completed = Repos

Todo     == IF Listed THEN pending ELSE {}
Excluded == IF Listed THEN skipped ELSE {}
Cleared  == at \in {"comment", "choose", "transition"} /\ opened[repo] # {}

Ledger == INSTANCE TicketLedger WITH
    todo <- Todo, finished <- completed, excluded <- Excluded, cleared <- Cleared

LedgerStep == [Ledger!LedgerNext]_(Ledger!ledger)

\* The targets before the one looked at are listed, and the repository in hand,
\* or left behind by a run that died, is the first one to do.
ListInv ==
    /\ at = "check" => /\ pending \cup skipped = 1 .. repo - 1
                       /\ pending \cap skipped = {} /\ completed = {} /\ retries = 0
    /\ ~ Listed => completed = {} /\ at \in {"rest", "check"}
    /\ Listed /\ pending # {} => repo = FirstOf(pending)

LEMMA CheckIsNotListed == IInv /\ ListInv /\ at = "check" => ~ Listed
BY DEF IInv, RunInv, ListInv, Listed, Repos

LEMMA CheckTargetLists ==
    ASSUME IInv, ListInv, CheckTarget
    PROVE  /\ ListInv'
           /\ completed = {} /\ completed' = {}
           /\ at' = "check" => ~ Listed'
           /\ pending' \cap skipped' = {}
           /\ at' \in {"check", "rest", "commit"}
<1>1. at = "check" /\ repo \in Repos /\ retries = 0 /\ completed = {}
      /\ pending \cup skipped = 1 .. repo - 1 /\ pending \cap skipped = {}
  BY CheckTargetSteps DEF IInv, ListInv
<1>2. completed' = {} /\ retries' = 0
  BY <1>1 DEF CheckTarget, failureVars
<1>3. pending' \cup skipped' = 1 .. repo
  <2>1. pending' \cup skipped' = pending \cup skipped \cup {repo}
    BY DEF CheckTarget
  <2> QED
    BY <1>1, <2>1 DEF Repos
<1>4. pending' \cap skipped' = {}
  <2>1. repo \notin pending \cup skipped
    BY <1>1 DEF Repos
  <2> QED
    BY <1>1, <2>1 DEF CheckTarget
<1>5. CASE repo < NumRepos
  <2>1. at' = "check" /\ repo' = repo + 1
    BY <1>5, <1>1, DeliveryAssumption DEF CheckTarget, Repos, DeliveryAssumption
  <2>2. NumRepos \in Repos /\ NumRepos \notin 1 .. repo
    BY <1>1, <1>5, DeliveryAssumption DEF Repos, DeliveryAssumption
  <2>3. ~ Listed'
    BY <1>2, <1>3, <2>2 DEF Listed
  <2>4. 1 .. repo = 1 .. repo' - 1
    BY <1>1, <2>1 DEF Repos
  <2> QED
    BY <1>1, <1>2, <1>3, <1>4, <2>1, <2>3, <2>4 DEF ListInv
<1>6. CASE ~ (repo < NumRepos)
  <2>1. repo = NumRepos
    BY <1>1, <1>6, DeliveryAssumption DEF Repos, DeliveryAssumption
  <2>2. Listed'
    BY <1>2, <1>3, <2>1 DEF Listed, Repos
  <2>3. pending' # {} => at' = "commit" /\ repo' = FirstOf(pending')
    BY <1>6, <2>1 DEF CheckTarget
  <2>4. pending' = {} => at' = "rest"
    BY <1>6, <2>1 DEF CheckTarget
  <2> QED
    BY <1>1, <1>2, <1>4, <2>2, <2>3, <2>4 DEF ListInv
<1> QED
  BY <1>5, <1>6

\* With the first repository finished the next one is taken.
LEMMA FinishKeepsOrder ==
    ASSUME IInv, ListInv, at \in CallSteps, Finish
    PROVE  /\ Listed /\ Listed' /\ repo \in pending /\ repo = FirstOf(pending)
           /\ pending' # {} => repo' = FirstOf(pending')
<1>1. repo \in pending /\ Listed /\ repo = FirstOf(pending)
  BY DEF IInv, RunInv, InHand, CallSteps, ListInv
<1>2. pending' = pending \ {repo} /\ completed' = completed \cup {repo} /\ skipped' = skipped
  BY FinishTakesNext DEF IInv, TypeOK
<1>3. Listed'
  BY <1>1, <1>2 DEF Listed
<1> QED
  BY <1>1, <1>3 DEF Finish

LEMMA ListInvKept == IInv /\ ListInv /\ [Next]_vars => ListInv'
<1> SUFFICES ASSUME IInv, ListInv, [Next]_vars PROVE ListInv'
  OBVIOUS
<1>1. ASSUME UNCHANGED <<repo, pending, completed, skipped>>, at # "check", at' # "check",
             at' # "rest" => Listed
      PROVE  ListInv'
  BY <1>1 DEF ListInv, Listed
<1>2. CASE CheckTarget
  BY <1>2, CheckTargetLists
<1>3. CASE Publication
  <2>1. at \in CallSteps /\ Listed /\ (Fails \/ GoesOn \/ Ends)
    BY <1>3, CallEnds DEF ListInv, CallSteps
  <2>2. CASE Fails
    BY <1>1, <2>1, <2>2, FailRecords DEF Fails, CallSteps
  <2>3. CASE GoesOn
    BY <1>1, <2>1, <2>3 DEF GoesOn, Continue, CallSteps, runVars
  <2>4. CASE Ends
    BY <2>1, <2>4, FinishKeepsOrder, FinishTakesNext DEF Ends, ListInv, IInv, TypeOK
  <2> QED
    BY <2>1, <2>2, <2>3, <2>4
<1>4. CASE ClassifyFailure
  <2>1. Listed /\ delivered \in 0 .. 2
    BY <1>4 DEF ClassifyFailure, ListInv, IInv, TypeOK, ProgressInv
  <2> QED
    BY <1>1, <1>4, <2>1, ResumeIsBehind DEF ClassifyFailure, runVars
<1>5. CASE Die
  BY <1>5 DEF Die, ListInv, Listed, runVars
<1>6. CASE Bootstrap
  <2>1. 1 \in Repos /\ 1 .. 1 - 1 = {}
    BY DeliveryAssumption DEF Repos, DeliveryAssumption
  <2>2. ~ Listed'
    BY <1>6, <2>1 DEF Bootstrap, Listed
  <2> QED
    BY <1>6, <2>1, <2>2 DEF Bootstrap, ListInv
<1>7. CASE Reenter
  <2>1. Listed /\ delivered \in 0 .. 2
    BY <1>7 DEF Reenter, Listed, IInv, TypeOK, ProgressInv
  <2> QED
    BY <1>1, <1>7, <2>1, ResumeIsBehind DEF Reenter, runVars
<1>8. CASE RemoveWorkspaces \/ Review \/ UNCHANGED vars
  BY <1>8 DEF RemoveWorkspaces, Review, vars, ListInv, Listed, runVars, failureVars
<1> QED
  BY <1>2, <1>3, <1>4, <1>5, <1>6, <1>7, <1>8 DEF Next, Process

LEMMA ListInvariant == Spec => []ListInv
<1>1. Init => ListInv
  BY DeliveryAssumption DEF Init, ListInv, Listed, Repos, DeliveryAssumption
<1> QED
  BY <1>1, ListInvKept, Invariant, PTL DEF Spec

\* With the books unchanged, clearance is given or withdrawn.
LEMMA ClearOrStutter ==
    ASSUME IInv, ListInv, IInv', ListInv', UNCHANGED <<pending, completed, skipped>>
    PROVE  LedgerStep
<1>1. Todo' = Todo /\ Excluded' = Excluded
  BY DEF Todo, Excluded, Listed
<1>2. Cleared => Todo # {}
  BY DEF Cleared, IInv, RunInv, InHand, ListInv, Todo
<1>3. Cleared' => Todo' # {}
  BY DEF Cleared, IInv, RunInv, InHand, ListInv, Todo
<1>4. Cleared \in BOOLEAN /\ Cleared' \in BOOLEAN
  BY DEF Cleared
<1>5. CASE Todo = {}
  <2>1. Cleared' = Cleared
    BY <1>1, <1>2, <1>3, <1>4, <1>5
  <2> QED
    BY <1>1, <2>1 DEF LedgerStep, Ledger!ledger
<1>6. CASE Todo # {}
  BY <1>1, <1>4, <1>6 DEF LedgerStep, Ledger!LedgerNext, Ledger!Clear
<1> QED
  BY <1>5, <1>6

\* The last target looked at splits the repositories.
LEMMA CheckTargetSplits ==
    ASSUME IInv, ListInv, CheckTarget
    PROVE  LedgerStep
<1>1. ~ Listed /\ completed = {} /\ completed' = {} /\ ~ Cleared
  BY CheckIsNotListed, CheckTargetLists, CheckTargetSteps DEF IInv, Cleared
<1>2. ~ Cleared'
  BY CheckTargetLists DEF Cleared
<1>3. Todo = {} /\ Excluded = {}
  BY <1>1 DEF Todo, Excluded
<1>4. Cleared = FALSE /\ Cleared' = FALSE
  BY <1>1, <1>2 DEF Cleared
<1>5. CASE ~ Listed'
  <2>1. Todo' = {} /\ Excluded' = {}
    BY <1>5 DEF Todo, Excluded
  <2> QED
    BY <1>1, <1>3, <1>4, <2>1 DEF LedgerStep, Ledger!ledger
<1>6. CASE Listed'
  <2>1. Todo' = pending' /\ Excluded' = skipped'
    BY <1>6 DEF Todo, Excluded
  <2>2. skipped' \in SUBSET Repos /\ pending' = Repos \ skipped'
    <3>1. pending' \cup skipped' = Repos
      BY <1>1, <1>6 DEF Listed
    <3>2. pending' \cap skipped' = {}
      BY CheckTargetLists
    <3> QED
      BY <3>1, <3>2
  <2> QED
    BY <1>1, <1>3, <1>4, <2>1, <2>2 DEF LedgerStep, Ledger!LedgerNext, Ledger!Split
<1> QED
  BY <1>5, <1>6

\* A repository is finished past its pull request, and it was the first.
LEMMA FinishFinishes ==
    ASSUME IInv, ListInv, Publication, Ends
    PROVE  LedgerStep
<1>1. at \in {"comment", "transition"} /\ at \in CallSteps /\ Finish
  BY DEF Ends, CallSteps
<1>2. Listed /\ Listed' /\ repo \in pending /\ repo = FirstOf(pending)
  BY <1>1, FinishKeepsOrder
<1>3. pending' = pending \ {repo} /\ completed' = completed \cup {repo} /\ skipped' = skipped
      /\ at' \in {"rest", "commit"}
  BY <1>1, FinishTakesNext DEF IInv, TypeOK
<1>4. \A other \in pending : repo <= other
  BY <1>2, FirstOfIsFirst DEF IInv, TypeOK
<1>5. Cleared /\ Cleared' = FALSE
  BY <1>1, <1>3 DEF Cleared, IInv, CallInv
<1>6. Todo = pending /\ Todo' = pending' /\ Excluded' = Excluded
  BY <1>2, <1>3 DEF Todo, Excluded
<1> QED
  BY <1>2, <1>3, <1>4, <1>5, <1>6 DEF LedgerStep, Ledger!LedgerNext, Ledger!Finish

LEMMA StepKeepsBooks == IInv /\ ListInv /\ IInv' /\ ListInv' /\ [Next]_vars => LedgerStep
<1> SUFFICES ASSUME IInv, ListInv, IInv', ListInv', [Next]_vars PROVE LedgerStep
  OBVIOUS
<1>1. CASE CheckTarget
  BY <1>1, CheckTargetSplits
<1>2. CASE Publication
  <2>1. CASE Ends
    BY <1>2, <2>1, FinishFinishes
  <2>2. CASE Fails \/ GoesOn
    <3>1. UNCHANGED <<pending, completed, skipped>>
      BY <2>2, FailRecords DEF Fails, GoesOn, Continue, runVars
    <3> QED
      BY <3>1, ClearOrStutter
  <2> QED
    BY <1>2, <2>1, <2>2, CallEnds
<1>3. CASE Bootstrap
  <2>1. pending' = {} /\ completed' = {} /\ skipped' = {} /\ at' = "check"
    BY <1>3 DEF Bootstrap
  <2>2. Todo' = {} /\ Excluded' = {} /\ Cleared' = FALSE
    BY <2>1 DEF Todo, Excluded, Cleared
  <2> QED
    BY <2>1, <2>2 DEF LedgerStep, Ledger!LedgerNext, Ledger!StartOver
<1>4. CASE ClassifyFailure \/ Die \/ Reenter \/ RemoveWorkspaces \/ Review \/ UNCHANGED vars
  <2>1. UNCHANGED <<pending, completed, skipped>>
    BY <1>4 DEF ClassifyFailure, Die, Reenter, RemoveWorkspaces, Review, vars, runVars
  <2> QED
    BY <2>1, ClearOrStutter
<1> QED
  BY <1>1, <1>2, <1>3, <1>4 DEF Next, Process

\* Wherever the process is killed and whatever calls fail, the repositories
\* of a ticket are split once and then finished one at a time, in ticket
\* order, each past its own pull request: what publish_remediation does call
\* by call keeps the books RemediationGraph keeps with one atomic step.
THEOREM DeliveryKeepsLedger == Spec => Ledger!LedgerSpec
<1>1. Init => Ledger!LedgerInit
  <2> SUFFICES ASSUME Init PROVE Ledger!LedgerInit
    OBVIOUS
  <2>1. Cleared = FALSE /\ Todo = {} /\ Excluded = {} /\ completed = {}
    BY DEF Init, Cleared, Todo, Excluded
  <2> QED
    BY <2>1 DEF Ledger!LedgerInit
<1>2. IInv /\ ListInv /\ IInv' /\ ListInv' /\ [Next]_vars
        => [Ledger!LedgerNext]_(Ledger!ledger)
  BY StepKeepsBooks DEF LedgerStep
<1> QED
  BY <1>1, <1>2, Invariant, ListInvariant, PTL DEF Spec, Ledger!LedgerSpec

-----------------------------------------------------------------------------
(***************************************************************************)
(* How long a run may be.  It pays in advance for every target to look at, *)
(* for the calls of the repositories behind the one in hand with all their *)
(* retries, for the retries left of this one, and for the calls from here. *)
(***************************************************************************)
CallsPerTry == 8
CallsPerRepository == CallsPerTry + CallsPerTry * MaxRetries
RunBound == NumRepos + CallsPerRepository * NumRepos

CallsFrom ==
    [commit |-> 8, push |-> 7, pull_request |-> 6, existing |-> 5, comment |-> 4, choose |-> 3,
     transition |-> 2, classify |-> 1]

Behind == Cardinality(pending \ {repo})

CallsLeft ==
    CASE at = "rest"  -> 0
      [] at = "check" -> NumRepos - repo + 1 + CallsPerRepository * NumRepos
      [] OTHER        -> CallsFrom[at] + CallsPerTry * (MaxRetries - retries)
                         + CallsPerRepository * Behind

LEMMA RepositoriesAreFinite ==
    ASSUME NEW repos \in SUBSET Repos
    PROVE  IsFiniteSet(repos) /\ Cardinality(repos) \in 0 .. NumRepos
<1>1. IsFiniteSet(Repos) /\ Cardinality(Repos) = NumRepos
  BY DeliveryAssumption, FS_Interval DEF Repos, DeliveryAssumption
<1>2. IsFiniteSet(repos) /\ Cardinality(repos) <= NumRepos
  BY <1>1, FS_Subset
<1> QED
  BY <1>2, FS_CardinalityType, DeliveryAssumption DEF DeliveryAssumption

LEMMA OneLessBehind ==
    ASSUME NEW repos \in SUBSET Repos, NEW r \in repos
    PROVE  Cardinality(repos) = Cardinality(repos \ {r}) + 1 /\ Cardinality(repos \ {r}) \in Nat
<1>1. IsFiniteSet(repos) /\ Cardinality(repos) \in Nat
  BY RepositoriesAreFinite, DeliveryAssumption DEF DeliveryAssumption
<1>2. Cardinality(repos \ {r}) = Cardinality(repos) - 1 /\ IsFiniteSet(repos \ {r})
  BY <1>1, FS_RemoveElement
<1>3. Cardinality(repos \ {r}) \in Nat
  BY <1>2, FS_CardinalityType
<1> QED
  BY <1>1, <1>2, <1>3

LEMMA ProductGrows ==
    ASSUME NEW k \in Nat, NEW m \in Nat, NEW n \in Nat
    PROVE  /\ k * m \in Nat
           /\ m <= n => k * m <= k * n
           /\ n = m + 1 => k * n = k * m + k
<1>1. k * m \in Nat
  OBVIOUS
<1>2. ASSUME m <= n PROVE k * m <= k * n
  <2>1. k * n = k * m + k * (n - m) /\ n - m \in Nat
    BY <1>2
  <2>2. k * (n - m) \in Nat
    BY <2>1
  <2> QED
    BY <1>1, <2>1, <2>2
<1>3. n = m + 1 => k * n = k * m + k
  OBVIOUS
<1> QED
  BY <1>1, <1>2, <1>3

LEMMA PerRepositoryIsNatural ==
    /\ CallsPerRepository \in Nat /\ CallsPerRepository * NumRepos \in Nat
    /\ CallsPerRepository = 8 + 8 * MaxRetries /\ MaxRetries \in Nat /\ NumRepos \in Nat \ {0}
<1>1. CallsPerRepository \in Nat /\ MaxRetries \in Nat /\ NumRepos \in Nat \ {0}
  BY DeliveryAssumption DEF CallsPerRepository, CallsPerTry, DeliveryAssumption
<1> QED
  BY <1>1, ProductGrows DEF CallsPerRepository, CallsPerTry

LEMMA CallsFromType == \A call \in CallSteps \cup {"classify"} : CallsFrom[call] \in 1 .. 8
BY DEF CallsFrom, CallSteps

\* The calls that are left for the repositories in hand and behind.
LEMMA LeftInHand ==
    ASSUME IInv, at \in CallSteps \cup {"classify"}
    PROVE  /\ Behind \in 0 .. NumRepos - 1 /\ CallsPerRepository * Behind \in Nat
           /\ CallsPerRepository * Behind + CallsPerRepository <= CallsPerRepository * NumRepos
           /\ CallsLeft = CallsFrom[at] + 8 * (MaxRetries - retries) + CallsPerRepository * Behind
           /\ CallsFrom[at] \in 1 .. 8 /\ retries \in 0 .. MaxRetries /\ MaxRetries \in Nat
<1>1. repo \in pending /\ pending \in SUBSET Repos /\ retries \in 0 .. MaxRetries
  BY DEF IInv, TypeOK, RunInv, InHand, CallSteps
<1>2. Behind \in Nat /\ Cardinality(pending) = Behind + 1 /\ Cardinality(pending) \in 0 .. NumRepos
  BY <1>1, OneLessBehind, RepositoriesAreFinite DEF Behind
<1>3. Behind + 1 <= NumRepos /\ Behind + 1 \in Nat /\ Behind \in 0 .. NumRepos - 1
  BY <1>2, PerRepositoryIsNatural
<1>4. /\ CallsPerRepository * Behind \in Nat
      /\ CallsPerRepository * (Behind + 1) = CallsPerRepository * Behind + CallsPerRepository
      /\ CallsPerRepository * (Behind + 1) <= CallsPerRepository * NumRepos
  <2>1. \A k, m, n \in Nat : /\ k * m \in Nat
                             /\ m <= n => k * m <= k * n
                             /\ n = m + 1 => k * n = k * m + k
    BY ProductGrows
  <2>2. CallsPerRepository * Behind \in Nat
    BY <1>2, <2>1, PerRepositoryIsNatural
  <2>3. CallsPerRepository * (Behind + 1) = CallsPerRepository * Behind + CallsPerRepository
    BY <1>2, <1>3, <2>1, PerRepositoryIsNatural
  <2>4. CallsPerRepository * (Behind + 1) <= CallsPerRepository * NumRepos
    BY <1>3, <2>1, PerRepositoryIsNatural
  <2> QED
    BY <2>2, <2>3, <2>4
<1>5. CallsLeft = CallsFrom[at] + 8 * (MaxRetries - retries) + CallsPerRepository * Behind
  BY DEF CallsLeft, CallsPerTry, CallSteps
<1> QED
  BY <1>1, <1>3, <1>4, <1>5, CallsFromType, PerRepositoryIsNatural

\* The same of the state a step leads to.
HandInv ==
    at \in CallSteps \cup {"classify"} =>
        /\ CallsPerRepository * Behind \in Nat
        /\ CallsPerRepository * Behind + CallsPerRepository <= CallsPerRepository * NumRepos
        /\ CallsLeft = CallsFrom[at] + 8 * (MaxRetries - retries) + CallsPerRepository * Behind
        /\ CallsFrom[at] \in 1 .. 8 /\ retries \in 0 .. MaxRetries

LEMMA LeftInHandNext == IInv' => HandInv'
<1>1. IInv => HandInv
  BY LeftInHand DEF HandInv
<1> QED
  BY <1>1, PTL

LEMMA LeftInCheck ==
    ASSUME IInv, at = "check"
    PROVE  /\ CallsLeft = NumRepos - repo + 1 + CallsPerRepository * NumRepos
           /\ repo \in 1 .. NumRepos /\ CallsPerRepository * NumRepos \in Nat
BY PerRepositoryIsNatural DEF CallsLeft, IInv, RunInv, Repos

\* What is left never exceeds RunBound.
LEMMA LeftIsBounded == IInv => CallsLeft \in 0 .. RunBound
<1> SUFFICES ASSUME IInv PROVE CallsLeft \in 0 .. RunBound
  OBVIOUS
<1>1. CASE at = "rest"
  BY <1>1, PerRepositoryIsNatural DEF CallsLeft, RunBound
<1>2. CASE at = "check"
  <2> DEFINE All == CallsPerRepository * NumRepos
  <2>1. CallsLeft = NumRepos - repo + 1 + All /\ repo \in 1 .. NumRepos /\ All \in Nat
        /\ RunBound = NumRepos + All /\ NumRepos \in Nat
    BY <1>2, LeftInCheck, PerRepositoryIsNatural DEF RunBound
  <2> HIDE DEF All
  <2> QED
    BY <2>1
<1>3. CASE at \in CallSteps \cup {"classify"}
  <2> DEFINE All == CallsPerRepository * NumRepos
             Rest == CallsPerRepository * Behind
  <2>1. /\ Rest \in Nat /\ Rest + CallsPerRepository <= All /\ All \in Nat
        /\ CallsLeft = CallsFrom[at] + 8 * (MaxRetries - retries) + Rest
        /\ CallsFrom[at] \in 1 .. 8 /\ retries \in 0 .. MaxRetries /\ MaxRetries \in Nat
    BY <1>3, LeftInHand, PerRepositoryIsNatural
  <2>2. RunBound = NumRepos + All /\ NumRepos \in Nat /\ CallsPerRepository = 8 + 8 * MaxRetries
    BY PerRepositoryIsNatural DEF RunBound
  <2> HIDE DEF All, Rest
  <2>3. CallsLeft \in Nat /\ CallsLeft <= CallsPerRepository + Rest
    BY <2>1, <2>2
  <2> QED
    BY <2>1, <2>2, <2>3, PerRepositoryIsNatural
<1> QED
  BY <1>1, <1>2, <1>3 DEF IInv, TypeOK

BoundInv == CallsLeft \in 0 .. RunBound

LEMMA LeftIsBoundedNext == IInv' => BoundInv'
<1>1. IInv => BoundInv
  BY LeftIsBounded DEF BoundInv
<1> QED
  BY <1>1, PTL

\* While the process runs there is something left.
LEMMA LeftIsPositive == IInv /\ at # "rest" => CallsLeft > 0
<1> SUFFICES ASSUME IInv, at # "rest" PROVE CallsLeft > 0
  OBVIOUS
<1>1. CASE at = "check"
  <2> DEFINE All == CallsPerRepository * NumRepos
  <2>1. CallsLeft = NumRepos - repo + 1 + All /\ repo \in 1 .. NumRepos /\ All \in Nat
        /\ NumRepos \in Nat
    BY <1>1, LeftInCheck, PerRepositoryIsNatural
  <2> HIDE DEF All
  <2> QED
    BY <2>1
<1>2. CASE at \in CallSteps \cup {"classify"}
  <2> DEFINE Rest == CallsPerRepository * Behind
  <2>1. /\ Rest \in Nat /\ CallsLeft = CallsFrom[at] + 8 * (MaxRetries - retries) + Rest
        /\ CallsFrom[at] \in 1 .. 8 /\ retries \in 0 .. MaxRetries /\ MaxRetries \in Nat
    BY <1>2, LeftInHand
  <2> HIDE DEF Rest
  <2> QED
    BY <2>1
<1> QED
  BY <1>1, <1>2 DEF IInv, TypeOK

\* The last target is looked at before any call is made.
LEMMA CheckTargetUsesUp ==
    ASSUME IInv, IInv', CheckTarget
    PROVE  CallsLeft' < CallsLeft
<1> DEFINE All == CallsPerRepository * NumRepos
           Rest == CallsPerRepository * Behind'
<1>1. /\ CallsLeft = NumRepos - repo + 1 + All /\ repo \in 1 .. NumRepos /\ All \in Nat
      /\ NumRepos \in Nat
  BY CheckTargetSteps, LeftInCheck, PerRepositoryIsNatural DEF IInv
<1>2. CASE at' = "check" /\ repo' = repo + 1
  <2>1. CallsLeft' = NumRepos - repo' + 1 + All
    BY <1>2 DEF CallsLeft
  <2> HIDE DEF All
  <2> QED
    BY <1>1, <1>2, <2>1
<1>3. CASE at' = "rest"
  <2>1. CallsLeft' = 0
    BY <1>3 DEF CallsLeft
  <2> HIDE DEF All
  <2> QED
    BY <1>1, <2>1
<1>4. CASE at' = "commit"
  <2>1. IInv' /\ at' \in CallSteps \cup {"classify"}
    BY <1>4 DEF CallSteps
  <2>2. /\ Rest \in Nat /\ Rest + CallsPerRepository <= All
        /\ CallsLeft' = CallsFrom[at'] + 8 * (MaxRetries - retries') + Rest
        /\ CallsFrom[at'] \in 1 .. 8 /\ retries' \in 0 .. MaxRetries
    BY <2>1, LeftInHandNext DEF HandInv
  <2>3. CallsPerRepository = 8 + 8 * MaxRetries /\ MaxRetries \in Nat
    BY PerRepositoryIsNatural
  <2> HIDE DEF All, Rest
  <2> QED
    BY <1>1, <2>2, <2>3
<1> QED
  BY <1>2, <1>3, <1>4, CheckTargetSteps DEF IInv

\* Every call fails for this try, goes on to a later one, or is the last.
LEMMA CallUsesUp ==
    ASSUME IInv, IInv', Publication
    PROVE  CallsLeft' < CallsLeft
<1> DEFINE Rest == CallsPerRepository * Behind
           Tries == 8 * (MaxRetries - retries)
<1>1. /\ Rest \in Nat /\ CallsLeft = CallsFrom[at] + Tries + Rest
      /\ CallsFrom[at] \in 1 .. 8 /\ retries \in 0 .. MaxRetries /\ MaxRetries \in Nat
      /\ at \in CallSteps /\ repo \in pending /\ pending \in SUBSET Repos
  BY CallEnds, LeftInHand DEF IInv, TypeOK, RunInv, InHand, CallSteps
<1>2. Tries \in Nat
  BY <1>1
<1>3. ASSUME at' \in CallSteps \cup {"classify"}, UNCHANGED <<repo, pending, retries>>
      PROVE  CallsLeft' = CallsFrom[at'] + Tries + Rest
  BY <1>3 DEF CallsLeft, Behind, CallsPerTry, CallSteps
<1>4. CASE Fails
  <2>1. at' = "classify" /\ UNCHANGED <<repo, pending, retries>>
    BY <1>4, FailRecords DEF Fails
  <2>2. CallsFrom[at] > 1 /\ CallsFrom[at'] = 1
    BY <1>1, <2>1 DEF CallsFrom, CallSteps
  <2> HIDE DEF Rest, Tries
  <2> QED
    BY <1>1, <1>2, <1>3, <2>1, <2>2
<1>5. CASE GoesOn
  <2>1. PICK call \in CallSteps : <<at, call>> \in CallOrder /\ Continue(call)
    BY <1>5 DEF GoesOn
  <2>2. at' = call /\ UNCHANGED <<repo, pending, retries>>
    BY <2>1 DEF Continue, runVars, failureVars
  <2>3. CallsFrom[at'] < CallsFrom[at] /\ CallsFrom[at'] \in 1 .. 8
    BY <2>1, <2>2, CallsFromType DEF CallOrder, CallsFrom
  <2> HIDE DEF Rest, Tries
  <2> QED
    BY <1>1, <1>2, <1>3, <2>2, <2>3
<1>6. CASE Ends
  <2>1. pending' = pending \ {repo}
        /\ \/ at' = "rest"
           \/ at' = "commit" /\ repo' \in pending' /\ retries' = 0
    BY <1>6, FinishTakesNext DEF IInv, TypeOK, Ends
  <2>2. CASE at' = "rest"
    <3>1. CallsLeft' = 0
      BY <2>2 DEF CallsLeft
    <3> HIDE DEF Rest, Tries
    <3> QED
      BY <1>1, <1>2, <3>1
  <2>3. CASE at' = "commit" /\ repo' \in pending' /\ retries' = 0
    <3>1. Behind \in Nat /\ Behind' \in Nat /\ Behind = Behind' + 1
      BY <1>1, <2>1, <2>3, OneLessBehind DEF Behind
    <3>2. Rest = CallsPerRepository * Behind' + CallsPerRepository
          /\ CallsPerRepository * Behind' \in Nat
      <4>1. \A k, m, n \in Nat : k * m \in Nat /\ (n = m + 1 => k * n = k * m + k)
        BY ProductGrows
      <4> QED
        BY <3>1, <4>1, PerRepositoryIsNatural
    <3>3. CallsLeft' = 8 + 8 * MaxRetries + CallsPerRepository * Behind'
      BY <1>1, <2>3 DEF CallsLeft, CallsPerTry, CallsFrom
    <3>4. CallsPerRepository = 8 + 8 * MaxRetries
      BY PerRepositoryIsNatural
    <3> DEFINE Later == CallsPerRepository * Behind'
    <3>5. Rest = Later + CallsPerRepository /\ CallsLeft' = CallsPerRepository + Later
          /\ Later \in Nat /\ CallsPerRepository \in Nat
      BY <3>2, <3>3, <3>4, PerRepositoryIsNatural
    <3> HIDE DEF Rest, Tries, Later
    <3> QED
      BY <1>1, <1>2, <3>5
  <2> QED
    BY <2>1, <2>2, <2>3
<1> QED
  BY <1>4, <1>5, <1>6, CallEnds

\* A failure ends the run or takes a retry.
LEMMA ClassifyUsesUp ==
    ASSUME IInv, IInv', ClassifyFailure
    PROVE  CallsLeft' < CallsLeft
<1> DEFINE Rest == CallsPerRepository * Behind
           Tries == 8 * (MaxRetries - retries)
<1>1. at = "classify"
  BY DEF ClassifyFailure
<1>2. /\ Rest \in Nat /\ CallsLeft = CallsFrom[at] + Tries + Rest
      /\ CallsFrom[at] \in 1 .. 8 /\ retries \in 0 .. MaxRetries /\ MaxRetries \in Nat
  BY <1>1, LeftInHand
<1>3. Tries \in Nat
  BY <1>2
<1>4. CASE at' = "rest"
  <2>1. CallsLeft' = 0
    BY <1>4 DEF CallsLeft
  <2> HIDE DEF Rest, Tries
  <2> QED
    BY <1>2, <1>3, <2>1
<1>5. CASE at' = ResumeAt(delivered) /\ retries' = retries + 1
  <2>1. delivered \in 0 .. 2
    BY <1>1 DEF IInv, TypeOK, ProgressInv
  <2>2. at' \in CallSteps /\ UNCHANGED <<repo, pending>>
    BY <1>5, <2>1, ResumeIsBehind DEF ClassifyFailure, runVars, CallSteps
  <2>3. retries' \in 0 .. MaxRetries /\ CallsFrom[at'] \in 1 .. 8
    BY <2>2, CallsFromType DEF IInv, TypeOK
  <2>4. CallsLeft' = CallsFrom[at'] + 8 * (MaxRetries - retries') + Rest
    BY <2>2 DEF CallsLeft, Behind, CallsPerTry, CallSteps
  <2>5. Tries = 8 * (MaxRetries - retries') + 8
    BY <1>2, <1>5, <2>3
  <2> HIDE DEF Rest, Tries
  <2> QED
    BY <1>2, <1>3, <2>3, <2>4, <2>5
<1> QED
  BY <1>4, <1>5 DEF ClassifyFailure

\* What the process does uses up calls; while it runs nobody else adds any.
LEMMA EveryStepUsesUp ==
    IInv /\ IInv' /\ [Next]_vars =>
        [at # "rest" => CallsLeft' <= CallsLeft /\ (Process => CallsLeft' < CallsLeft)]_vars
<1> SUFFICES ASSUME IInv, IInv', [Next]_vars, at # "rest", ~ UNCHANGED vars
             PROVE  CallsLeft' <= CallsLeft /\ (Process => CallsLeft' < CallsLeft)
  OBVIOUS
<1>1. CallsLeft \in Nat /\ CallsLeft' \in Nat
  <2>1. RunBound \in Nat
    BY PerRepositoryIsNatural DEF RunBound
  <2> QED
    BY <2>1, LeftIsBounded, LeftIsBoundedNext DEF BoundInv
<1>2. CASE CheckTarget
  BY <1>1, <1>2, CheckTargetUsesUp
<1>3. CASE Publication
  BY <1>1, <1>3, CallUsesUp
<1>4. CASE ClassifyFailure
  BY <1>1, <1>4, ClassifyUsesUp
<1>5. CASE Die
  <2>1. CallsLeft' = 0
    BY <1>5 DEF Die, CallsLeft
  <2>2. CallsLeft > 0
    BY LeftIsPositive
  <2> QED
    BY <1>1, <2>1, <2>2
<1>6. CASE Review /\ ~ Process
  <2>1. UNCHANGED <<at, repo, pending, retries>>
    BY <1>6 DEF Review, runVars, failureVars
  <2>2. CallsLeft' = CallsLeft
    BY <2>1 DEF CallsLeft, Behind
  <2> QED
    BY <1>1, <1>6, <2>2
<1>7. ~ (Bootstrap \/ Reenter \/ RemoveWorkspaces)
  BY DEF Bootstrap, Reenter, RemoveWorkspaces
<1> QED
  BY <1>2, <1>3, <1>4, <1>5, <1>6, <1>7 DEF Next, Process

\* A command about n repositories makes at most n * (9 + 8 * MaxRetries)
\* steps: what is left of that is used up by every step of the process,
\* whatever fails, and nobody adds to it before the run has ended.
THEOREM RunsAreBounded ==
    Spec => /\ [](CallsLeft \in 0 .. RunBound)
            /\ [][at # "rest" => /\ CallsLeft' <= CallsLeft
                                 /\ Process => CallsLeft' < CallsLeft]_vars
<1>1. IInv => CallsLeft \in 0 .. RunBound
  BY LeftIsBounded
<1>2. IInv /\ IInv' /\ [Next]_vars =>
        [at # "rest" => CallsLeft' <= CallsLeft /\ (Process => CallsLeft' < CallsLeft)]_vars
  BY EveryStepUsesUp
<1> QED
  BY <1>1, <1>2, Invariant, PTL DEF Spec

===============================================================================
