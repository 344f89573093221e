--------------------------- MODULE ThreadsSafety ---------------------------
(* Proofs about overlapping commands, for any number of commands, any       *)
(* repositories and any orders.                                             *)
EXTENDS Threads, FiniteSetTheorems, TLAPS

Whole(state) ==
    /\ state.pending \cap state.completed = {}
    /\ state.pending \cup state.completed = Repos
    /\ state.repo \in state.pending \cup {NoRepo} \/ state.pending = {}

\* The commands spread their states without regard for each other, so every
\* state a command has in memory must be as good as the latest checkpoint.
Sound(state) ==
    /\ state \in RemediationStates
    /\ Whole(state)
    /\ \A r \in state.completed : pushed[r] # Unpublished

IInv ==
    /\ TypeOK
    /\ Sound(latest)
    /\ \A c \in Commands : Sound(memory[c])

-----------------------------------------------------------------------------

LEMMA InitInv == Init => IInv
<1> SUFFICES ASSUME Init PROVE IInv
  OBVIOUS
<1>1. Bootstrapped \in RemediationStates /\ Whole(Bootstrapped) /\ Bootstrapped.completed = {}
  BY ThreadsAssumption DEF Bootstrapped, RemediationStates, Nodes, Stages, Repos, Whole
<1>2. 0 \in 0 .. MaxEdits
  BY ThreadsAssumption
<1>3. TypeOK
  BY <1>1, <1>2 DEF Init, TypeOK, Positions, Clean
<1> QED
  BY <1>1, <1>3 DEF Init, IInv, Sound

\* An update lays no ledger field over the latest checkpoint.
LEMMA ReviewedSound ==
    ASSUME NEW state, Sound(state), NEW snapshot \in RemediationStates, NEW decision
    PROVE  Sound(Reviewed(state, snapshot, decision))
<1> DEFINE after == Reviewed(state, snapshot, decision)
<1>1. after \in RemediationStates
  <2>1. DecisionStage(snapshot) \in Stages
    BY DEF DecisionStage, Stages
  <2>2. ApprovedBy(snapshot, decision) \in SUBSET Stages
    BY <2>1 DEF ApprovedBy, RemediationStates
  <2> DEFINE node == CASE decision = "reject" -> "END"
                       [] decision = "approve" /\ DecisionStage(snapshot) = "delivery"
                            -> "publish_remediation"
                       [] OTHER -> "lane"
  <2>3. node \in Nodes
    BY DEF Nodes
  <2> HIDE DEF node
  <2>4. after = [state EXCEPT
                  !.status = IF decision = "approve" THEN "in_progress" ELSE "failed",
                  !.stage = NoStage,
                  !.approvals = ApprovedBy(snapshot, decision), !.next = node]
    BY DEF Reviewed, node
  <2> QED
    BY <2>2, <2>3, <2>4 DEF Sound, RemediationStates
<1>2. /\ after.pending = state.pending /\ after.completed = state.completed
      /\ after.repo = state.repo
  BY DEF Sound, RemediationStates, Reviewed
<1> QED
  BY <1>1, <1>2 DEF Sound, Whole

\* Completing a repository in hand moves it from one side to the other.
LEMMA PublishedSound ==
    ASSUME NEW state \in RemediationStates, Whole(state), state.repo # NoRepo
    PROVE  /\ Published(state) \in RemediationStates
           /\ Whole(Published(state))
           /\ Published(state).completed = state.completed \cup {state.repo}
<1>1. state.repo \in Repos
  BY DEF RemediationStates
<1>2. CASE state.pending \ {state.repo} = {}
  BY <1>1, <1>2 DEF RemediationStates, Published, Whole, Nodes, Stages
<1>3. CASE state.pending \ {state.repo} # {}
  BY <1>1, <1>3 DEF RemediationStates, Published, Whole, Nodes, Stages
<1> QED
  BY <1>2, <1>3

\* A checkpoint of a sound state keeps the invariant while nothing that was
\* pushed is taken back.
LEMMA CheckpointInv ==
    ASSUME IInv, NEW c \in Commands, NEW state, Checkpoint(c, state),
           state \in RemediationStates, Whole(state),
           \A r \in state.completed : pushed'[r] # Unpublished,
           \A r \in Repos : pushed[r] # Unpublished => pushed'[r] # Unpublished,
           clone' \in [Repos -> 0 .. MaxEdits],
           pushed' \in [Repos -> (0 .. MaxEdits) \cup {Unpublished}],
           edits' \in 0 .. MaxEdits, green' \subseteq 1 .. MaxEdits
    PROVE  IInv'
<1> USE DEF IInv, TypeOK, Checkpoint
<1>1. Sound(state)'
  BY DEF Sound, Whole
<1>2. ASSUME NEW d \in Commands PROVE Sound(memory[d])'
  BY <1>1 DEF Sound, Whole, RemediationStates
<1> QED
  BY <1>1, <1>2 DEF Sound

\* The commands themselves.
LEMMA CommandInv ==
    ASSUME IInv, NEW c \in Commands, Read(c) \/ Update(c) \/ Invoke(c) \/ Abort(c)
    PROVE  IInv'
<1> USE DEF IInv, TypeOK, Move, outside, Positions
<1>1. CASE Read(c) \/ Invoke(c)
  <2>1. /\ latest' = latest /\ clone' = clone /\ pushed' = pushed /\ edits' = edits
        /\ green' = green /\ order' = order /\ memory' = [memory EXCEPT ![c] = latest]
    BY <1>1 DEF Read, Invoke
  <2>2. pc' \in [Commands -> Positions] /\ overlapped' \in BOOLEAN
    BY <1>1 DEF Read, Invoke
  <2>3. Sound(latest)' /\ \A d \in Commands : Sound(memory[d])'
    BY <2>1 DEF Sound, Whole
  <2> QED
    BY <2>1, <2>2, <2>3
<1>2. CASE Update(c)
  <2>1. Sound(latest)'
    BY <1>2, ReviewedSound DEF Update, Sound, Whole
  <2> QED
    BY <1>2, <2>1 DEF Update, Sound, Whole
<1>3. CASE Abort(c)
  <2> DEFINE after(node) == [memory[c] EXCEPT !.status = "failed", !.next = node]
  <2>1. PICK node \in NextAgain(memory[c]) : latest' = after(node)
    BY <1>3 DEF Abort
  <2>2. node \in Nodes
    BY DEF NextAgain, Successors, Nodes, IInv, TypeOK, RemediationStates
  <2>3. after(node) \in RemediationStates
    BY <2>2 DEF RemediationStates, Sound
  <2>4. /\ after(node).pending = memory[c].pending /\ after(node).completed = memory[c].completed
        /\ after(node).repo = memory[c].repo
    BY DEF RemediationStates, Sound
  <2>5. Sound(after(node))
    BY <2>3, <2>4 DEF Sound, Whole
  <2> QED
    BY <1>3, <2>1, <2>5 DEF Abort, Sound, Whole
<1> QED
  BY <1>1, <1>2, <1>3

\* The supersteps that leave the ledger alone.
LEMMA NodeInv ==
    ASSUME IInv, NEW c \in Commands,
           Plan(c) \/ RunLane(c) \/ ValidationPasses(c) \/ ValidationFails(c) \/ PublishFails(c)
    PROVE  IInv'
<1> DEFINE state == memory[c]
<1>1. state \in RemediationStates /\ Whole(state) /\ \A r \in state.completed : pushed[r] # Unpublished
  BY DEF IInv, Sound
<1> DEFINE Kept(after) == /\ after \in RemediationStates
                          /\ after.pending = state.pending /\ after.completed = state.completed
                          /\ after.repo = state.repo \/ after.repo \in state.pending
<1>2. ASSUME NEW after, Checkpoint(c, after), Kept(after), pushed' = pushed,
             clone' \in [Repos -> 0 .. MaxEdits], edits' \in 0 .. MaxEdits,
             green' \subseteq 1 .. MaxEdits
      PROVE  IInv'
  <2>1. Whole(after)
    BY <1>1, <1>2 DEF Whole
  <2> QED
    BY <1>1, <1>2, <2>1, CheckpointInv DEF IInv, TypeOK
<1>3. clone \in [Repos -> 0 .. MaxEdits] /\ edits \in 0 .. MaxEdits /\ green \subseteq 1 .. MaxEdits
  BY DEF IInv, TypeOK
<1> HIDE DEF Kept
<1>4. CASE Plan(c)
  <2>1. PICK repo \in state.pending :
          Checkpoint(c, IF repo \in Gated
                        THEN [state EXCEPT !.repo = repo, !.status = "pending",
                                           !.stage = "remediation", !.next = "review"]
                        ELSE [state EXCEPT !.repo = repo, !.next = "lane"])
    BY <1>4 DEF Plan
  <2>2. /\ Kept([state EXCEPT !.repo = repo, !.status = "pending",
                              !.stage = "remediation", !.next = "review"])
        /\ Kept([state EXCEPT !.repo = repo, !.next = "lane"])
    BY <1>1 DEF Kept, RemediationStates, Nodes, Stages
  <2> QED
    BY <1>2, <1>3, <1>4, <2>1, <2>2 DEF Plan, outside
<1>5. CASE RunLane(c)
  <2>1. Kept([state EXCEPT !.next = "validate_remediation"])
    BY <1>1 DEF Kept, RemediationStates, Nodes
  <2>2. edits + 1 \in 0 .. MaxEdits
    BY <1>3, <1>5, ThreadsAssumption DEF RunLane
  <2>3. /\ clone' \in [Repos -> 0 .. MaxEdits] /\ edits' \in 0 .. MaxEdits
        /\ green' \subseteq 1 .. MaxEdits /\ pushed' = pushed
    BY <1>3, <1>5, <2>2 DEF RunLane
  <2> QED
    BY <1>2, <1>5, <2>1, <2>3 DEF RunLane
<1>6. CASE ValidationPasses(c)
  <2> DEFINE then == AfterValidation(state)
  <2>1. then \in Nodes
    BY DEF AfterValidation, Nodes
  <2>2. /\ Kept([state EXCEPT !.status = "pending", !.stage = "delivery", !.next = then])
        /\ Kept([state EXCEPT !.status = "in_progress", !.next = then])
    BY <1>1, <2>1 DEF Kept, RemediationStates, Stages
  <2>3. state.repo \in Repos
    BY <1>1, <1>6 DEF RemediationStates, ValidationPasses, InHand
  <2>4. {clone[state.repo]} \ {Clean} \subseteq 1 .. MaxEdits
    BY <1>3, <2>3, ThreadsAssumption DEF Clean
  <2>5. green' \subseteq 1 .. MaxEdits /\ clone' = clone /\ edits' = edits /\ pushed' = pushed
    BY <1>3, <1>6, <2>4 DEF ValidationPasses
  <2> QED
    BY <1>2, <1>3, <1>6, <2>2, <2>5 DEF ValidationPasses
<1>7. CASE ValidationFails(c)
  <2>1. Kept([state EXCEPT !.status = "failed", !.next = "END"])
    BY <1>1 DEF Kept, RemediationStates, Nodes
  <2>2. state.repo \in Repos => AtHead(state.repo) \in 0 .. MaxEdits
    BY ThreadsAssumption DEF AtHead, Clean, IInv, TypeOK
  <2>3. /\ clone' \in [Repos -> 0 .. MaxEdits]
        /\ edits' = edits /\ green' = green /\ pushed' = pushed
    BY <1>3, <1>7, <2>2 DEF ValidationFails
  <2> QED
    BY <1>2, <1>3, <1>7, <2>1, <2>3 DEF ValidationFails
<1>8. CASE PublishFails(c)
  <2>1. Kept([state EXCEPT !.status = "failed", !.next = "END"])
    BY <1>1 DEF Kept, RemediationStates, Nodes
  <2> QED
    BY <1>2, <1>3, <1>8, <2>1 DEF PublishFails, outside
<1> QED
  BY <1>4, <1>5, <1>6, <1>7, <1>8

LEMMA NextInv == IInv /\ [Next]_vars => IInv'
<1> SUFFICES ASSUME IInv, [Next]_vars PROVE IInv'
  OBVIOUS
<1>1. ASSUME NEW c \in Commands, Publish(c) PROVE IInv'
  <2>1. memory[c] \in RemediationStates /\ Whole(memory[c]) /\ memory[c].repo # NoRepo
    BY <1>1 DEF IInv, Sound, Publish, InHand
  <2>2. /\ pushed' \in [Repos -> (0 .. MaxEdits) \cup {Unpublished}]
        /\ pushed'[memory[c].repo] # Unpublished
        /\ \A r \in Repos : pushed[r] # Unpublished => pushed'[r] # Unpublished
    <3>1. memory[c].repo \in Repos
      BY <2>1 DEF RemediationStates
    <3> QED
      BY <1>1, <3>1 DEF Publish, IInv, TypeOK, Unpublished
  <2>3. /\ Published(memory[c]) \in RemediationStates /\ Whole(Published(memory[c]))
        /\ Published(memory[c]).completed = memory[c].completed \cup {memory[c].repo}
    BY <2>1, PublishedSound
  <2>4. \A r \in Published(memory[c]).completed : pushed'[r] # Unpublished
    BY <2>1, <2>2, <2>3 DEF IInv, Sound, RemediationStates
  <2> QED
    BY <1>1, <2>2, <2>3, <2>4, CheckpointInv DEF Publish, IInv, TypeOK
<1>2. ASSUME NEW c \in Commands, Return(c) PROVE IInv'
  BY <1>2 DEF Return, Move, outside, IInv, TypeOK, Sound, Whole, Positions
<1>3. ASSUME NEW c \in Commands, Dies(c) PROVE IInv'
  <2>1. clone' \in [Repos -> 0 .. MaxEdits] /\ edits' \in 0 .. MaxEdits
    BY <1>3, ThreadsAssumption DEF Dies, IInv, TypeOK
  <2> QED
    BY <1>3, <2>1 DEF Dies, IInv, TypeOK, Sound, Whole, Positions
<1>4. ASSUME NEW c \in Commands, InvariantFails(c) PROVE IInv'
  <2> DEFINE after == [latest EXCEPT !.status = "failed", !.next = "END"]
  <2>1. /\ after \in RemediationStates
        /\ after.pending = latest.pending /\ after.completed = latest.completed
        /\ after.repo = latest.repo
    BY DEF IInv, TypeOK, RemediationStates, Nodes
  <2>2. Sound(after)
    BY <2>1 DEF IInv, Sound, Whole
  <2> QED
    BY <1>4, <2>2 DEF InvariantFails, Move, outside, IInv, TypeOK, Sound, Whole, Positions
<1>5. CASE UNCHANGED vars
  BY <1>5 DEF vars, IInv, TypeOK, Sound, Whole
<1> QED
  BY <1>1, <1>2, <1>3, <1>4, <1>5, CommandInv, NodeInv DEF Next, Superstep

-----------------------------------------------------------------------------

\* Every variable of the thread keeps its type.
THEOREM ThreadTypeCorrect == Spec => []TypeOK
<1>1. IInv => TypeOK
  BY DEF IInv
<1> QED
  BY <1>1, InitInv, NextInv, PTL DEF Spec

\* Whatever commands overlap, no repository is lost from the ledger and none
\* is on both sides of it.
THEOREM LedgerStaysWhole == Spec => []LedgerIsWhole
<1>1. IInv => LedgerIsWhole
  BY DEF IInv, Sound, Whole, LedgerIsWhole
<1> QED
  BY <1>1, InitInv, NextInv, PTL DEF Spec

\* A completed repository had its publication, by whichever command.
THEOREM CompletionIsEarned == Spec => []CompletedWasPushed
<1>1. IInv => CompletedWasPushed
  BY DEF IInv, Sound, CompletedWasPushed
<1> QED
  BY <1>1, InitInv, NextInv, PTL DEF Spec

-----------------------------------------------------------------------------
(* Commands that never overlap.  The thread is then whatever the one that   *)
(* is under way has in memory, and a commit is near only where the clone    *)
(* holds what `mvn verify` passed on: a killed lane leaves the thread       *)
(* before the lane, and no order given there leads past validation.         *)

Verified(repo) == clone[repo] \in green

CommitIsNear(state) ==
    state.repo \in Repos /\ (state.next = "publish_remediation" \/ state.stage = "delivery")

\* What is validated has been edited.
Edited(state) ==
    state.repo \in Repos /\ state.next = "validate_remediation" => clone[state.repo] # Clean

SerialInv ==
    ~ overlapped =>
        /\ \A c, d \in Commands : UnderWay(c) /\ UnderWay(d) => c = d
        /\ \A c \in Commands : pc[c] \in {"read", "running"} => memory[c] = latest
        /\ latest.stage = "delivery" => latest.next = "review"
        /\ CommitIsNear(latest) => Verified(latest.repo)
        /\ Edited(latest)
        /\ \A r \in Repos : pushed[r] \in green \cup {Unpublished}

\* A new thread awaits the approval of its remediation.
LEMMA InitSerial == Init => SerialInv
BY DEF Init, SerialInv, Bootstrapped, UnderWay, CommitIsNear, Edited

\* A command that starts alone reads the thread, an order lays its outcome
\* over what was read, and an abort keeps what is next or escalates.
LEMMA CommandSerial ==
    ASSUME IInv, SerialInv, NEW c \in Commands, Read(c) \/ Update(c) \/ Invoke(c) \/ Abort(c)
    PROVE  SerialInv'
<1> SUFFICES ASSUME ~ overlapped' PROVE SerialInv'
  BY DEF SerialInv
<1> USE DEF SerialInv, CommitIsNear, Verified, Edited, UnderWay, Move, outside, IInv, TypeOK, Positions
<1>1. CASE Read(c)
  BY <1>1 DEF Read
<1>2. CASE Invoke(c)
  BY <1>2 DEF Invoke
<1>3. CASE Update(c)
  <2>1. ~ overlapped /\ memory[c] = latest
    BY <1>3 DEF Update
  <2>2. CASE latest' = latest
    BY <1>3, <2>1, <2>2 DEF Update
  <2>3. CASE latest' = Reviewed(latest, latest, order[c])
    <3>1. /\ latest'.stage = NoStage /\ latest'.repo = latest.repo
          /\ latest'.next # "validate_remediation"
          /\ latest'.next = "publish_remediation" => latest.stage = "delivery"
      BY <2>3 DEF Reviewed, DecisionStage, RemediationStates
    <3> QED
      BY <1>3, <2>1, <3>1 DEF Update, NoStage
  <2> QED
    BY <1>3, <2>1, <2>2, <2>3 DEF Update
<1>4. CASE Abort(c)
  <2>1. ~ overlapped /\ memory[c] = latest
    BY <1>4 DEF Abort
  <2>2. PICK node \in NextAgain(latest) :
          latest' = [latest EXCEPT !.status = "failed", !.next = node]
    BY <1>4, <2>1 DEF Abort
  <2>3. node \in {latest.next, "END"} /\ (latest.next = "review" => node = "review")
    BY DEF NextAgain, Successors
  <2>4. latest'.stage = latest.stage /\ latest'.repo = latest.repo /\ latest'.next = node
    BY <2>2 DEF RemediationStates
  <2> QED
    BY <1>4, <2>1, <2>3, <2>4 DEF Abort
<1> QED
  BY <1>1, <1>2, <1>3, <1>4

\* A checkpoint of the only command under way, of a state that is near a
\* commit only when its clone is verified.
LEMMA CheckpointSerial ==
    ASSUME IInv, SerialInv, NEW c \in Commands, pc[c] = "running", NEW state,
           Checkpoint(c, state),
           ~ overlapped =>
               /\ state.stage = "delivery" => state.next = "review"
               /\ CommitIsNear(state) => clone'[state.repo] \in green'
               /\ Edited(state)'
               /\ \A r \in Repos : pushed'[r] \in green' \cup {Unpublished}
    PROVE  SerialInv'
<1> SUFFICES ASSUME ~ overlapped' PROVE SerialInv'
  BY DEF SerialInv
<1> USE DEF SerialInv, UnderWay, Checkpoint, IInv, TypeOK, Positions
<1>1. \A d \in Commands : pc'[d] \in {"read", "running"} => memory'[d] = latest'
  <2> SUFFICES ASSUME NEW d \in Commands, pc[d] \in {"read", "running"}
               PROVE  memory'[d] = latest'
    OBVIOUS
  <2>1. d = c
    OBVIOUS
  <2> QED
    BY <2>1
<1>2. (CommitIsNear(latest)' => Verified(latest.repo)') /\ Edited(latest)'
  BY DEF CommitIsNear, Verified, Edited
<1> QED
  BY <1>1, <1>2

\* The nodes before publication: validation alone brings a commit near.
LEMMA NodeSerial ==
    ASSUME IInv, SerialInv, NEW c \in Commands,
           Plan(c) \/ RunLane(c) \/ ValidationPasses(c) \/ ValidationFails(c) \/ PublishFails(c)
    PROVE  SerialInv'
<1> DEFINE state == memory[c]
<1>1. state \in RemediationStates /\ clone \in [Repos -> 0 .. MaxEdits] /\ pc[c] = "running"
  BY DEF IInv, TypeOK, Sound, Plan, RunLane, ValidationPasses, ValidationFails, PublishFails, At
<1>2. ~ overlapped => /\ state.stage = "delivery" => state.next = "review"
                      /\ CommitIsNear(state) => Verified(state.repo)
                      /\ Edited(state)
                      /\ \A r \in Repos : pushed[r] \in green \cup {Unpublished}
  BY <1>1 DEF SerialInv
<1>3. CASE Plan(c)
  <2>1. PICK repo \in state.pending :
          Checkpoint(c, IF repo \in Gated
                        THEN [state EXCEPT !.repo = repo, !.status = "pending",
                                           !.stage = "remediation", !.next = "review"]
                        ELSE [state EXCEPT !.repo = repo, !.next = "lane"])
    BY <1>3 DEF Plan
  <2> DEFINE after == IF repo \in Gated
                      THEN [state EXCEPT !.repo = repo, !.status = "pending",
                                         !.stage = "remediation", !.next = "review"]
                      ELSE [state EXCEPT !.repo = repo, !.next = "lane"]
  <2>2. ~ overlapped => /\ after.stage # "delivery"
                        /\ after.next \notin {"publish_remediation", "validate_remediation"}
    BY <1>1, <1>2, <1>3 DEF Plan, At, RemediationStates
  <2>3. pushed' = pushed /\ green' = green
    BY <1>3 DEF Plan, outside
  <2> HIDE DEF after
  <2>4. Checkpoint(c, after)
    BY <2>1 DEF after
  <2> QED
    BY <1>1, <1>2, <2>2, <2>3, <2>4, CheckpointSerial DEF CommitIsNear, Edited
<1>4. CASE RunLane(c)
  <2> DEFINE after == [state EXCEPT !.next = "validate_remediation"]
  <2>1. ~ overlapped => after.stage # "delivery" /\ after.next # "publish_remediation"
    BY <1>1, <1>2, <1>4 DEF RunLane, At, RemediationStates
  <2>2. pushed' = pushed /\ green' = green /\ Checkpoint(c, after)
    BY <1>4 DEF RunLane
  <2>3. state.repo \in Repos /\ after.repo = state.repo
    BY <1>1, <1>4 DEF RunLane, InHand, RemediationStates
  <2>4. clone'[state.repo] # Clean
    BY <1>1, <1>4, <2>3 DEF RunLane, Clean, IInv, TypeOK
  <2> HIDE DEF after
  <2> QED
    BY <1>1, <1>2, <2>1, <2>2, <2>3, <2>4, CheckpointSerial DEF CommitIsNear, Edited
<1>5. CASE ValidationPasses(c)
  <2> DEFINE node == AfterValidation(state)
             after == IF node = "review"
                      THEN [state EXCEPT !.status = "pending", !.stage = "delivery",
                                         !.next = node]
                      ELSE [state EXCEPT !.status = "in_progress", !.next = node]
  <2>1. state.repo \in Repos /\ after.repo = state.repo
    BY <1>1, <1>5 DEF ValidationPasses, InHand, RemediationStates
  <2>2. /\ Checkpoint(c, after) /\ clone' = clone /\ pushed' = pushed
        /\ green' = green \cup ({clone[state.repo]} \ {Clean})
    BY <1>5 DEF ValidationPasses
  <2>3. ~ overlapped => (after.stage = "delivery" => after.next = "review")
    BY <1>1, <1>2, <1>5 DEF ValidationPasses, At, RemediationStates
  <2>4. after.next # "validate_remediation"
    BY <1>1 DEF AfterValidation, RemediationStates
  <2> HIDE DEF after
  <2>5. ~ overlapped => clone'[after.repo] \in green'
    <3>1. ~ overlapped => clone[state.repo] # Clean
      BY <1>2, <1>5, <2>1 DEF ValidationPasses, At, Edited
    <3> QED
      BY <2>1, <2>2, <3>1
  <2> QED
    BY <1>1, <1>2, <2>2, <2>3, <2>4, <2>5, CheckpointSerial DEF Edited
<1>6. CASE ValidationFails(c)
  <2> DEFINE after == [state EXCEPT !.status = "failed", !.next = "END"]
  <2>1. ~ overlapped => /\ after.stage # "delivery"
                        /\ after.next \notin {"publish_remediation", "validate_remediation"}
    BY <1>1, <1>2, <1>6 DEF ValidationFails, At, RemediationStates
  <2>2. pushed' = pushed /\ green' = green /\ Checkpoint(c, after)
    BY <1>6 DEF ValidationFails
  <2> HIDE DEF after
  <2> QED
    BY <1>1, <1>2, <2>1, <2>2, CheckpointSerial DEF CommitIsNear, Edited
<1>7. CASE PublishFails(c)
  <2> DEFINE after == [state EXCEPT !.status = "failed", !.next = "END"]
  <2>1. ~ overlapped => /\ after.stage # "delivery"
                        /\ after.next \notin {"publish_remediation", "validate_remediation"}
    BY <1>1, <1>2, <1>7 DEF PublishFails, At, RemediationStates
  <2>2. pushed' = pushed /\ green' = green /\ Checkpoint(c, after)
    BY <1>7 DEF PublishFails, outside
  <2> HIDE DEF after
  <2> QED
    BY <1>1, <1>2, <2>1, <2>2, CheckpointSerial DEF CommitIsNear, Edited
<1> QED
  BY <1>3, <1>4, <1>5, <1>6, <1>7

\* Publication pushes what the clone holds; whoever stops leaves the thread
\* as it is, and only a killed lane an edit in the clone.
LEMMA NextSerial == IInv /\ SerialInv /\ [Next]_vars => SerialInv'
<1> SUFFICES ASSUME IInv, SerialInv, [Next]_vars PROVE SerialInv'
  OBVIOUS
<1>1. ASSUME NEW c \in Commands, Publish(c) PROVE SerialInv'
  <2> DEFINE state == memory[c]
             after == Published(state)
  <2>1. /\ state \in RemediationStates /\ pc[c] = "running" /\ state.repo \in Repos
        /\ clone \in [Repos -> 0 .. MaxEdits]
        /\ pushed \in [Repos -> (0 .. MaxEdits) \cup {Unpublished}]
    BY <1>1 DEF IInv, TypeOK, Sound, Publish, At, InHand, RemediationStates
  <2>2. ~ overlapped => Verified(state.repo) /\ \A r \in Repos : pushed[r] \in green \cup {Unpublished}
    BY <1>1, <2>1 DEF SerialInv, Publish, At, CommitIsNear
  <2>3. /\ Checkpoint(c, after) /\ clone' = clone /\ green' = green
        /\ pushed' = [pushed EXCEPT ![state.repo] = clone[state.repo]]
    BY <1>1 DEF Publish
  <2>4. after.stage # "delivery" /\ after.next \notin {"publish_remediation", "validate_remediation"}
    <3>1. CASE state.pending \ {state.repo} = {}
      BY <2>1, <3>1 DEF Published, RemediationStates, NoStage
    <3>2. CASE state.pending \ {state.repo} # {}
      BY <2>1, <3>2 DEF Published, RemediationStates, NoStage
    <3> QED
      BY <3>1, <3>2
  <2>5. ~ overlapped => \A r \in Repos : pushed'[r] \in green' \cup {Unpublished}
    BY <2>1, <2>2, <2>3 DEF Verified
  <2> HIDE DEF after
  <2> QED
    BY <2>1, <2>3, <2>4, <2>5, CheckpointSerial DEF CommitIsNear, Edited
<1>2. ASSUME NEW c \in Commands, Return(c) PROVE SerialInv'
  BY <1>2 DEF Return, Move, outside, IInv, TypeOK, Positions, SerialInv, CommitIsNear, Verified,
              Edited, UnderWay
<1>3. ASSUME NEW c \in Commands, Dies(c) PROVE SerialInv'
  <2> SUFFICES ASSUME ~ overlapped' PROVE SerialInv'
    BY DEF SerialInv
  <2>1. memory[c] = latest /\ ~ overlapped
    BY <1>3 DEF Dies, SerialInv
  <2>2. CommitIsNear(latest) \/ latest.next = "validate_remediation" => clone' = clone
    BY <1>3, <2>1 DEF Dies, SerialInv, CommitIsNear
  <2>3. latest' = latest /\ memory' = memory /\ green' = green /\ pushed' = pushed
    BY <1>3 DEF Dies
  <2>4. \A d \in Commands : pc'[d] \in {pc[d], "done"}
    BY <1>3 DEF Dies, IInv, TypeOK
  <2> QED
    BY <2>1, <2>2, <2>3, <2>4 DEF SerialInv, CommitIsNear, Verified, Edited, UnderWay
<1>4. ASSUME NEW c \in Commands, InvariantFails(c) PROVE SerialInv'
  <2> SUFFICES ASSUME ~ overlapped' PROVE SerialInv'
    BY DEF SerialInv
  <2>1. memory[c] = latest /\ ~ overlapped
    BY <1>4 DEF InvariantFails, Move, SerialInv
  <2>2. latest.next # "review"
    BY <1>4, <2>1 DEF InvariantFails
  <2>3. latest'.stage # "delivery" /\ latest'.next = "END"
    BY <1>4, <2>1, <2>2 DEF InvariantFails, SerialInv, IInv, TypeOK, RemediationStates
  <2>4. /\ \A d \in Commands : pc'[d] \in {pc[d], "done"}
        /\ pc'[c] = "done" /\ memory' = memory /\ pushed' = pushed /\ green' = green
    BY <1>4 DEF InvariantFails, Move, outside, IInv, TypeOK
  <2>5. \A d \in Commands : ~ UnderWay(d)'
    BY <1>4, <2>1, <2>4 DEF InvariantFails, Move, SerialInv, UnderWay
  <2> QED
    BY <2>1, <2>3, <2>4, <2>5 DEF SerialInv, CommitIsNear, Edited, UnderWay
<1>5. CASE UNCHANGED vars
  BY <1>5 DEF vars, SerialInv, CommitIsNear, Verified, Edited, UnderWay
<1> QED
  BY <1>1, <1>2, <1>3, <1>4, <1>5, CommandSerial, NodeSerial DEF Next, Superstep

\* Commands given one after the other, however many and whichever of them
\* were killed on the way, publish only edits `mvn verify` passed on.
THEOREM SerialCommandsPublishVerified == Spec => []SerialCommandsAreSafe
<1>1. SerialInv => SerialCommandsAreSafe
  BY DEF SerialInv, SerialCommandsAreSafe
<1> QED
  BY <1>1, InitInv, NextInv, InitSerial, NextSerial, PTL DEF Spec

-----------------------------------------------------------------------------
(***************************************************************************)
(* How long a command may be: its own calls before the run, and for every  *)
(* repository that is pending in its memory the nodes from the plan to the *)
(* publication.                                                            *)
(***************************************************************************)
NodesFrom ==
    [detect_maven_profile |-> 4, lane |-> 3, validate_remediation |-> 2,
     publish_remediation |-> 1, review |-> 0, END |-> 0]

NodesLeft(state) == 4 * Cardinality(state.pending) + NodesFrom[state.next]

CommandBound == 4 * NumRepos + 8

StepsLeft(c) ==
    CASE pc[c] = "idle"    -> CommandBound
      [] pc[c] = "read"    -> CommandBound - 1
      [] pc[c] = "updated" -> CommandBound - 2
      [] pc[c] = "running" -> NodesLeft(memory[c]) + 1
      [] OTHER             -> 0

\* The plan node is never left without a repository to take in hand, not even
\* by an abort that asks a node for its successor on outdated fields.
Plannable(state) == state.next = "detect_maven_profile" => state.pending # {}

PlanInv == Plannable(latest) /\ \A c \in Commands : Plannable(memory[c])

\* A step of command c, of its process or of who kills it.
StepOf(c) == Read(c) \/ Update(c) \/ Invoke(c) \/ Abort(c) \/ Superstep(c) \/ Dies(c)

CommandsProgress ==
    \A c \in Commands : StepsLeft(c)' <= StepsLeft(c) /\ (StepOf(c) => StepsLeft(c)' < StepsLeft(c))

LEMMA PendingIsFinite ==
    ASSUME NEW repos \in SUBSET Repos
    PROVE  IsFiniteSet(repos) /\ Cardinality(repos) \in 0 .. NumRepos
<1>1. IsFiniteSet(Repos) /\ Cardinality(Repos) = NumRepos
  BY ThreadsAssumption, FS_Interval DEF Repos
<1>2. IsFiniteSet(repos) /\ Cardinality(repos) <= NumRepos
  BY <1>1, FS_Subset
<1> QED
  BY <1>2, FS_CardinalityType, ThreadsAssumption

LEMMA NodesLeftType ==
    ASSUME NEW state \in RemediationStates
    PROVE  /\ NodesFrom[state.next] \in 0 .. 4 /\ Cardinality(state.pending) \in 0 .. NumRepos
           /\ NodesLeft(state) \in 0 .. CommandBound - 4 /\ NumRepos \in Nat
<1>1. state.pending \in SUBSET Repos /\ state.next \in Nodes
  BY DEF RemediationStates
<1>2. NodesFrom[state.next] \in 0 .. 4
  BY <1>1 DEF Nodes, NodesFrom
<1>3. Cardinality(state.pending) \in 0 .. NumRepos
  BY <1>1, PendingIsFinite
<1> QED
  BY <1>2, <1>3, ThreadsAssumption DEF NodesLeft, CommandBound

LEMMA StepsLeftType == IInv => \A c \in Commands : StepsLeft(c) \in 0 .. CommandBound
<1> SUFFICES ASSUME IInv, NEW c \in Commands PROVE StepsLeft(c) \in 0 .. CommandBound
  OBVIOUS
<1>1. memory[c] \in RemediationStates /\ NumRepos \in Nat /\ CommandBound \in Nat
      /\ CommandBound >= 8
  BY ThreadsAssumption DEF IInv, TypeOK, CommandBound
<1>2. NodesLeft(memory[c]) \in 0 .. CommandBound - 4
  BY <1>1, NodesLeftType
<1> QED
  BY <1>1, <1>2 DEF StepsLeft

\* A node either goes on to a later node with the same repositories pending,
\* or takes one off and starts over.
LEMMA NodesDescend ==
    ASSUME NEW state \in RemediationStates, NEW after \in RemediationStates,
           \/ after.pending = state.pending /\ NodesFrom[after.next] < NodesFrom[state.next]
           \/ /\ state.repo \in state.pending /\ after.pending = state.pending \ {state.repo}
              /\ NodesFrom[state.next] >= 1
    PROVE  NodesLeft(after) < NodesLeft(state)
<1>1. /\ NodesFrom[state.next] \in 0 .. 4 /\ NodesFrom[after.next] \in 0 .. 4
      /\ Cardinality(state.pending) \in Nat /\ Cardinality(after.pending) \in Nat
  BY NodesLeftType
<1>2. CASE after.pending = state.pending /\ NodesFrom[after.next] < NodesFrom[state.next]
  BY <1>1, <1>2 DEF NodesLeft
<1>3. CASE /\ state.repo \in state.pending /\ after.pending = state.pending \ {state.repo}
           /\ NodesFrom[state.next] >= 1
  <2>1. IsFiniteSet(state.pending)
    BY PendingIsFinite DEF RemediationStates
  <2>2. Cardinality(after.pending) = Cardinality(state.pending) - 1
    BY <1>3, <2>1, FS_RemoveElement
  <2> QED
    BY <1>1, <1>3, <2>2 DEF NodesLeft
<1> QED
  BY <1>2, <1>3

\* Every node that returns a checkpoint brings its command nearer to its end.
LEMMA CheckpointDescends ==
    ASSUME IInv, NEW c \in Commands,
           \/ Plan(c) \/ RunLane(c) \/ ValidationPasses(c) \/ ValidationFails(c)
           \/ Publish(c) \/ PublishFails(c)
    PROVE  /\ pc[c] = "running" /\ pc' = pc
           /\ \A d \in Commands \ {c} : memory'[d] = memory[d]
           /\ memory[c] \in RemediationStates /\ memory'[c] \in RemediationStates
           /\ NodesLeft(memory'[c]) < NodesLeft(memory[c])
           /\ latest' = memory'[c] /\ Plannable(memory'[c])
<1> DEFINE state == memory[c]
<1>1. /\ state \in RemediationStates /\ Whole(state) /\ memory \in [Commands -> RemediationStates]
  BY DEF IInv, TypeOK, Sound
<1>2. pc[c] = "running"
  BY DEF Plan, RunLane, ValidationPasses, ValidationFails, Publish, PublishFails, At
<1>3. ASSUME NEW after \in RemediationStates, Checkpoint(c, after), Plannable(after),
             \/ after.pending = state.pending /\ NodesFrom[after.next] < NodesFrom[state.next]
             \/ /\ state.repo \in state.pending /\ after.pending = state.pending \ {state.repo}
                /\ NodesFrom[state.next] >= 1
      PROVE  /\ pc' = pc /\ \A d \in Commands \ {c} : memory'[d] = memory[d]
             /\ memory'[c] = after /\ latest' = after
             /\ NodesLeft(after) < NodesLeft(state)
  <2>1. NodesLeft(after) < NodesLeft(state)
    BY <1>1, <1>3, NodesDescend
  <2> QED
    BY <1>1, <1>3, <2>1 DEF Checkpoint
<1> DEFINE Later(after) == /\ after \in RemediationStates /\ after.pending = state.pending
                           /\ after.next # "detect_maven_profile"
                           /\ NodesFrom[after.next] < NodesFrom[state.next]
<1>4. ASSUME NEW after, Later(after), Checkpoint(c, after)
      PROVE  /\ pc' = pc /\ \A d \in Commands \ {c} : memory'[d] = memory[d]
             /\ memory'[c] \in RemediationStates /\ latest' = memory'[c] /\ Plannable(memory'[c])
             /\ NodesLeft(memory'[c]) < NodesLeft(state)
  BY <1>3, <1>4 DEF Plannable
<1> HIDE DEF Later
<1>offsets. /\ NodesFrom["detect_maven_profile"] = 4 /\ NodesFrom["lane"] = 3
            /\ NodesFrom["validate_remediation"] = 2 /\ NodesFrom["publish_remediation"] = 1
            /\ NodesFrom["review"] = 0 /\ NodesFrom["END"] = 0
  BY DEF NodesFrom
<1>5. CASE Plan(c)
  <2>1. PICK repo \in state.pending :
          Checkpoint(c, IF repo \in Gated
                        THEN [state EXCEPT !.repo = repo, !.status = "pending",
                                           !.stage = "remediation", !.next = "review"]
                        ELSE [state EXCEPT !.repo = repo, !.next = "lane"])
    BY <1>5 DEF Plan
  <2>2. state.next = "detect_maven_profile"
    BY <1>5 DEF Plan, At
  <2> DEFINE gated == [state EXCEPT !.repo = repo, !.status = "pending",
                                    !.stage = "remediation", !.next = "review"]
             free == [state EXCEPT !.repo = repo, !.next = "lane"]
  <2>3. /\ gated \in RemediationStates /\ free \in RemediationStates
        /\ gated.pending = state.pending /\ free.pending = state.pending
        /\ gated.next = "review" /\ free.next = "lane"
    BY <1>1 DEF RemediationStates, Nodes, Stages
  <2>4. Later(gated) /\ Later(free)
    <3> HIDE DEF gated, free, state
    <3> QED
      BY <1>offsets, <2>2, <2>3 DEF Later
  <2> QED
    BY <1>1, <1>2, <1>4, <2>1, <2>4
<1>6. CASE RunLane(c)
  <2>1. Later([state EXCEPT !.next = "validate_remediation"])
    BY <1>1, <1>6 DEF RunLane, At, Later, RemediationStates, Nodes, NodesFrom
  <2> QED
    BY <1>1, <1>2, <1>4, <1>6, <2>1 DEF RunLane
<1>7. CASE ValidationPasses(c)
  <2> DEFINE then == AfterValidation(state)
  <2>1. then \in {"publish_remediation", "review"} /\ state.next = "validate_remediation"
    BY <1>7 DEF AfterValidation, ValidationPasses, At
  <2> DEFINE asked == [state EXCEPT !.status = "pending", !.stage = "delivery", !.next = then]
             free == [state EXCEPT !.status = "in_progress", !.next = then]
  <2>2. /\ asked \in RemediationStates /\ free \in RemediationStates
        /\ asked.pending = state.pending /\ free.pending = state.pending
        /\ asked.next = then /\ free.next = then
    <3> HIDE DEF then
    <3> QED
      BY <1>1, <2>1 DEF RemediationStates, Nodes, Stages
  <2>3. Later(asked) /\ Later(free)
    <3> HIDE DEF asked, free, then, state
    <3> QED
      BY <1>offsets, <2>1, <2>2 DEF Later
  <2> QED
    BY <1>1, <1>2, <1>4, <1>7, <2>3 DEF ValidationPasses
<1>8. CASE ValidationFails(c) \/ PublishFails(c)
  <2> DEFINE ended == [state EXCEPT !.status = "failed", !.next = "END"]
  <2>1. ended \in RemediationStates /\ ended.pending = state.pending /\ ended.next = "END"
    BY <1>1 DEF RemediationStates, Nodes
  <2>2. state.next \in {"validate_remediation", "publish_remediation"}
    BY <1>8 DEF ValidationFails, PublishFails, At
  <2>3. Later(ended)
    <3> HIDE DEF ended, state
    <3> QED
      BY <1>offsets, <2>1, <2>2 DEF Later
  <2> QED
    BY <1>1, <1>2, <1>4, <1>8, <2>3 DEF ValidationFails, PublishFails
<1>9. CASE Publish(c)
  <2> DEFINE after == Published(state)
  <2>1. state.next = "publish_remediation" /\ state.repo # NoRepo /\ Checkpoint(c, after)
    BY <1>9 DEF Publish, At, InHand
  <2>2. after \in RemediationStates
    BY <1>1, <2>1, PublishedSound
  <2>3. CASE state.pending \ {state.repo} = {}
    <3>1. after.pending = {} /\ after.next = "END"
      BY <1>1, <2>3 DEF Published, RemediationStates
    <3>2. \/ after.pending = state.pending
          \/ state.repo \in state.pending /\ after.pending = state.pending \ {state.repo}
      BY <2>3, <3>1
    <3>3. NodesFrom[after.next] = 0 /\ NodesFrom[state.next] = 1 /\ Plannable(after)
      BY <2>1, <3>1 DEF NodesFrom, Plannable
    <3> HIDE DEF after
    <3> QED
      BY <1>1, <1>2, <1>3, <2>1, <2>2, <3>2, <3>3
  <2>4. CASE state.pending \ {state.repo} # {}
    <3>1. after.pending = state.pending \ {state.repo}
      BY <1>1, <2>4 DEF Published, RemediationStates
    <3>2. state.repo \in state.pending /\ NodesFrom[state.next] = 1 /\ Plannable(after)
      BY <1>1, <2>1, <2>4, <3>1 DEF Whole, NodesFrom, Plannable
    <3> HIDE DEF after
    <3> QED
      BY <1>1, <1>2, <1>3, <2>1, <2>2, <2>4, <3>1, <3>2
  <2> QED
    BY <2>3, <2>4
<1> QED
  BY <1>5, <1>6, <1>7, <1>8, <1>9

\* The plan node stays with something to plan: only the state that is
\* published leads there.
LEMMA PlanInvKept == IInv /\ PlanInv /\ [Next]_vars => PlanInv'
<1> SUFFICES ASSUME IInv, PlanInv, [Next]_vars PROVE PlanInv'
  OBVIOUS
<1>1. latest \in RemediationStates /\ memory \in [Commands -> RemediationStates]
  BY DEF IInv, TypeOK
<1>2. ASSUME NEW c \in Commands, Read(c) \/ Invoke(c) PROVE PlanInv'
  BY <1>1, <1>2 DEF Read, Invoke, PlanInv, Plannable
<1>3. ASSUME NEW c \in Commands, Update(c) PROVE PlanInv'
  <2>1. Reviewed(latest, memory[c], order[c]).next # "detect_maven_profile"
    <3> DEFINE node == CASE order[c] = "reject" -> "END"
                         [] order[c] = "approve" /\ DecisionStage(memory[c]) = "delivery"
                              -> "publish_remediation"
                         [] OTHER -> "lane"
    <3>1. Reviewed(latest, memory[c], order[c]).next = node
      BY <1>1 DEF Reviewed, RemediationStates
    <3> QED
      BY <3>1
  <2> QED
    BY <1>1, <1>3, <2>1 DEF Update, PlanInv, Plannable
<1>4. ASSUME NEW c \in Commands, Abort(c) PROVE PlanInv'
  <2>1. PICK node \in NextAgain(memory[c]) :
          latest' = [memory[c] EXCEPT !.status = "failed", !.next = node]
    BY <1>4 DEF Abort
  <2>2. latest'.next = node /\ latest'.pending = memory[c].pending
    BY <1>1, <2>1 DEF RemediationStates
  <2>3. node # "detect_maven_profile"
    BY <2>1 DEF NextAgain, Successors
  <2> QED
    BY <1>4, <2>2, <2>3 DEF Abort, PlanInv, Plannable
<1>5. ASSUME NEW c \in Commands,
             \/ Plan(c) \/ RunLane(c) \/ ValidationPasses(c) \/ ValidationFails(c)
             \/ Publish(c) \/ PublishFails(c)
      PROVE  PlanInv'
  <2>1. latest' = memory'[c] /\ Plannable(memory'[c])
        /\ \A d \in Commands \ {c} : memory'[d] = memory[d]
    BY <1>5, CheckpointDescends
  <2> QED
    BY <2>1 DEF PlanInv, Plannable
<1>6. ASSUME NEW c \in Commands, InvariantFails(c) PROVE PlanInv'
  BY <1>1, <1>6 DEF InvariantFails, PlanInv, Plannable, RemediationStates
<1>7. ASSUME NEW c \in Commands, Return(c) \/ Dies(c) PROVE PlanInv'
  BY <1>7 DEF Return, Dies, PlanInv, Plannable
<1>8. CASE UNCHANGED vars
  BY <1>8 DEF vars, PlanInv, Plannable
<1> QED
  BY <1>2, <1>3, <1>4, <1>5, <1>6, <1>7, <1>8 DEF Next, Superstep

\* A command's own step, and what it leaves alone of the others.
LEMMA StepDescends ==
    ASSUME IInv, NEW c \in Commands, StepOf(c)
    PROVE  /\ StepsLeft(c)' < StepsLeft(c)
           /\ \A d \in Commands \ {c} : StepsLeft(d)' = StepsLeft(d)
<1>1. /\ memory \in [Commands -> RemediationStates] /\ latest \in RemediationStates
      /\ pc \in [Commands -> Positions]
      /\ CommandBound \in Nat /\ CommandBound >= 8
  BY ThreadsAssumption DEF IInv, TypeOK, CommandBound
<1>2. \A state \in RemediationStates : NodesLeft(state) \in 0 .. CommandBound - 4
  BY NodesLeftType
<1>3. ASSUME NEW d \in Commands, pc'[d] = pc[d], memory'[d] = memory[d]
      PROVE  StepsLeft(d)' = StepsLeft(d)
  BY <1>3 DEF StepsLeft, NodesLeft
<1>4. ASSUME NEW from, NEW to, Move(c, from, to)
      PROVE  pc[c] = from /\ pc'[c] = to /\ \A d \in Commands \ {c} : pc'[d] = pc[d]
  BY <1>1, <1>4 DEF Move
<1>5. CASE Read(c)
  <2>1. /\ pc[c] = "idle" /\ pc'[c] = "read" /\ \A d \in Commands \ {c} : pc'[d] = pc[d]
    BY <1>4, <1>5 DEF Read
  <2>2. \A d \in Commands \ {c} : memory'[d] = memory[d]
    BY <1>1, <1>5 DEF Read
  <2>3. StepsLeft(c) = CommandBound /\ StepsLeft(c)' = CommandBound - 1
    BY <2>1 DEF StepsLeft, CommandBound
  <2> QED
    BY <1>1, <1>3, <2>1, <2>2, <2>3
<1>6. CASE Update(c) \/ Abort(c)
  <2>1. /\ pc[c] = "read" /\ pc'[c] \in {"updated", "done"}
        /\ \A d \in Commands \ {c} : pc'[d] = pc[d]
    BY <1>4, <1>6 DEF Update, Abort
  <2>2. memory' = memory
    BY <1>6 DEF Update, Abort
  <2>3. StepsLeft(c) = CommandBound - 1 /\ StepsLeft(c)' \in {CommandBound - 2, 0}
    BY <2>1 DEF StepsLeft, CommandBound
  <2> QED
    BY <1>1, <1>3, <2>1, <2>2, <2>3
<1>7. CASE Invoke(c)
  <2>1. /\ pc[c] = "updated" /\ pc'[c] = "running" /\ \A d \in Commands \ {c} : pc'[d] = pc[d]
    BY <1>4, <1>7 DEF Invoke
  <2>2. memory'[c] = latest /\ \A d \in Commands \ {c} : memory'[d] = memory[d]
    BY <1>1, <1>7 DEF Invoke
  <2>3. StepsLeft(c) = CommandBound - 2 /\ StepsLeft(c)' = NodesLeft(latest) + 1
    BY <2>1, <2>2 DEF StepsLeft, CommandBound, NodesLeft
  <2> QED
    BY <1>1, <1>2, <1>3, <2>1, <2>2, <2>3
<1>8. CASE InvariantFails(c) \/ Return(c) \/ Dies(c)
  <2>1. /\ pc[c] = "running" /\ pc'[c] = "done" /\ \A d \in Commands \ {c} : pc'[d] = pc[d]
    BY <1>1, <1>4, <1>8 DEF InvariantFails, Return, Dies
  <2>2. memory' = memory
    BY <1>8 DEF InvariantFails, Return, Dies
  <2>3. StepsLeft(c) = NodesLeft(memory[c]) + 1 /\ StepsLeft(c)' = 0
    BY <2>1 DEF StepsLeft
  <2>4. NodesLeft(memory[c]) \in Nat
    BY <1>1, NodesLeftType
  <2> QED
    BY <1>3, <2>1, <2>2, <2>3, <2>4
<1>9. CASE \/ Plan(c) \/ RunLane(c) \/ ValidationPasses(c) \/ ValidationFails(c)
           \/ Publish(c) \/ PublishFails(c)
  <2>1. /\ pc[c] = "running" /\ pc' = pc
        /\ \A d \in Commands \ {c} : memory'[d] = memory[d]
        /\ memory[c] \in RemediationStates /\ memory'[c] \in RemediationStates
        /\ NodesLeft(memory'[c]) < NodesLeft(memory[c])
    BY <1>9, CheckpointDescends
  <2>2. StepsLeft(c) = NodesLeft(memory[c]) + 1 /\ StepsLeft(c)' = NodesLeft(memory'[c]) + 1
    BY <2>1 DEF StepsLeft, NodesLeft
  <2>3. NodesLeft(memory[c]) \in 0 .. CommandBound - 4
        /\ NodesLeft(memory'[c]) \in 0 .. CommandBound - 4
    BY <1>2, <2>1
  <2> QED
    BY <1>1, <1>3, <2>1, <2>2, <2>3
<1> QED
  BY <1>5, <1>6, <1>7, <1>8, <1>9 DEF StepOf, Superstep

StepsInv == \A c \in Commands : StepsLeft(c) \in 0 .. CommandBound

LEMMA StepsLeftTypeNext == IInv' => StepsInv'
<1>1. IInv => StepsInv
  BY StepsLeftType DEF StepsInv
<1> QED
  BY <1>1, PTL

LEMMA EveryStepProgresses == IInv /\ IInv' /\ [Next]_vars => [CommandsProgress]_vars
<1> SUFFICES ASSUME IInv, IInv', Next PROVE CommandsProgress
  OBVIOUS
<1>1. \A d \in Commands : StepsLeft(d) \in Nat
  BY StepsLeftType, ThreadsAssumption DEF CommandBound
<1>2. PICK c \in Commands : StepOf(c)
  BY DEF Next, StepOf
<1>3. ASSUME NEW d \in Commands
      PROVE  StepsLeft(d)' <= StepsLeft(d) /\ (StepOf(d) => StepsLeft(d)' < StepsLeft(d))
  <2>1. StepOf(d) => StepsLeft(d)' < StepsLeft(d)
    BY StepDescends
  <2>2. StepsLeft(d)' < StepsLeft(d) \/ StepsLeft(d)' = StepsLeft(d)
    BY <1>2, StepDescends
  <2>3. StepsLeft(d)' \in Nat
    BY StepsLeftTypeNext, ThreadsAssumption DEF StepsInv, CommandBound
  <2> QED
    BY <1>1, <2>1, <2>2, <2>3
<1> QED
  BY <1>3 DEF CommandsProgress

\* However the commands overlap and whoever writes the thread in between, a
\* command makes at most 4 * NumRepos + 8 steps: each of its own uses one up,
\* no other command gives any back, and the plan node never waits for a
\* repository that is not there.
THEOREM CommandsAreBounded ==
    Spec => /\ [](\A c \in Commands : StepsLeft(c) \in 0 .. CommandBound)
            /\ []PlanInv
            /\ [][CommandsProgress]_vars
<1>1. Init => PlanInv
  BY DEF Init, PlanInv, Plannable, Bootstrapped
<1> QED
  BY <1>1, InitInv, NextInv, PlanInvKept, StepsLeftType, EveryStepProgresses, PTL DEF Spec

=============================================================================
