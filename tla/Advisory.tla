------------------------------ MODULE Advisory ------------------------------
(***************************************************************************)
(* The advisory service: the answer OSV gives for one package and version, *)
(* and the file that caches it for a day, shared by every command that     *)
(* verifies a ticket on that package.                                      *)
(*                                                                         *)
(* The file is replaced in two steps, emptied and then written, without a  *)
(* lock, and before the answer is known to be of any use.  An answer OSV   *)
(* may give is usable when parse_osv_response makes advice of it (module   *)
(* VerificationRules says when).                                           *)
(***************************************************************************)
EXTENDS Naturals

CONSTANTS
    Clients,       \* commands verifying a ticket on the package
    Answers,       \* JSON objects OSV answers with
    Usable,        \* those parse_osv_response makes advice of
    TTL,           \* cache_ttl_seconds, in ticks
    MaxChanges,    \* bound: how often OSV changes its answer
    MaxFaults      \* bound: failed requests and killed commands

ASSUME AdvisoryAssumption ==
    /\ Usable \subseteq Answers
    /\ {"none", "empty", "mixed", "not_an_object"} \cap Answers = {}
    /\ TTL \in Nat /\ MaxChanges \in Nat /\ MaxFaults \in Nat

VARIABLES
    pc,            \* where each command is in OsvAdvisoryService.query
    payload,       \* local of query
    content,       \* the cache file
    age,           \* ticks since its mtime, at most TTL + 1
    published,     \* what OSV answers now
    lag,           \* history: ticks since OSV last gave an answer, at most TTL + 1
    changes, faults

vars == <<pc, payload, content, age, published, lag, changes, faults>>

Steps == {"load", "fetch", "open", "write", "advised", "refused"}

\* What json.loads cannot read: an emptied file, and one that two commands
\* wrote over each other.
Unreadable == {"empty", "mixed"}

Ages == 0 .. TTL + 1

\* A command that is about to write holds an object, never another kind of
\* JSON value.
TypeOK ==
    /\ pc \in [Clients -> Steps]
    /\ payload \in [Clients -> Answers \cup {"none"}]
    /\ \A c \in Clients : pc[c] \in {"open", "write"} => payload[c] \in Answers
    /\ content \in Answers \cup Unreadable \cup {"none"}
    /\ age \in Ages
    /\ published \in Answers
    /\ lag \in [Answers -> Ages]
    /\ changes \in 0 .. MaxChanges /\ faults \in 0 .. MaxFaults

Init ==
    /\ pc = [c \in Clients |-> "load"]
    /\ payload = [c \in Clients |-> "none"]
    /\ content = "none" /\ age = 0
    /\ published \in Answers
    /\ lag = [a \in Answers |-> IF a = published THEN 0 ELSE TTL + 1]
    /\ changes = 0 /\ faults = 0

Goto(c, step) == pc' = [pc EXCEPT ![c] = step]

\* The end of query: advice, or the ValueError that ends the command.
Parse(c, answer) ==
    /\ Goto(c, IF answer \in Usable THEN "advised" ELSE "refused")
    /\ payload' = [payload EXCEPT ![c] = IF answer \in Usable THEN answer ELSE "none"]

Refused(c) ==
    /\ Goto(c, "refused")
    /\ payload' = [payload EXCEPT ![c] = "none"]

-----------------------------------------------------------------------------
(* One command. *)

\* Deviation: the file is read before its age is looked at.
LoadReadFirst(c) ==
    /\ pc[c] = "load"
    /\ IF content \in Unreadable THEN Refused(c)
       ELSE IF content = "none" \/ age > TTL
       THEN Goto(c, "fetch") /\ UNCHANGED payload
       ELSE Parse(c, content)
    /\ UNCHANGED <<content, age, published, lag, changes, faults>>

\* Deviation: a file on disk is current whatever its age.
LoadAgeless(c) ==
    /\ pc[c] = "load"
    /\ IF content = "none"
       THEN Goto(c, "fetch") /\ UNCHANGED payload
       ELSE IF content \in Unreadable THEN Refused(c) ELSE Parse(c, content)
    /\ UNCHANGED <<content, age, published, lag, changes, faults>>

Load(c) ==
    /\ pc[c] = "load"
    /\ IF content = "none" \/ age > TTL
       THEN Goto(c, "fetch") /\ UNCHANGED payload
       ELSE IF content \in Unreadable THEN Refused(c) ELSE Parse(c, content)
    /\ UNCHANGED <<content, age, published, lag, changes, faults>>

Fetch(c) ==
    /\ pc[c] = "fetch"
    /\ payload' = [payload EXCEPT ![c] = published]
    /\ Goto(c, "open")
    /\ UNCHANGED <<content, age, published, lag, changes, faults>>

\* No connection, a status that is an error, or an answer that is no object.
FetchFails(c) ==
    /\ pc[c] = "fetch" /\ faults < MaxFaults
    /\ faults' = faults + 1
    /\ Refused(c)
    /\ UNCHANGED <<content, age, published, lag, changes>>

OpenCache(c) ==
    /\ pc[c] = "open"
    /\ content' = "empty" /\ age' = 0
    /\ Goto(c, "write")
    /\ UNCHANGED <<payload, published, lag, changes, faults>>

\* Over a file another command has filled since, the longer text shows
\* through.
WriteCache(c) ==
    /\ pc[c] = "write"
    /\ content' \in {payload[c]} \cup
                    IF content \in {"empty", payload[c]} THEN {} ELSE {"mixed"}
    /\ age' = 0
    /\ Parse(c, payload[c])
    /\ UNCHANGED <<published, lag, changes, faults>>

Query(c) == Load(c) \/ Fetch(c) \/ OpenCache(c) \/ WriteCache(c)

Killed(c) ==
    /\ pc[c] \in {"open", "write"} /\ faults < MaxFaults
    /\ faults' = faults + 1
    /\ Refused(c)
    /\ UNCHANGED <<content, age, published, lag, changes>>

\* The operator bootstraps the ticket again.
AskAgain(c) ==
    /\ pc[c] = "refused"
    /\ Goto(c, "load")
    /\ UNCHANGED <<payload, content, age, published, lag, changes, faults>>

-----------------------------------------------------------------------------
(* OSV and the clock. *)

OsvChanges ==
    /\ changes < MaxChanges
    /\ changes' = changes + 1
    /\ published' \in Answers \ {published}
    /\ lag' = [lag EXCEPT ![published'] = 0]
    /\ UNCHANGED <<pc, payload, content, age, faults>>

OneTickOlder(ticks) == IF ticks > TTL THEN ticks ELSE ticks + 1

\* A tick is long against the moment between an answer and its writing.
Tick ==
    /\ \A c \in Clients : pc[c] \notin {"open", "write"}
    /\ age' = OneTickOlder(age)
    /\ lag' = [a \in Answers |-> IF a = published THEN 0 ELSE OneTickOlder(lag[a])]
    /\ UNCHANGED <<pc, payload, content, published, changes, faults>>

Next ==
    \/ \E c \in Clients : Query(c) \/ FetchFails(c) \/ Killed(c) \/ AskAgain(c)
    \/ OsvChanges \/ Tick

Spec == Init /\ [][Next]_vars

\* A command runs on, the operator insists, and time passes.
FairSpec ==
    /\ Spec
    /\ \A c \in Clients : WF_vars(Query(c)) /\ WF_vars(AskAgain(c))
    /\ WF_vars(Tick)

-----------------------------------------------------------------------------

\* The advice a ticket is remediated by rests on an answer that OSV itself
\* gave, unmixed, no longer than cache_ttl_seconds before, whichever commands
\* shared the file.
AdviceIsRecent ==
    [][\A c \in Clients :
        pc'[c] = "advised" /\ pc[c] # "advised" => lag[payload'[c]] <= TTL]_vars

\* An emptied, mixed or useless answer on disk is no dead end: once OSV has a
\* usable answer for good, every ticket gets its advice.
UsableAnswerArrives ==
    <>[](published \in Usable) => \A c \in Clients : <>(pc[c] = "advised")

=============================================================================
