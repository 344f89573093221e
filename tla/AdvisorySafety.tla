--------------------------- MODULE AdvisorySafety ---------------------------
(* Proofs about the advisory cache, for any number of commands, any answers *)
(* and any lifetime.                                                        *)
EXTENDS Advisory, TLAPS

\* An answer on disk is no older than the file, whoever wrote it last; one
\* that a command is about to write is of this very tick.
IInv ==
    /\ TypeOK
    /\ lag[published] = 0
    /\ content \in Answers => lag[content] <= age
    /\ \A c \in Clients : pc[c] \in {"open", "write"} => lag[payload[c]] = 0

\* Initially no file and no answer in hand.
LEMMA InitInv == Init => IInv
  BY AdvisoryAssumption DEF Init, IInv, TypeOK, Steps, Ages, Unreadable

\* Every step of a command, of OSV and of the clock keeps the invariant.
LEMMA NextInv == IInv /\ [Next]_vars => IInv'
<1> SUFFICES ASSUME IInv, [Next]_vars PROVE IInv'
  OBVIOUS
<1> USE AdvisoryAssumption DEF IInv, TypeOK, Steps, Ages, Unreadable
<1>1. ASSUME NEW c \in Clients, Load(c) PROVE IInv'
  BY <1>1 DEF Load, Goto, Refused, Parse
<1>2. ASSUME NEW c \in Clients, Fetch(c) PROVE IInv'
  BY <1>2 DEF Fetch, Goto
<1>3. ASSUME NEW c \in Clients, FetchFails(c) PROVE IInv'
  BY <1>3 DEF FetchFails, Goto, Refused
<1>4. ASSUME NEW c \in Clients, OpenCache(c) PROVE IInv'
  BY <1>4 DEF OpenCache, Goto
<1>5. ASSUME NEW c \in Clients, WriteCache(c) PROVE IInv'
  BY <1>5 DEF WriteCache, Goto, Parse
<1>6. ASSUME NEW c \in Clients, Killed(c) PROVE IInv'
  BY <1>6 DEF Killed, Goto, Refused
<1>7. ASSUME NEW c \in Clients, AskAgain(c) PROVE IInv'
  BY <1>7 DEF AskAgain, Goto
<1>8. CASE OsvChanges
  BY <1>8 DEF OsvChanges
<1>9. CASE Tick
  BY <1>9 DEF Tick, OneTickOlder
<1>10. CASE UNCHANGED vars
  BY <1>10 DEF vars
<1> QED
  BY <1>1, <1>2, <1>3, <1>4, <1>5, <1>6, <1>7, <1>8, <1>9, <1>10 DEF Next, Query

\* The advisory module's variables keep their types in every behaviour.
THEOREM AdvisoryTypeCorrect == Spec => []TypeOK
<1>1. IInv => TypeOK
  BY DEF IInv
<1> QED
  BY <1>1, InitInv, NextInv, PTL DEF Spec

\* Only Load and WriteCache end in advice: the one on a file within its
\* lifetime, the other on the answer in hand.
THEOREM AdviceRecent == Spec => AdviceIsRecent
<1> DEFINE Recent == \A c \in Clients :
                       pc'[c] = "advised" /\ pc[c] # "advised" => lag[payload'[c]] <= TTL
<1>1. IInv /\ [Next]_vars => [Recent]_vars
  <2> SUFFICES ASSUME IInv, Next, NEW c \in Clients, pc'[c] = "advised", pc[c] # "advised"
               PROVE lag[payload'[c]] <= TTL
    OBVIOUS
  <2> USE AdvisoryAssumption DEF IInv, TypeOK, Steps, Ages, Unreadable
  <2>1. PICK d \in Clients : Load(d) \/ WriteCache(d)
    BY DEF Next, Query, Fetch, FetchFails, OpenCache, Killed, AskAgain, OsvChanges, Tick,
           Goto, Refused
  <2>2. d = c
    BY <2>1 DEF Load, WriteCache, Goto, Refused, Parse
  <2>3. CASE Load(c)
    <3>1. content \in Answers /\ age <= TTL /\ payload'[c] = content
      BY <2>3 DEF Load, Goto, Refused, Parse
    <3> QED
      BY <3>1
  <2>4. CASE WriteCache(c)
    BY <2>4 DEF WriteCache, Goto, Parse
  <2> QED
    BY <2>1, <2>2, <2>3, <2>4
<1> QED
  BY <1>1, InitInv, NextInv, PTL DEF Spec, AdviceIsRecent

=============================================================================
