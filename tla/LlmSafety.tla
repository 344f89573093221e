----------------------------- MODULE LlmSafety -----------------------------
(* Proofs about model calls, for any budgets and costs.                     *)
EXTENDS LlmRepair, TLAPS

\* The calls a node has made that neither a record nor a loss accounts for.
Outstanding ==
    CASE pc \in {"idle", "call"} -> 0
      [] pc \in {"parse", "retry"} -> 1
      [] OTHER -> 2

CallsInv ==
    /\ pc \in Steps
    /\ llmCalls \in Seq(TokenCounts) /\ made \in Nat /\ lost \in Nat
    /\ pc \notin {"idle", "call"} => cost \in TokenCounts
    /\ made <= 2 * (Len(llmCalls) + lost) + Outstanding

-----------------------------------------------------------------------------

LEMMA InitInv == Init => CallsInv
BY DEF Init, CallsInv, Outstanding, Steps

\* A loss accounts for the two calls a node may have made.
LEMMA LostInv ==
    ASSUME CallsInv, Lost,
           \/ made' = made
           \/ made' = made + 1 /\ pc \in {"call", "parse", "retry"}
    PROVE  CallsInv'
<1>1. llmCalls' = llmCalls /\ lost' = lost + 1 /\ pc' = "idle"
  BY DEF Lost, recorded
<1>2. Len(llmCalls) \in Nat
  BY DEF CallsInv
<1>3. made' <= 2 * (Len(llmCalls) + lost) + 2 /\ made' \in Nat
  BY <1>2 DEF CallsInv, Outstanding, Steps
<1> QED
  BY <1>1, <1>2, <1>3 DEF CallsInv, Outstanding, Steps

LEMMA NextInv == CallsInv /\ [Next]_vars => CallsInv'
<1> SUFFICES ASSUME CallsInv, [Next]_vars PROVE CallsInv'
  OBVIOUS
<1>len. Len(llmCalls) \in Nat
  BY DEF CallsInv
<1> USE DEF CallsInv, Outstanding, Steps, Call, Uncalled
<1>1. CASE StartRepair
  BY <1>1, <1>len DEF StartRepair, recorded
<1>2. CASE CallModel
  BY <1>2, <1>len, LostInv DEF CallModel, recorded
<1>3. CASE ParseAnswer
  BY <1>3, <1>len DEF ParseAnswer, recorded
<1>4. CASE RetryOnce
  BY <1>4, <1>len, LostInv DEF RetryOnce, recorded
<1>5. CASE EnforceTokenBudget
  BY <1>5, <1>len, LostInv DEF EnforceTokenBudget, recorded
<1>6. CASE RefusePatch
  BY <1>6, LostInv DEF RefusePatch
<1>7. CASE RecordProposal
  <2>1. cost \in TokenCounts => Len(llmCalls') = Len(llmCalls) + 1 /\ llmCalls' \in Seq(TokenCounts)
    BY <1>7 DEF RecordProposal
  <2> QED
    BY <1>7, <1>len, <2>1 DEF RecordProposal
<1>8. CASE Killed
  BY <1>8, LostInv DEF Killed
<1>9. CASE UNCHANGED vars
  BY <1>9 DEF vars, recorded
<1> QED
  BY <1>1, <1>2, <1>3, <1>4, <1>5, <1>6, <1>7, <1>8, <1>9 DEF Next

-----------------------------------------------------------------------------

\* A ticket makes no more than two calls for each record and each loss.
THEOREM CallsStayBounded == Spec => []CallsAreBounded
<1>1. CallsInv => CallsAreBounded
  <2> SUFFICES ASSUME CallsInv PROVE CallsAreBounded
    OBVIOUS
  <2>1. Len(llmCalls) \in Nat
    BY DEF CallsInv
  <2> QED
    BY <2>1 DEF CallsInv, CallsAreBounded, Busy, Outstanding, Steps
<1> QED
  BY <1>1, InitInv, NextInv, PTL DEF Spec

-----------------------------------------------------------------------------

\* The budgets are checked before a repair calls and before it is recorded;
\* in between nothing else records.
TypeInv ==
    /\ TypeOK
    /\ pc # "idle" => Len(llmCalls) < MaxCalls
    /\ pc \notin {"idle", "call"} => cost \in TokenCounts
    /\ pc = "limits" => tokensUsed + cost <= MaxTokens

\* Every step keeps the types and the budgets.
LEMMA NextType == TypeInv /\ [Next]_vars => TypeInv'
<1> SUFFICES ASSUME TypeInv, [Next]_vars PROVE TypeInv'
  OBVIOUS
<1>len. Len(llmCalls) \in Nat
  BY DEF TypeInv, TypeOK
<1> USE LlmAssumption DEF TypeInv, TypeOK, Steps, LlmAssumption, recorded, Call, Uncalled
<1>lost. ASSUME Lost, made' \in Nat, spent' \in Nat PROVE TypeInv'
  <2>1. lost' \in 0 .. MaxLosses
    BY <1>lost DEF Lost
  <2> QED
    BY <1>lost, <2>1 DEF Lost
<1>1. CASE StartRepair
  BY <1>1 DEF StartRepair, WithinCallBudget
<1>2. CASE CallModel
  <2>1. \A tokens \in TokenCounts \cup {0} : tokens \in Nat
    OBVIOUS
  <2>2. CASE Lost /\ \E tokens \in TokenCounts \cup {0} : Call(tokens)
    <3>1. made' \in Nat /\ spent' \in Nat
      BY <2>1, <2>2
    <3> QED
      BY <2>2, <3>1, <1>lost
  <2>3. CASE cost' \in TokenCounts /\ Call(cost') /\ pc' = "parse" /\ UNCHANGED <<recorded, lost>>
    <3>1. cost' \in TokenCounts \cup {0}
      BY <2>3
    <3>2. cost' \in Nat
      BY <2>1, <3>1
    <3>3. made' = made + 1 /\ spent' = spent + cost'
      BY <2>3
    <3>4. made' \in Nat /\ spent' \in Nat
      <4>1. \A a, b \in Nat : a + b \in Nat
        OBVIOUS
      <4>2. made \in Nat /\ spent \in Nat
        OBVIOUS
      <4> QED
        BY <3>2, <3>3, <4>1, <4>2
    <3> QED
      BY <1>2, <2>3, <3>4 DEF CallModel
  <2> QED
    BY <1>2, <2>2, <2>3 DEF CallModel
<1>3. CASE ParseAnswer
  BY <1>3 DEF ParseAnswer
<1>4. CASE RetryOnce
  BY <1>4, <1>lost DEF RetryOnce
<1>5. CASE EnforceTokenBudget
  <2>1. CASE tokensUsed + cost > MaxTokens
    BY <1>5, <2>1, <1>lost DEF EnforceTokenBudget
  <2>2. CASE ~ (tokensUsed + cost > MaxTokens)
    BY <1>5, <2>2 DEF EnforceTokenBudget
  <2> QED
    BY <2>1, <2>2
<1>6. CASE RefusePatch
  BY <1>6, <1>lost DEF RefusePatch
<1>7. CASE RecordProposal
  <2>1. llmCalls' \in Seq(TokenCounts) /\ Len(llmCalls') = Len(llmCalls) + 1
    BY <1>7 DEF RecordProposal
  <2>3. tokensUsed' \in 0 .. MaxTokens
    BY <1>7 DEF RecordProposal
  <2>4. Len(llmCalls') <= MaxCalls
    BY <1>7, <1>len, <2>1 DEF RecordProposal
  <2>5. pc' = "idle" /\ cost' = 0 /\ UNCHANGED <<made, spent, lost>>
    BY <1>7 DEF RecordProposal
  <2> QED
    BY <2>1, <2>3, <2>4, <2>5
<1>8. CASE Killed
  BY <1>8, <1>lost DEF Killed
<1>9. CASE UNCHANGED vars
  BY <1>9 DEF vars
<1> QED
  BY <1>1, <1>2, <1>3, <1>4, <1>5, <1>6, <1>7, <1>8, <1>9 DEF Next

\* The initial states are typed.
LEMMA InitType == Init => TypeInv
<1> SUFFICES ASSUME Init PROVE TypeInv
  OBVIOUS
<1>1. llmCalls \in Seq(TokenCounts) /\ Len(llmCalls) = 0
  BY DEF Init
<1>2. 0 \in 0 .. MaxTokens /\ 0 \in 0 .. MaxLosses /\ 0 <= MaxCalls
  BY LlmAssumption
<1> QED
  BY <1>1, <1>2 DEF Init, TypeInv, TypeOK, Steps

\* The recorded calls and tokens stay within their budgets, whatever repairs
\* raise or die.
THEOREM LlmTypeCorrect == Spec => []TypeOK
<1>1. TypeInv => TypeOK
  BY DEF TypeInv
<1> QED
  BY <1>1, InitType, NextType, PTL DEF Spec

-----------------------------------------------------------------------------

\* What the recorded repairs and the ones without a record may have cost beside
\* the recorded tokens.
Allowance == MaxCost * (Len(llmCalls) + 2 * lost)

\* What the repair in progress has cost at most: the retry is paid for before
\* the budget is looked at.
Pending ==
    CASE pc \in {"idle", "call"} -> 0
      [] pc \in {"parse", "retry"} -> cost
      [] OTHER -> cost + MaxCost

TokensInv == spent <= tokensUsed + Allowance + Pending

\* The allowance grows by one call for a record and by two for a loss.
LEMMA AllowanceGrows ==
    ASSUME TypeInv
    PROVE  /\ Allowance \in Nat
           /\ MaxCost * (Len(llmCalls) + 1 + 2 * lost) = Allowance + MaxCost
           /\ MaxCost * (Len(llmCalls) + 2 * (lost + 1)) = Allowance + 2 * MaxCost
<1>1. MaxCost \in Nat /\ Len(llmCalls) \in Nat /\ lost \in Nat
  BY LlmAssumption DEF TypeInv, TypeOK
<1>2. \A x, y, z \in Nat : /\ x * (y + 2 * z) \in Nat
                           /\ x * (y + 1 + 2 * z) = x * (y + 2 * z) + x
                           /\ x * (y + 2 * (z + 1)) = x * (y + 2 * z) + 2 * x
  OBVIOUS
<1> QED
  BY <1>1, <1>2 DEF Allowance

\* Every step pays for the calls it makes or gives up.
LEMMA NextTokens == TypeInv /\ TokensInv /\ [Next]_vars => TokensInv'
<1> SUFFICES ASSUME TypeInv, TokensInv, [Next]_vars PROVE TokensInv'
  OBVIOUS
<1>nat. MaxCost \in Nat /\ Allowance \in Nat /\ tokensUsed \in Nat /\ spent \in Nat
  BY AllowanceGrows, LlmAssumption DEF TypeInv, TypeOK
<1>cost. \A tokens \in TokenCounts \cup {0} : tokens \in Nat /\ tokens <= MaxCost
  BY LlmAssumption
<1>pending. Pending \in Nat /\ Pending <= 2 * MaxCost /\ (pc \in {"idle", "call"} => Pending = 0)
            /\ (pc \in {"parse", "retry"} => Pending <= MaxCost)
  BY <1>nat, <1>cost DEF Pending, TypeInv, TypeOK, Steps
<1>kept. UNCHANGED <<llmCalls, lost>> => Allowance' = Allowance
  BY DEF Allowance
<1>lost. ASSUME Lost, spent' \in Nat,
                \/ spent' = spent
                \/ /\ pc \in {"call", "retry"}
                   /\ \E tokens \in TokenCounts \cup {0} : spent' = spent + tokens
         PROVE  TokensInv'
  <2>1. UNCHANGED <<llmCalls, tokensUsed>> /\ lost' = lost + 1 /\ pc' = "idle"
    BY <1>lost DEF Lost, recorded
  <2>2. Allowance' = Allowance + 2 * MaxCost
    BY <2>1, AllowanceGrows DEF Allowance
  <2>3. spent' <= tokensUsed + Allowance + 2 * MaxCost
    BY <1>lost, <1>nat, <1>cost, <1>pending DEF TokensInv
  <2>4. Pending' = 0
    BY <2>1 DEF Pending
  <2> QED
    BY <2>1, <2>2, <2>3, <2>4, <1>nat DEF TokensInv
<1> USE <1>nat, <1>cost DEF recorded, Call, Uncalled, Steps, TypeInv, TypeOK
<1>1. CASE StartRepair
  BY <1>1, <1>kept DEF StartRepair, TokensInv, Pending
<1>2. CASE CallModel
  <2>1. CASE Lost
    BY <1>2, <2>1, <1>lost DEF CallModel
  <2>2. CASE cost' \in TokenCounts /\ Call(cost') /\ pc' = "parse" /\ UNCHANGED <<recorded, lost>>
    BY <1>2, <2>2, <1>kept DEF CallModel, TokensInv, Pending
  <2> QED
    BY <1>2, <2>1, <2>2 DEF CallModel
<1>3. CASE ParseAnswer
  BY <1>3, <1>kept DEF ParseAnswer, TokensInv, Pending
<1>4. CASE RetryOnce
  <2>1. CASE Lost
    BY <1>4, <2>1, <1>lost DEF RetryOnce
  <2>2. CASE ~ Lost
    BY <1>4, <2>2, <1>kept DEF RetryOnce, TokensInv, Pending
  <2> QED
    BY <2>1, <2>2
<1>5. CASE EnforceTokenBudget
  <2>1. CASE tokensUsed + cost > MaxTokens
    BY <1>5, <2>1, <1>lost DEF EnforceTokenBudget
  <2>2. CASE ~ (tokensUsed + cost > MaxTokens)
    BY <1>5, <2>2, <1>kept DEF EnforceTokenBudget, TokensInv, Pending
  <2> QED
    BY <2>1, <2>2
<1>6. CASE RefusePatch
  BY <1>6, <1>lost DEF RefusePatch
<1>7. CASE RecordProposal
  <2>1. Len(llmCalls') = Len(llmCalls) + 1 /\ lost' = lost
    BY <1>7 DEF RecordProposal
  <2>2. Allowance' = Allowance + MaxCost
    BY <2>1, AllowanceGrows DEF Allowance
  <2>3. Pending = cost + MaxCost /\ Pending' = 0
    BY <1>7 DEF RecordProposal, Pending
  <2>4. tokensUsed' = tokensUsed + cost /\ spent' = spent /\ cost \in Nat
    BY <1>7 DEF RecordProposal
  <2> QED
    BY <2>2, <2>3, <2>4 DEF TokensInv
<1>8. CASE Killed
  BY <1>8, <1>lost DEF Killed
<1>9. CASE UNCHANGED vars
  BY <1>9, <1>kept DEF vars, TokensInv, Pending
<1> QED
  BY <1>1, <1>2, <1>3, <1>4, <1>5, <1>6, <1>7, <1>8, <1>9 DEF Next

\* A ticket pays for its recorded tokens, one dropped retry of each record and
\* two calls of each repair without one, and for nothing else.
THEOREM TokensStayBounded == Spec => []TokensAreBounded
<1>1. Init => TypeInv /\ TokensInv
  <2> SUFFICES ASSUME Init PROVE TokensInv
    BY InitType
  <2>1. Allowance \in Nat
    BY InitType, AllowanceGrows
  <2> QED
    BY <2>1 DEF Init, TokensInv, Pending
<1>2. TypeInv /\ TokensInv => TokensAreBounded
  <2> SUFFICES ASSUME TypeInv, TokensInv PROVE TokensAreBounded
    OBVIOUS
  <2>1. MaxCost \in Nat /\ Allowance \in Nat /\ tokensUsed <= MaxTokens
        /\ tokensUsed \in Nat /\ MaxTokens \in Nat /\ spent \in Nat
    BY AllowanceGrows, LlmAssumption DEF TypeInv, TypeOK
  <2>2. MaxCost * (Len(llmCalls) + 2 * (lost + Busy)) >= Allowance + Pending
    <3>1. CASE pc = "idle"
      <4>1. Busy = 0 /\ lost + Busy = lost /\ Pending = 0
        BY <3>1 DEF Busy, Pending, TypeInv, TypeOK
      <4> QED
        BY <4>1, <2>1 DEF Allowance
    <3>2. CASE pc # "idle"
      <4>1. Busy = 1 /\ Pending \in Nat /\ Pending <= 2 * MaxCost
        BY <3>2, <2>1, LlmAssumption DEF Busy, Pending, TypeInv, TypeOK, Steps
      <4> QED
        BY <4>1, <2>1, AllowanceGrows
    <3> QED
      BY <3>1, <3>2
  <2>3. Pending \in Nat
    BY <2>1, LlmAssumption DEF Pending, TypeInv, TypeOK, Steps
  <2>4. spent <= tokensUsed + (Allowance + Pending)
    BY <2>1, <2>3 DEF TokensInv
  <2> DEFINE bound == MaxCost * (Len(llmCalls) + 2 * (lost + Busy))
  <2>5. bound \in Nat
    BY <2>1, LlmAssumption DEF TypeInv, TypeOK, Busy
  <2>6. spent <= MaxTokens + bound
    <3> HIDE DEF bound
    <3>1. bound >= Allowance + Pending
      BY <2>2 DEF bound
    <3> QED
      BY <2>1, <2>3, <2>4, <2>5, <3>1
  <2> QED
    BY <2>6 DEF TokensAreBounded
<1>3. TypeInv /\ TokensInv /\ [Next]_vars => (TypeInv /\ TokensInv)'
  BY NextType, NextTokens
<1> QED
  BY <1>1, <1>2, <1>3, PTL DEF Spec

=============================================================================
