----------------------------- MODULE LlmRepair -----------------------------
(***************************************************************************)
(* The repair nodes of one ticket and the wrapper every model call goes    *)
(* through: the call budget before the call, one retry on an answer that   *)
(* is no valid JSON, the token budget and the size limits of a patch after *)
(* it.  A prompt the redaction refuses leads to no call and no record.     *)
(*                                                                         *)
(* What a node did is recorded in the ticket's state only when the node    *)
(* ends; every refusal is an exception, which ends it without.             *)
(***************************************************************************)
EXTENDS Sequences, Integers

CONSTANTS
    MaxCalls,      \* EA_MAX_LLM_CALLS_PER_TICKET
    MaxTokens,     \* EA_MAX_LLM_TOKENS_PER_TICKET
    MaxCost,       \* the most tokens one call may cost
    TokenCounts,   \* what a call may cost
    MaxLosses      \* bound: nodes that called the model and left no record

ASSUME LlmAssumption ==
    /\ MaxCalls \in Nat /\ MaxTokens \in Nat /\ MaxLosses \in Nat
    /\ MaxCost \in Nat /\ TokenCounts \subseteq 1 .. MaxCost

VARIABLES
    pc,            \* where the node is
    cost,          \* local: token_count, of the first call
    \* RemediationState
    llmCalls,      \* the token counts of llm_calls
    tokensUsed,    \* llm_tokens_used
    \* history
    made,          \* calls the model answered or failed
    spent,         \* the tokens of all of them
    lost

recorded == <<llmCalls, tokensUsed>>
vars == <<pc, cost, recorded, made, spent, lost>>

Steps == {"idle", "call", "parse", "retry", "budget", "limits"}

\* Every variable has its type, and the budgets hold of what is recorded.
TypeOK ==
    /\ pc \in Steps
    /\ cost \in TokenCounts \cup {0}
    /\ llmCalls \in Seq(TokenCounts) /\ Len(llmCalls) <= MaxCalls
    /\ tokensUsed \in 0 .. MaxTokens
    /\ made \in Nat /\ spent \in Nat /\ lost \in 0 .. MaxLosses

Init ==
    /\ pc = "idle" /\ cost = 0
    /\ llmCalls = <<>> /\ tokensUsed = 0
    /\ made = 0 /\ spent = 0 /\ lost = 0

Busy == IF pc = "idle" THEN 0 ELSE 1

\* One more call; one that fails may cost nothing.
Call(tokens) == made' = made + 1 /\ spent' = spent + tokens
Uncalled == UNCHANGED <<made, spent>>

\* The node raises after the model was called.
Lost ==
    /\ lost < MaxLosses
    /\ lost' = lost + 1
    /\ pc' = "idle" /\ cost' = 0
    /\ UNCHANGED recorded

WithinCallBudget == Len(llmCalls) < MaxCalls

StartRepair ==
    /\ pc = "idle" /\ WithinCallBudget
    /\ pc' = "call"
    /\ UNCHANGED <<cost, recorded, made, spent, lost>>

CallModel ==
    /\ pc = "call"
    /\ \/ /\ cost' \in TokenCounts /\ Call(cost')
          /\ pc' = "parse"
          /\ UNCHANGED <<recorded, lost>>
       \/ Lost /\ \E tokens \in TokenCounts \cup {0} : Call(tokens)

ParseAnswer ==
    /\ pc = "parse"
    /\ pc' \in {"budget", "retry"}
    /\ UNCHANGED <<cost, recorded, made, spent, lost>>

\* Deviation: the model is asked until it answers in valid JSON.
RetryUntilValid ==
    /\ pc = "retry"
    /\ made < 2 * (MaxCalls + MaxLosses) + 2
    /\ \E tokens \in TokenCounts : Call(tokens)
    /\ pc' \in {"retry", "budget"}
    /\ UNCHANGED <<cost, recorded, lost>>

\* The tokens of the second call are dropped; a second bad answer raises.
RetryOnce ==
    /\ pc = "retry"
    /\ \/ /\ \E tokens \in TokenCounts : Call(tokens)
          /\ pc' = "budget"
          /\ UNCHANGED <<cost, recorded, lost>>
       \/ Lost /\ \E tokens \in TokenCounts \cup {0} : Call(tokens)

\* Deviation: what this call cost is not looked at before it is recorded.
EnforceEarlierTokens ==
    /\ pc = "budget"
    /\ IF tokensUsed > MaxTokens
       THEN Lost
       ELSE pc' = "limits" /\ UNCHANGED <<cost, recorded, lost>>
    /\ Uncalled

EnforceTokenBudget ==
    /\ pc = "budget"
    /\ IF tokensUsed + cost > MaxTokens
       THEN Lost
       ELSE pc' = "limits" /\ UNCHANGED <<cost, recorded, lost>>
    /\ Uncalled

\* More than 10 files or 500 changed lines.
RefusePatch ==
    /\ pc = "limits"
    /\ Lost
    /\ Uncalled

RecordProposal ==
    /\ pc = "limits"
    /\ llmCalls' = Append(llmCalls, cost)
    /\ tokensUsed' = tokensUsed + cost
    /\ pc' = "idle" /\ cost' = 0
    /\ UNCHANGED <<made, spent, lost>>

Killed ==
    /\ pc \notin {"idle", "call"}
    /\ Lost
    /\ Uncalled

Next ==
    \/ StartRepair \/ CallModel \/ ParseAnswer \/ RetryOnce
    \/ EnforceTokenBudget \/ RefusePatch \/ RecordProposal \/ Killed

Spec == Init /\ [][Next]_vars

-----------------------------------------------------------------------------

\* What the ceiling of recorded calls is worth: a ticket makes at most two
\* calls for each record and for each node that ended without one.
CallsAreBounded ==
    made <= 2 * (Len(llmCalls) + lost + Busy)

\* What the ceiling of recorded tokens is worth: it holds of the first call of
\* every recorded repair.  On top of it the ticket pays for the dropped retry
\* of each of them, and for both calls of each repair that left no record, the
\* one the budget itself refused included.
TokensAreBounded ==
    spent <= MaxTokens + MaxCost * (Len(llmCalls) + 2 * (lost + Busy))

=============================================================================
