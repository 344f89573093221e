----------------------------- MODULE ToughPath -----------------------------
(***************************************************************************)
(* The ladder for complex migrations: the mapping of a removed symbol to   *)
(* candidates of the new API.                                              *)
(*                                                                         *)
(* A symbol is a record of its name (fqn), kind and signature; the score   *)
(* of a candidate is the set of its name's tokens, its parameter types and *)
(* its package against the removed symbol's.  Confidences are in 1/10000,  *)
(* as the code rounds them.                                                *)
(***************************************************************************)
EXTENDS SequencesExt, Integers, Ordering

Rounded(numerator, denominator) == (2 * numerator + denominator) \div (2 * denominator)

\* weight * Jaccard index.
NameScore(weight, left, right) ==
    IF left \cup right = {} THEN <<0, 1>>
    ELSE <<weight * Cardinality(left \cap right), Cardinality(left \cup right)>>

SignatureScore(weight, left, right) ==
    CASE left = <<>> /\ right = <<>> -> <<weight, 1>>
      [] Len(left) # Len(right)      -> <<0, 1>>
      [] OTHER -> <<weight * Cardinality({i \in DOMAIN left : left[i] = right[i]}), Len(left)>>

PackageScore(weight, left, right) ==
    IF left = <<>> \/ right = <<>> THEN <<0, 1>>
    ELSE <<weight * Len(LongestCommonPrefix({left, right})),
           IF Len(left) > Len(right) THEN Len(left) ELSE Len(right)>>

Plus(p, q) == <<p[1] * q[2] + q[1] * p[2], p[2] * q[2]>>

Confidence(legacy, symbol) ==
    LET score == Plus(Plus(NameScore(6000, legacy.tokens, symbol.tokens),
                           SignatureScore(3000, legacy.params, symbol.params)),
                      PackageScore(1000, legacy.package, symbol.package))
    IN  Rounded(score[1], score[2])

Candidate(legacy, symbol) == [symbol |-> symbol, confidence |-> Confidence(legacy, symbol)]

\* map_symbol: the topK candidates of the symbol's kind, the most confident
\* first, as they come in the API among equals.
MapSymbol(legacy, api, topK) ==
    LET score == [i \in DOMAIN api |-> Confidence(legacy, api[i])]
        kin == {i \in DOMAIN api : api[i].kind = legacy.kind /\ score[i] > 0}
        Before(i, j) == score[i] > score[j] \/ (score[i] = score[j] /\ i < j)
        order == InOrder(kin, {p \in kin \X kin : Before(p[1], p[2])})
    IN  [i \in 1 .. Min({topK, Cardinality(kin)}) |-> Candidate(legacy, api[order[i]])]

Clamped(confidence) ==
    IF confidence < 0 THEN 0 ELSE IF confidence > 10000 THEN 10000 ELSE confidence

\* Deviation: the model's confidence replaces the computed one.
ReconcileTrusting(candidates, llmConfidence) ==
    IF candidates = <<>> THEN candidates
    ELSE [candidates EXCEPT ![1].confidence = Clamped(llmConfidence)]

\* reconcile_with_llm_confidence: of the first candidate only; the order stays.
Reconcile(candidates, llmConfidence) ==
    IF candidates = <<>> THEN candidates
    ELSE [candidates EXCEPT ![1].confidence =
            IF Clamped(llmConfidence) < @ THEN Clamped(llmConfidence) ELSE @]

=============================================================================
