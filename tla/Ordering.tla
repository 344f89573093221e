------------------------------ MODULE Ordering ------------------------------
(* Sorting, as far as its outcome goes: the one enumeration of a finite set *)
(* in which every element comes before the later ones.  Before is a total   *)
(* order on the set, given as the set of its pairs.                         *)
EXTENDS Naturals, FiniteSets, Functions

InOrder(S, before) ==
    CHOOSE order \in Bijection(1 .. Cardinality(S), S) :
        \A i, j \in DOMAIN order : i < j => <<order[i], order[j]>> \in before

=============================================================================
