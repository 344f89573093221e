-------------------------- MODULE AlgorithmsSafety --------------------------
(* Proofs about the pure algorithms, for inputs of any length and shape.    *)
EXTENDS Algorithms, FiniteSetTheorems, SequenceTheorems, WellFoundedInduction, TLAPS

(* Steps. *)

\* A step applies one algorithm and says which.
LEMMA StepsName ==
    /\ Compare => algorithm' = "compare"
    /\ MatchRange => algorithm' = "range"
    /\ PickFix => algorithm' = "fix"
    /\ VerifyAdvice => algorithm' = "route"
    /\ EditPom => algorithm' = "pom"
    /\ InspectTree => algorithm' = "tree"
    /\ ScanLicenses => algorithm' = "licenses"
    /\ RewriteJava => algorithm' = "java"
    /\ MapSymbol => algorithm' = "map"
<1>1. Compare => algorithm' = "compare"
  BY DEF Compare, Apply
<1>2. MatchRange => algorithm' = "range"
  BY DEF MatchRange, Apply
<1>3. PickFix => algorithm' = "fix"
  BY DEF PickFix, Apply
<1>4. VerifyAdvice => algorithm' = "route"
  BY DEF VerifyAdvice, Apply
<1>6. EditPom => algorithm' = "pom"
  BY DEF EditPom, Apply
<1>7. InspectTree => algorithm' = "tree"
  BY DEF InspectTree, Apply
<1>8. ScanLicenses => algorithm' = "licenses"
  BY DEF ScanLicenses, Apply
<1>9. RewriteJava => algorithm' = "java"
  BY DEF RewriteJava, Apply
<1>10. MapSymbol => algorithm' = "map"
  BY DEF MapSymbol, Apply
<1> QED
  BY <1>1, <1>2, <1>3, <1>4, <1>6, <1>7, <1>8, <1>9, <1>10

-----------------------------------------------------------------------------
(* The order of versions. *)

Positions == Nat \ {0}

\* A part is a pair of integers.
LEMMA PartType ==
    ASSUME NEW v \in Seq(Pieces), NEW i \in Positions
    PROVE  VR!PartAt(v, i) \in Int \X Int
<1>1. CASE i > Len(v)
  BY <1>1 DEF VR!PartAt, Positions
<1>2. CASE i <= Len(v)
  <2> DEFINE piece == v[i]
  <2>1. piece \in Pieces
    BY <1>2 DEF Positions
  <2>2. VR!PartAt(v, i) = VR!Part(piece)
    BY <1>2 DEF VR!PartAt
  <2> HIDE DEF piece
  <2>3. CASE piece.word = ""
    <3>1. VR!Part(piece) = <<1, piece.number>>
      BY <2>3 DEF VR!Part
    <3>2. piece.number \in Int
      <4> DEFINE W == {""} \cup DOMAIN VR!QualifierOrder \cup ToSet(UnknownWords)
      <4>1. piece \in [number : Nat, word : W]
        BY <2>1 DEF Pieces
      <4> HIDE DEF W
      <4> QED
        BY <4>1
    <3> QED
      BY <2>2, <3>1, <3>2
  <2>4. CASE piece.word # "" /\ piece.word \in DOMAIN VR!QualifierOrder
    <3>1. VR!Part(piece) = <<1, VR!QualifierOrder[piece.word]>>
      BY <2>4 DEF VR!Part
    <3>2. \A w \in DOMAIN VR!QualifierOrder : VR!QualifierOrder[w] \in Int
      BY DEF VR!QualifierOrder
    <3>3. VR!QualifierOrder[piece.word] \in Int
      BY <2>4, <3>2
    <3> QED
      BY <2>2, <3>1, <3>3
  <2>5. CASE piece.word # "" /\ piece.word \notin DOMAIN VR!QualifierOrder
    <3>1. \E j \in DOMAIN UnknownWords : UnknownWords[j] = piece.word
      BY <2>1, <2>5 DEF Pieces, ToSet
    <3>2. VR!IndexOf(piece.word) \in DOMAIN UnknownWords
      BY <3>1 DEF VR!IndexOf
    <3>3. VR!IndexOf(piece.word) \in Int
      BY <3>2, AlgorithmsAssumption
    <3>4. VR!Part(piece) = <<0, VR!IndexOf(piece.word)>>
      BY <2>5 DEF VR!Part
    <3> QED
      BY <2>2, <3>3, <3>4
  <2> QED
    BY <2>3, <2>4, <2>5
<1> QED
  BY <1>1, <1>2 DEF Positions

\* The pairs are totally ordered.
LEMMA PartsOrdered ==
    ASSUME NEW p \in Int \X Int, NEW q \in Int \X Int, NEW r \in Int \X Int
    PROVE  /\ VR!PartBelow(p, q) \/ VR!PartBelow(q, p) \/ p = q
           /\ ~ (VR!PartBelow(p, q) /\ VR!PartBelow(q, p))
           /\ ~ VR!PartBelow(p, p)
           /\ VR!PartBelow(p, q) /\ VR!PartBelow(q, r) => VR!PartBelow(p, r)
BY DEF VR!PartBelow

\* Of the positions where two versions differ one comes first.
LEMMA LeastOfSome ==
    ASSUME NEW S \in SUBSET Nat, S # {}
    PROVE  \E i \in S : \A j \in S : i <= j
<1> DEFINE Less == {ss \in Nat \X Nat : ss[1] < ss[2]}
<1>1. IsWellFoundedOn(Less, Nat)
  BY NatLessThanWellFounded DEF OpToRel
<1>2. \E x \in S : \A y \in S : <<y, x>> \notin Less
  <2> HIDE DEF Less
  <2> QED
    BY <1>1, WFMin
<1>3. PICK i \in S : \A j \in S : <<j, i>> \notin Less
  BY <1>2
<1>4. ASSUME NEW j \in S PROVE i <= j
  <2>1. <<j, i>> \in Nat \X Nat /\ <<j, i>>[1] = j /\ <<j, i>>[2] = i
    OBVIOUS
  <2>2. ~ (j < i)
    BY <1>3, <2>1
  <2> QED
    BY <2>2
<1> QED
  BY <1>4

\* Versions agree in every part, or the first part they differ in decides.
LEMMA FirstDifferenceDecides ==
    ASSUME NEW v \in Seq(Pieces), NEW w \in Seq(Pieces)
    PROVE  \/ /\ \A i \in Positions : VR!PartAt(v, i) = VR!PartAt(w, i)
              /\ VR!CompareVersions(v, w) = 0
           \/ \E k \in Positions :
                /\ \A i \in Positions : i < k => VR!PartAt(v, i) = VR!PartAt(w, i)
                /\ VR!PartAt(v, k) # VR!PartAt(w, k)
                /\ VR!CompareVersions(v, w) =
                     IF VR!PartBelow(VR!PartAt(v, k), VR!PartAt(w, k)) THEN -1 ELSE 1
<1> DEFINE D == VR!Differing(v, w)
<1>1. \A i \in Positions : VR!PartAt(v, i) # VR!PartAt(w, i) <=> i \in D
  BY DEF VR!Differing, VR!PartAt, Positions
<1>2. D \subseteq Positions
  BY DEF VR!Differing, Positions
<1> HIDE DEF D
<1>3. CASE D = {}
  <2>1. VR!CompareVersions(v, w) = 0
    BY <1>3 DEF VR!CompareVersions, D
  <2> QED
    BY <1>1, <1>3, <2>1
<1>4. CASE D # {}
  <2> DEFINE first == CHOOSE i \in D : \A j \in D : i <= j
  <2>1. first \in D /\ \A j \in D : first <= j
    <3>1. \E i \in D : \A j \in D : i <= j
      BY <1>2, <1>4, LeastOfSome DEF Positions
    <3> QED
      BY <3>1
  <2>2. VR!CompareVersions(v, w) =
          IF VR!PartBelow(VR!PartAt(v, first), VR!PartAt(w, first)) THEN -1 ELSE 1
    BY <1>4 DEF VR!CompareVersions, D
  <2> HIDE DEF first
  <2>3. \A i \in Positions : i < first => i \notin D
    BY <1>2, <2>1 DEF Positions
  <2> QED
    BY <1>1, <1>2, <2>1, <2>2, <2>3
<1> QED
  BY <1>3, <1>4

\* What the code relies on wherever it sorts versions or compares them.
LEMMA VersionsOrdered ==
    ASSUME NEW u \in Seq(Pieces), NEW v \in Seq(Pieces), NEW w \in Seq(Pieces)
    PROVE  /\ VR!CompareVersions(v, w) \in {-1, 0, 1}
           /\ VR!CompareVersions(w, v) = - VR!CompareVersions(v, w)
           /\ VR!CompareVersions(v, v) = 0
           /\ VR!CompareVersions(u, v) <= 0 /\ VR!CompareVersions(v, w) <= 0
                  => VR!CompareVersions(u, w) <= 0
           /\ VR!CompareVersions(u, v) <= 0 /\ VR!CompareVersions(v, w) < 0
                  => VR!CompareVersions(u, w) < 0
           /\ VR!CompareVersions(u, v) < 0 /\ VR!CompareVersions(v, w) <= 0
                  => VR!CompareVersions(u, w) < 0
<1> DEFINE P(x, i) == VR!PartAt(x, i)
           B(p, q) == VR!PartBelow(p, q)
           C(x, y) == VR!CompareVersions(x, y)
           Same(x, y) == \A i \in Positions : P(x, i) = P(y, i)
           Decides(x, y, k) == /\ \A i \in Positions : i < k => P(x, i) = P(y, i)
                               /\ B(P(x, k), P(y, k))
           Lower(x, y) == \E k \in Positions : Decides(x, y, k)
           V == {u, v, w}
<1>1. ASSUME NEW x \in V, NEW y \in V
      PROVE  \/ Same(x, y) /\ C(x, y) = 0
             \/ Lower(x, y) /\ C(x, y) = -1
             \/ Lower(y, x) /\ C(x, y) = 1
  <2>1. x \in Seq(Pieces) /\ y \in Seq(Pieces)
    OBVIOUS
  <2>2. ASSUME NEW k \in Positions,
               \A i \in Positions : i < k => P(x, i) = P(y, i),
               P(x, k) # P(y, k),
               C(x, y) = IF B(P(x, k), P(y, k)) THEN -1 ELSE 1
        PROVE  \/ Lower(x, y) /\ C(x, y) = -1
               \/ Lower(y, x) /\ C(x, y) = 1
    <3>1. B(P(x, k), P(y, k)) \/ B(P(y, k), P(x, k))
      BY <2>1, <2>2, PartType, PartsOrdered
    <3> HIDE DEF P, B, C
    <3> QED
      BY <2>2, <3>1
  <2>3. CASE Same(x, y) /\ C(x, y) = 0
    BY <2>3
  <2>4. CASE \E k \in Positions :
               /\ \A i \in Positions : i < k => P(x, i) = P(y, i)
               /\ P(x, k) # P(y, k)
               /\ C(x, y) = IF B(P(x, k), P(y, k)) THEN -1 ELSE 1
    <3>1. PICK k \in Positions :
               /\ \A i \in Positions : i < k => P(x, i) = P(y, i)
               /\ P(x, k) # P(y, k)
               /\ C(x, y) = IF B(P(x, k), P(y, k)) THEN -1 ELSE 1
      BY <2>4
    <3> QED
      BY <2>2, <3>1
  <2> QED
    BY <2>1, <2>3, <2>4, FirstDifferenceDecides
<1>2. \A x \in V, i \in Positions : P(x, i) \in Int \X Int
  BY PartType
<1>3. \A p, q, r \in Int \X Int :
        /\ ~ (B(p, q) /\ B(q, p))
        /\ ~ B(p, p)
        /\ B(p, q) /\ B(q, r) => B(p, r)
  BY PartsOrdered
<1> HIDE DEF P, B, C, V
<1>4. ASSUME NEW x \in V, NEW y \in V, Lower(x, y) PROVE ~ Same(x, y) /\ ~ Lower(y, x)
  <2>1. PICK k \in Positions : Decides(x, y, k)
    BY <1>4
  <2>2. P(x, k) \in Int \X Int /\ P(y, k) \in Int \X Int
    BY <1>2
  <2>3. ~ Same(x, y)
    BY <1>3, <2>1, <2>2
  <2>4. ASSUME NEW l \in Positions, Decides(y, x, l) PROVE FALSE
    <3>1. P(x, l) \in Int \X Int /\ P(y, l) \in Int \X Int
      BY <1>2
    <3>2. ~ (k < l) /\ ~ (l < k)
      BY <1>3, <2>1, <2>2, <2>4, <3>1
    <3> QED
      BY <1>3, <2>1, <2>2, <2>4, <3>2 DEF Positions
  <2> QED
    BY <2>3, <2>4
<1>5. ASSUME NEW x \in V, NEW y \in V, NEW z \in V, Lower(x, y), Lower(y, z)
      PROVE  Lower(x, z)
  <2>1. PICK k \in Positions : Decides(x, y, k)
    BY <1>5
  <2>2. PICK l \in Positions : Decides(y, z, l)
    BY <1>5
  <2>3. PICK m \in Positions : m <= k /\ m <= l /\ (m = k \/ m = l)
    <3>1. k <= l \/ l <= k
      BY DEF Positions
    <3>2. k <= k /\ l <= l
      BY DEF Positions
    <3> QED
      BY <3>1, <3>2
  <2>4. \A i \in Positions : i < m => i < k /\ i < l
    BY <2>3 DEF Positions
  <2>5. (m = k /\ m = l) \/ (m = k /\ m < l) \/ (m = l /\ m < k)
    BY <2>3 DEF Positions
  <2>6. P(x, m) \in Int \X Int /\ P(y, m) \in Int \X Int /\ P(z, m) \in Int \X Int
    BY <1>2
  <2>7. B(P(x, m), P(z, m))
    BY <1>3, <2>1, <2>2, <2>5, <2>6
  <2>8. \A i \in Positions : i < m => P(x, i) = P(z, i)
    BY <2>1, <2>2, <2>4
  <2> QED
    BY <2>7, <2>8
<1>6. ASSUME NEW x \in V, NEW y \in V, NEW z \in V, Same(x, y)
      PROVE  /\ Lower(x, z) <=> Lower(y, z)
             /\ Lower(z, x) <=> Lower(z, y)
             /\ Same(y, x)
             /\ Same(y, z) => Same(x, z)
  BY <1>6
<1>7. Same(v, v)
  OBVIOUS
<1>8. u \in V /\ v \in V /\ w \in V
  BY DEF V
<1> HIDE DEF Same, Lower
<1>9. /\ C(v, w) \in {-1, 0, 1}
      /\ C(w, v) = - C(v, w)
      /\ C(v, v) = 0
  BY <1>1, <1>4, <1>6, <1>7, <1>8
<1>10. /\ C(u, v) <= 0 /\ C(v, w) <= 0 => C(u, w) <= 0
       /\ C(u, v) <= 0 /\ C(v, w) < 0 => C(u, w) < 0
       /\ C(u, v) < 0 /\ C(v, w) <= 0 => C(u, w) < 0
  <2>1. /\ C(u, v) <= 0 => Same(u, v) \/ Lower(u, v)
        /\ C(u, v) < 0 => Lower(u, v)
        /\ C(v, w) <= 0 => Same(v, w) \/ Lower(v, w)
        /\ C(v, w) < 0 => Lower(v, w)
    BY <1>1, <1>8
  <2>2. /\ Same(u, w) => C(u, w) = 0
        /\ Lower(u, w) => C(u, w) = -1
    BY <1>1, <1>4, <1>6, <1>8
  <2>3. /\ Lower(u, v) /\ Lower(v, w) => Lower(u, w)
        /\ Same(u, v) /\ Lower(v, w) => Lower(u, w)
        /\ Lower(u, v) /\ Same(v, w) => Lower(u, w)
        /\ Same(u, v) /\ Same(v, w) => Same(u, w)
    BY <1>5, <1>6, <1>8
  <2> QED
    BY <2>1, <2>2, <2>3
<1> QED
  BY <1>9, <1>10 DEF C

\* A trailing zero adds nothing to a version.
LEMMA TrailingZero ==
    ASSUME NEW v \in Seq(Pieces), Append(v, VR!Number(0)) \in Seq(Pieces)
    PROVE  VR!CompareVersions(v, Append(v, VR!Number(0))) = 0
<1> DEFINE w == Append(v, VR!Number(0))
<1>1. VR!Part(VR!Number(0)) = <<1, 0>>
  BY DEF VR!Part, VR!Number
<1>2. ASSUME NEW i \in Positions PROVE VR!PartAt(v, i) = VR!PartAt(w, i)
  <2>1. CASE i <= Len(v)
    BY <2>1 DEF VR!PartAt, Positions
  <2>2. CASE i = Len(v) + 1
    <3>1. Len(w) = Len(v) + 1 /\ w[Len(v) + 1] = VR!Number(0)
      OBVIOUS
    <3> QED
      BY <1>1, <2>2, <3>1 DEF VR!PartAt, Positions
  <2>3. CASE i > Len(v) + 1
    BY <2>3 DEF VR!PartAt, Positions
  <2> QED
    BY <2>1, <2>2, <2>3 DEF Positions
<1> QED
  BY <1>2, FirstDifferenceDecides

\* A version comes after its release candidates.
LEMMA ReleaseAfterCandidate ==
    ASSUME NEW v \in Seq(Pieces), Append(v, VR!Word("rc")) \in Seq(Pieces)
    PROVE  VR!CompareVersions(v, Append(v, VR!Word("rc"))) = 1
<1> DEFINE w == Append(v, VR!Word("rc"))
           n == Len(v) + 1
<1>1. VR!Part(VR!Word("rc")) = <<1, -1>>
  BY DEF VR!Part, VR!Word, VR!QualifierOrder
<1>2. \A i \in Positions : i < n => VR!PartAt(v, i) = VR!PartAt(w, i)
  BY DEF VR!PartAt, Positions
<1>3. VR!PartAt(v, n) = <<1, 0>> /\ VR!PartAt(w, n) = <<1, -1>> /\ n \in Positions
  <2>1. Len(w) = n /\ w[n] = VR!Word("rc")
    OBVIOUS
  <2> QED
    BY <1>1, <2>1 DEF VR!PartAt, Positions
<1>4. VR!PartAt(v, n) # VR!PartAt(w, n)
      /\ ~ VR!PartBelow(VR!PartAt(v, n), VR!PartAt(w, n))
  BY <1>3 DEF VR!PartBelow
<1> HIDE DEF w, n
<1>5. w \in Seq(Pieces)
  BY DEF w
<1>6. PICK k \in Positions :
        /\ \A i \in Positions : i < k => VR!PartAt(v, i) = VR!PartAt(w, i)
        /\ VR!PartAt(v, k) # VR!PartAt(w, k)
        /\ VR!CompareVersions(v, w) =
             IF VR!PartBelow(VR!PartAt(v, k), VR!PartAt(w, k)) THEN -1 ELSE 1
  BY <1>3, <1>4, <1>5, FirstDifferenceDecides
<1>7. k = n
  BY <1>2, <1>3, <1>4, <1>6 DEF Positions
<1> QED
  BY <1>4, <1>6, <1>7 DEF w

\* Comparing versions of any number of parts is a total preorder that pads
\* with zeros: sorting by it and picking the lowest mean what they say.
THEOREM ComparisonIsOrder == Spec => []VersionOrder
<1>1. Init => VersionOrder
  BY DEF Init, VersionOrder
<1>2. VersionOrder /\ [Next]_vars => VersionOrder'
  <2> SUFFICES ASSUME VersionOrder, [Next]_vars PROVE VersionOrder'
    OBVIOUS
  <2>1. CASE Compare
    <3>1. PICK a \in Versions, b \in Versions, c \in Versions :
            Apply("compare", <<a, b, c>>,
                 [ab |-> VR!CompareVersions(a, b), bc |-> VR!CompareVersions(b, c),
                  ac |-> VR!CompareVersions(a, c), ba |-> VR!CompareVersions(b, a)])
      BY <2>1 DEF Compare
    <3>2. a \in Seq(Pieces) /\ b \in Seq(Pieces) /\ c \in Seq(Pieces)
      BY AlgorithmsAssumption
    <3>3. /\ output'.ab = VR!CompareVersions(a, b) /\ output'.bc = VR!CompareVersions(b, c)
          /\ output'.ac = VR!CompareVersions(a, c) /\ output'.ba = VR!CompareVersions(b, a)
          /\ input'[1] = a /\ input'[2] = b
      BY <3>1 DEF Apply
    <3>4. output'.ba = - output'.ab
      BY <3>2, <3>3, VersionsOrdered
    <3>5. output'.ab <= 0 /\ output'.bc <= 0 => output'.ac <= 0
      BY <3>2, <3>3, VersionsOrdered
    <3>6. output'.ac = 0 /\ output'.ab = 0 => output'.bc = 0
      <4>1. /\ VR!CompareVersions(a, c) \in {-1, 0, 1} /\ VR!CompareVersions(b, c) \in {-1, 0, 1}
            /\ VR!CompareVersions(b, a) = - VR!CompareVersions(a, b)
            /\ VR!CompareVersions(c, a) = - VR!CompareVersions(a, c)
            /\ VR!CompareVersions(c, b) = - VR!CompareVersions(b, c)
        BY <3>2, VersionsOrdered
      <4>2. /\ VR!CompareVersions(b, a) <= 0 /\ VR!CompareVersions(a, c) <= 0
                   => VR!CompareVersions(b, c) <= 0
            /\ VR!CompareVersions(c, a) <= 0 /\ VR!CompareVersions(a, b) <= 0
                   => VR!CompareVersions(c, b) <= 0
        BY <3>2, VersionsOrdered
      <4> QED
        BY <3>3, <4>1, <4>2
    <3>7. input'[2] = Append(input'[1], VR!Number(0)) => output'.ab = 0
      BY <3>2, <3>3, TrailingZero
    <3>8. input'[2] = Append(input'[1], VR!Word("rc")) => output'.ab = 1
      BY <3>2, <3>3, ReleaseAfterCandidate
    <3> QED
      BY <3>4, <3>5, <3>6, <3>7, <3>8 DEF VersionOrder
  <2>2. CASE UNCHANGED vars
    BY <2>2 DEF vars, VersionOrder
  <2>3. CASE algorithm' # "compare"
    BY <2>3 DEF VersionOrder
  <2> QED
    BY <2>1, <2>2, <2>3, StepsName DEF Next
<1> QED
  BY <1>1, <1>2, PTL DEF Spec

-----------------------------------------------------------------------------
(* Verification and the license scan. *)

\* What a route without a human says of the answers it is made from.
Trusted(current, target, known, entries, endOfLife, route) ==
    /\ target \in known /\ entries # {} /\ ~ endOfLife
    /\ VF!PartOf(current, 1) = VF!PartOf(target, 1)
    /\ route = "simple_update" <=> [direct |-> TRUE] \in entries

LEMMA UnattendedRoute ==
    ASSUME NEW current, NEW target, NEW known, NEW entries, entries \in SUBSET [direct : BOOLEAN],
           NEW endOfLife \in BOOLEAN, NEW route,
           route = VF!RouteDecision(VF!MavenVerification(current, target, known, entries,
                                                         endOfLife)),
           ~ VF!RequiresHumanApproval(route)
    PROVE  Trusted(current, target, known, entries, endOfLife, route)
<1> DEFINE maven == VF!MavenVerification(current, target, known, entries, endOfLife)
<1>1. route \notin {"unknown", "complex_refactor"}
  BY DEF VF!RequiresHumanApproval
<1>2. target \in known /\ entries # {}
  <2>1. ~ (target \in known /\ entries # {}) => maven.status = "rejected"
    BY DEF VF!MavenVerification
  <2>2. maven.status # "rejected"
    BY <1>1 DEF VF!RouteDecision
  <2> QED
    BY <2>1, <2>2
<1>3. /\ maven.status = "verified"
      /\ maven.kind = IF \E e \in entries : e.direct THEN "direct" ELSE "transitive"
      /\ maven.risk = VF!CompatibilityRisk(current, target, endOfLife)
  BY <1>2 DEF VF!MavenVerification
<1>4. route = VF!RouteDecision(maven)
  OBVIOUS
<1> HIDE DEF maven
<1>5. maven.risk # "high"
  BY <1>1, <1>3, <1>4 DEF VF!RouteDecision
<1>6. ~ endOfLife /\ VF!PartOf(current, 1) = VF!PartOf(target, 1)
  BY <1>3, <1>5 DEF VF!CompatibilityRisk
<1>7. route = IF maven.kind = "transitive" THEN "transitive_override" ELSE "simple_update"
  BY <1>3, <1>4, <1>5 DEF VF!RouteDecision
<1>8. (\E e \in entries : e.direct) <=> [direct |-> TRUE] \in entries
  <2>1. \A e \in entries : e.direct => e = [direct |-> TRUE]
    OBVIOUS
  <2> QED
    BY <2>1
<1> QED
  BY <1>2, <1>3, <1>6, <1>7, <1>8 DEF Trusted

\* What a verification of advice says.
AdviceInv ==
    algorithm = "route" =>
        /\ \E n \in 1 .. 2 :
              input.branches \in [1 .. n -> Releases \X (Releases \cup {VF!NoVersion})]
        /\ input.current \in Releases
        /\ input.entries \in SUBSET [direct : BOOLEAN]
        /\ input.released \in BOOLEAN /\ input.endOfLife \in BOOLEAN
        /\ \E hint : input.target = Advice(input.branches, hint)
        /\ output = VF!RouteDecision(VF!MavenVerification(input.current, input.target,
              IF input.released THEN {input.target} ELSE {}, input.entries, input.endOfLife))

LEMMA AdviceInvariant == Spec => []AdviceInv
<1>1. Init => AdviceInv
  BY DEF Init, AdviceInv
<1>2. AdviceInv /\ [Next]_vars => AdviceInv'
  <2> SUFFICES ASSUME AdviceInv, [Next]_vars PROVE AdviceInv'
    OBVIOUS
  <2>1. CASE VerifyAdvice
    <3> DEFINE Route(current, target, released, entries, endOfLife) ==
                 VF!RouteDecision(VF!MavenVerification(current, target,
                     IF released THEN {target} ELSE {}, entries, endOfLife))
    <3>1. PICK branches \in UpTo(2, Releases \X (Releases \cup {VF!NoVersion})),
               hint \in Releases \cup {VF!NoVersion},
               current \in Releases, released \in BOOLEAN, endOfLife \in BOOLEAN,
               entries \in SUBSET [direct : BOOLEAN] :
             /\ Advice(branches, hint) # VF!NoVersion
             /\ Apply("route", [branches |-> branches, current |-> current,
                                target |-> Advice(branches, hint), released |-> released,
                                entries |-> entries, endOfLife |-> endOfLife],
                      Route(current, Advice(branches, hint), released, entries, endOfLife))
      BY <2>1 DEF VerifyAdvice
    <3> HIDE DEF Route
    <3>2. /\ input'.branches = branches /\ input'.released = released
          /\ input'.entries = entries /\ input'.endOfLife = endOfLife
          /\ input'.current = current /\ input'.target = Advice(branches, hint)
          /\ input'.target # VF!NoVersion
      BY <3>1 DEF Apply
    <3>3. output' = Route(input'.current, input'.target, input'.released, input'.entries,
                          input'.endOfLife)
      BY <3>1, <3>2 DEF Apply
    <3>4. \E n \in 1 .. 2 : branches \in [1 .. n -> Releases \X (Releases \cup {VF!NoVersion})]
      <4>1. PICK n \in 0 .. 2 : branches \in [1 .. n -> Releases \X (Releases \cup {VF!NoVersion})]
        BY DEF UpTo, BoundedSeq, SeqOf
      <4>2. n # 0
        <5> SUFFICES ASSUME n = 0 PROVE FALSE
          OBVIOUS
        <5>1. branches = <<>>
          BY <4>1
        <5> QED
          BY <5>1 DEF UpTo
      <4> QED
        BY <4>1, <4>2
    <3> QED
      BY <3>2, <3>3, <3>4 DEF AdviceInv, Route
  <2>2. CASE UNCHANGED vars
    BY <2>2 DEF vars, AdviceInv
  <2>3. CASE algorithm' # "route"
    BY <2>3 DEF AdviceInv
  <2> QED
    BY <2>1, <2>2, <2>3, StepsName DEF Next
<1> QED
  BY <1>1, <1>2, PTL DEF Spec

\* Whatever versions Maven Central and the build know, an unattended lane is
\* the one for how the package is declared, and a step within a major version.
THEOREM UnattendedRoutesSafe == Spec => []UnattendedRouteIsSafe
<1>1. AdviceInv => UnattendedRouteIsSafe
  <2> SUFFICES ASSUME AdviceInv, algorithm = "route", ~ VF!RequiresHumanApproval(output)
               PROVE  /\ input.released /\ input.entries # {} /\ ~ input.endOfLife
                      /\ VF!PartOf(input.current, 1) = VF!PartOf(input.target, 1)
                      /\ output = "simple_update" <=> [direct |-> TRUE] \in input.entries
    BY DEF UnattendedRouteIsSafe
  <2> DEFINE known == IF input.released THEN {input.target} ELSE {}
  <2>1. /\ input.entries \in SUBSET [direct : BOOLEAN]
        /\ input.released \in BOOLEAN /\ input.endOfLife \in BOOLEAN
        /\ output = VF!RouteDecision(VF!MavenVerification(input.current, input.target, known,
                                                          input.entries, input.endOfLife))
    BY DEF AdviceInv
  <2> HIDE DEF known
  <2>2. /\ input.target \in known /\ input.entries # {} /\ ~ input.endOfLife
        /\ VF!PartOf(input.current, 1) = VF!PartOf(input.target, 1)
        /\ output = "simple_update" <=> [direct |-> TRUE] \in input.entries
    <3> DEFINE current == input.current
               target == input.target
               entries == input.entries
               endOfLife == input.endOfLife
    <3>1. /\ entries \in SUBSET [direct : BOOLEAN] /\ endOfLife \in BOOLEAN
          /\ output = VF!RouteDecision(VF!MavenVerification(current, target, known, entries,
                                                            endOfLife))
      BY <2>1
    <3> HIDE DEF current, target, entries, endOfLife
    <3>2. Trusted(current, target, known, entries, endOfLife, output)
      BY <3>1, UnattendedRoute
    <3> QED
      BY <3>2 DEF Trusted, current, target, entries, endOfLife
  <2> QED
    BY <2>2 DEF known
<1> QED
  BY <1>1, AdviceInvariant, PTL

\* A dependency that ships, as the scan finds it when a list is configured.
LEMMA FindingMeans ==
    ASSUME NEW dep \in DS!Dependencies(Licenses), NEW denied, NEW allowed
    PROVE  /\ DS!LicenseFinding(dep, denied, allowed) \in DS!Findings
           /\ DS!LicenseFinding(dep, denied, allowed) \in {"permitted", "denied", "outside"}
                <=> dep.fetch = "read" /\ dep.licenses # {}
           /\ DS!LicenseFinding(dep, denied, allowed) = "permitted" =>
                 /\ dep.licenses \cap denied = {}
                 /\ allowed = {} \/ dep.licenses \cap allowed # {}
           /\ DS!LicenseFinding(dep, denied, allowed) \in {"denied", "outside"} =>
                 \/ dep.licenses \cap denied # {}
                 \/ allowed # {} /\ dep.licenses \cap allowed = {}
<1>1. dep.fetch \in {"read", "unreachable", "malformed"}
  BY DEF DS!Dependencies, DS!Fetches
<1>2. CASE dep.fetch = "unreachable"
  BY <1>2 DEF DS!LicenseFinding, DS!Findings
<1>3. CASE dep.fetch = "malformed" \/ (dep.fetch = "read" /\ dep.licenses = {})
  BY <1>3 DEF DS!LicenseFinding, DS!Findings
<1>4. CASE dep.fetch = "read" /\ dep.licenses # {}
  BY <1>4 DEF DS!LicenseFinding, DS!Findings
<1> QED
  BY <1>1, <1>2, <1>3, <1>4

\* The check passes when every finding is permitted, and names a failed
\* lookup only when nothing forbidden was found.
LEMMA FailuresMean ==
    ASSUME NEW found \in SUBSET DS!Findings
    PROVE  /\ DS!LicenseFailures(found, TRUE) = {} <=> found \subseteq {"permitted"}
           /\ "license_unreachable" \in DS!LicenseFailures(found, TRUE)
                 => found \cap {"denied", "outside"} = {}
<1>1. CASE found \cap {"denied", "outside"} # {}
  <2>1. DS!LicenseFailures(found, TRUE) = {"license_denied"}
    BY <1>1 DEF DS!LicenseFailures
  <2> QED
    BY <1>1, <2>1
<1>2. CASE found \cap {"denied", "outside"} = {} /\ "unreachable" \in found
  <2>1. DS!LicenseFailures(found, TRUE) = {"license_unreachable"}
    BY <1>2 DEF DS!LicenseFailures
  <2> QED
    BY <1>2, <2>1
<1>3. CASE found \cap {"denied", "outside", "unreachable"} = {} /\ "unresolved" \in found
  <2>1. DS!LicenseFailures(found, TRUE) = {"license_denied"}
    BY <1>3 DEF DS!LicenseFailures
  <2> QED
    BY <1>3, <2>1
<1>4. CASE found \cap {"denied", "outside", "unreachable", "unresolved"} = {}
  <2>1. DS!LicenseFailures(found, TRUE) = {}
    BY <1>4 DEF DS!LicenseFailures
  <2>2. found \subseteq {"permitted"}
    BY <1>4 DEF DS!Findings
  <2> QED
    BY <1>4, <2>1, <2>2
<1> QED
  BY <1>1, <1>2, <1>3, <1>4

\* With a list configured, a passed license scan has read and judged every
\* dependency that ships, and a retry is never spent on a forbidden license.
THEOREM LicenseScanFailsClosed == Spec => []LicensesFailClosed
<1>1. Init => LicensesFailClosed
  BY DEF Init, LicensesFailClosed
<1>2. LicensesFailClosed /\ [Next]_vars => LicensesFailClosed'
  <2> SUFFICES ASSUME LicensesFailClosed, [Next]_vars PROVE LicensesFailClosed'
    OBVIOUS
  <2>1. CASE ScanLicenses
    <3>1. PICK first \in DS!Dependencies(Licenses), second \in DS!Dependencies(Licenses),
               denied \in SUBSET Licenses, allowed \in SUBSET Licenses :
            Apply("licenses", [tree |-> {first, second}, denied |-> denied, allowed |-> allowed],
                 DS!LicenseFailures(DS!LicenseFindings({first, second}, denied, allowed),
                                    denied \cup allowed # {}))
      BY <2>1 DEF ScanLicenses
    <3> DEFINE shipped == {d \in {first, second} : d.scope # "test"}
               found == {DS!LicenseFinding(d, denied, allowed) : d \in shipped}
               judged(d) == d.fetch = "read" /\ d.licenses # {}
               forbidden(d) == \/ d.licenses \cap denied # {}
                               \/ allowed # {} /\ d.licenses \cap allowed = {}
    <3>2. /\ input'.tree = {first, second} /\ input'.denied = denied /\ input'.allowed = allowed
          /\ output' = DS!LicenseFailures(found, denied \cup allowed # {})
      BY <3>1 DEF Apply, DS!LicenseFindings
    <3>3. \A d \in shipped : d \in DS!Dependencies(Licenses)
      OBVIOUS
    <3>4. ASSUME denied \cup allowed # {}
          PROVE  /\ output' = {} <=> \A d \in shipped : judged(d) /\ ~ forbidden(d)
                 /\ "license_unreachable" \in output' =>
                        \A d \in shipped : judged(d) => ~ forbidden(d)
      <4>1. found \in SUBSET DS!Findings
        BY <3>3, FindingMeans
      <4>2. output' = DS!LicenseFailures(found, TRUE)
        BY <3>2, <3>4
      <4> DEFINE finding(d) == DS!LicenseFinding(d, denied, allowed)
      <4>3. \A d \in shipped :
              /\ finding(d) = "permitted" <=> judged(d) /\ ~ forbidden(d)
              /\ judged(d) /\ forbidden(d) => finding(d) \in {"denied", "outside"}
        <5> SUFFICES ASSUME NEW d \in shipped
                     PROVE  /\ finding(d) = "permitted" <=> judged(d) /\ ~ forbidden(d)
                            /\ judged(d) /\ forbidden(d) => finding(d) \in {"denied", "outside"}
          OBVIOUS
        <5>1. /\ finding(d) \in {"permitted", "denied", "outside"} <=> judged(d)
              /\ finding(d) = "permitted" => ~ forbidden(d)
              /\ finding(d) \in {"denied", "outside"} => forbidden(d)
          BY <3>3, FindingMeans
        <5> HIDE DEF finding, judged, forbidden
        <5> QED
          BY <5>1
      <4> HIDE DEF judged, forbidden, shipped, finding
      <4>4. \A f : f \in found <=> \E d \in shipped : f = finding(d)
        BY DEF finding
      <4> HIDE DEF found
      <4>5. output' = {} <=> \A d \in shipped : judged(d) /\ ~ forbidden(d)
        <5>1. output' = {} <=> found \subseteq {"permitted"}
          BY <4>1, <4>2, FailuresMean
        <5>2. found \subseteq {"permitted"} <=> \A d \in shipped : finding(d) = "permitted"
          BY <4>4
        <5> QED
          BY <4>3, <5>1, <5>2
      <4>6. "license_unreachable" \in output' => found \cap {"denied", "outside"} = {}
        BY <4>1, <4>2, FailuresMean
      <4> QED
        BY <4>3, <4>4, <4>5, <4>6
    <3> QED
      BY <3>2, <3>4 DEF LicensesFailClosed
  <2>2. CASE UNCHANGED vars
    BY <2>2 DEF vars, LicensesFailClosed
  <2>3. CASE algorithm' # "licenses"
    BY <2>3 DEF LicensesFailClosed
  <2> QED
    BY <2>1, <2>2, <2>3, StepsName DEF Next
<1> QED
  BY <1>1, <1>2, PTL DEF Spec

\* What one list of events flattens to.
LEMMA FlattenOne ==
    ASSUME NEW events, NEW one, one = [i \in 1 .. 1 |-> events]
    PROVE  VF!FlattenSeq(one) = events
<1> DEFINE Flat(f) == f = [i \in 1 .. 1 |-> IF i = 1 THEN one[i] ELSE f[i - 1] \o one[i]]
           flatten == CHOOSE f : Flat(f)
<1>1. Len(one) = 1
  OBVIOUS
<1>2. Flat([i \in 1 .. 1 |-> events])
  OBVIOUS
<1>3. Flat(flatten)
  BY <1>2
<1>4. flatten[1] = events
  BY <1>3
<1>5. VF!FlattenSeq(one) = flatten[1]
  BY <1>1 DEF VF!FlattenSeq
<1> QED
  BY <1>4, <1>5

\* What two lists of events flatten to.
LEMMA FlattenTwo ==
    ASSUME NEW first, NEW second, NEW two, two = [i \in 1 .. 2 |-> IF i = 1 THEN first ELSE second]
    PROVE  VF!FlattenSeq(two) = first \o second
<1> DEFINE Flat(f) == f = [i \in 1 .. 2 |-> IF i = 1 THEN two[i] ELSE f[i - 1] \o two[i]]
           flatten == CHOOSE f : Flat(f)
           flat == [i \in 1 .. 2 |-> IF i = 1 THEN first ELSE first \o second]
<1>1. Len(two) = 2
  OBVIOUS
<1>2. Flat(flat)
  <2>1. two[1] = first /\ two[2] = second /\ flat[1] = first
    OBVIOUS
  <2> DEFINE right(i) == IF i = 1 THEN two[i] ELSE flat[i - 1] \o two[i]
  <2>2. right(1) = first /\ right(2) = first \o second
    BY <2>1
  <2>3. \A i \in 1 .. 2 : (IF i = 1 THEN first ELSE first \o second) = right(i)
    <3> HIDE DEF right
    <3> QED
      BY <2>2
  <2>4. flat = [i \in 1 .. 2 |-> right(i)]
    <3> HIDE DEF right
    <3> QED
      BY <2>3
  <2> QED
    BY <2>4
<1>3. Flat(flatten)
  <2> HIDE DEF flat, Flat
  <2> QED
    BY <1>2
<1>4. flatten[2] = first \o second
  <2> HIDE DEF flatten
  <2>1. flatten[1] = first
    BY <1>3
  <2>2. flatten[2] = flatten[1] \o second
    BY <1>3
  <2> QED
    BY <2>1, <2>2
<1>5. VF!FlattenSeq(two) = flatten[2]
  BY <1>1 DEF VF!FlattenSeq
<1> QED
  BY <1>4, <1>5

\* The fix recommended is a branch's own if any branch has one.
LEMMA FixOfSomeBranch ==
    ASSUME NEW n, n \in 1 .. 2, NEW branches,
           branches \in [1 .. n -> Releases \X (Releases \cup {VF!NoVersion})],
           Fixed(branches) # {}, NEW hint
    PROVE  \E b \in Fixed(branches) : Advice(branches, hint) = b[2]
<1> DEFINE ranges == [i \in DOMAIN branches |-> BranchRange(branches[i])]
           events == VF!FlattenSeq(ranges)
           IsFix(event) == event.kind = "fixed" /\ event.version # VF!NoVersion
           found == {i \in 1 .. Len(events) : IsFix(events[i])}
<1>1. /\ Len(events) \in {2, 4}
      /\ \A i \in 1 .. Len(events) :
            IsFix(events[i]) => \E b \in Fixed(branches) : events[i].version = b[2]
      /\ \E i \in 1 .. Len(events) : IsFix(events[i])
  <2>0. n = 1 \/ n = 2
    OBVIOUS
  <2>1. CASE n = 1
    <3> DEFINE b == branches[1]
    <3>1. ranges = [i \in 1 .. 1 |-> BranchRange(b)]
      BY <2>1
    <3>2. events = BranchRange(b)
      <4> HIDE DEF ranges, b
      <4> QED
        BY <3>1, FlattenOne
    <3>3. /\ Len(events) = 2 /\ ~ IsFix(events[1])
          /\ IsFix(events[2]) <=> b[2] # VF!NoVersion
          /\ events[2].version = b[2]
      <4> HIDE DEF events, b
      <4> QED
        BY <3>2 DEF BranchRange
    <3>4. Fixed(branches) = {c \in {b} : c[2] # VF!NoVersion}
      BY <2>1 DEF Fixed, ToSet
    <3> HIDE DEF events, b, IsFix
    <3>5. \A i \in 1 .. Len(events) : i = 1 \/ i = 2
      BY <3>3
    <3>6. b \in Fixed(branches)
      BY <3>4
    <3>7. b[2] # VF!NoVersion
      BY <3>4
    <3> QED
      BY <3>3, <3>5, <3>6, <3>7
  <2>2. CASE n = 2
    <3> DEFINE b == branches[1]
               c == branches[2]
    <3>1. ranges = [i \in 1 .. 2 |-> IF i = 1 THEN BranchRange(b) ELSE BranchRange(c)]
      BY <2>2
    <3>2. events = BranchRange(b) \o BranchRange(c)
      <4> HIDE DEF ranges, b, c
      <4> QED
        BY <3>1, FlattenTwo
    <3>3. /\ Len(events) = 4 /\ ~ IsFix(events[1]) /\ ~ IsFix(events[3])
          /\ IsFix(events[2]) <=> b[2] # VF!NoVersion
          /\ IsFix(events[4]) <=> c[2] # VF!NoVersion
          /\ events[2].version = b[2] /\ events[4].version = c[2]
      <4> HIDE DEF events, b, c
      <4> QED
        BY <3>2 DEF BranchRange
    <3>4. Fixed(branches) = {d \in {b, c} : d[2] # VF!NoVersion}
      <4>1. ToSet(branches) = {b, c}
        BY <2>2 DEF ToSet
      <4> QED
        BY <4>1 DEF Fixed
    <3> HIDE DEF events, b, c, IsFix
    <3>5. \A i \in 1 .. Len(events) : i \in {1, 2, 3, 4}
      BY <3>3
    <3>6. (b[2] # VF!NoVersion => b \in Fixed(branches)) /\ (c[2] # VF!NoVersion => c \in Fixed(branches))
          /\ (b[2] # VF!NoVersion \/ c[2] # VF!NoVersion)
      BY <3>4
    <3> QED
      BY <3>3, <3>5, <3>6
  <2> HIDE DEF events, IsFix
  <2> QED
    BY <2>0, <2>1, <2>2
<1> HIDE DEF events
<1>2. VF!Min(found) \in found /\ found # {}
  <2>1. found \subseteq 1 .. 4 /\ found # {}
    BY <1>1
  <2> HIDE DEF found
  <2>2. \E x \in found : \A y \in found : x <= y
    <3>1. \A y \in found : y \in {1, 2, 3, 4}
      BY <2>1
    <3>2. CASE 1 \in found
      BY <3>1, <3>2
    <3>3. CASE 1 \notin found /\ 2 \in found
      BY <3>1, <3>3
    <3>4. CASE 1 \notin found /\ 2 \notin found /\ 3 \in found
      BY <3>1, <3>4
    <3>5. CASE found = {4}
      BY <3>5
    <3> QED
      BY <2>1, <3>1, <3>2, <3>3, <3>4, <3>5
  <2> QED
    BY <2>1, <2>2 DEF VF!Min
<1>3. VF!SelectInSeq(events, IsFix) = VF!Min(found)
  BY <1>2 DEF VF!SelectInSeq
<1>4. VF!Min(found) # 0
  BY <1>2
<1> DEFINE answer == <<ranges>>
<1>5. answer # <<>> /\ answer[1] = ranges
  OBVIOUS
<1> HIDE DEF ranges, answer
<1>6. VF!FixedVersion(answer[1]) = events[VF!Min(found)].version
  BY <1>3, <1>4, <1>5 DEF VF!FixedVersion, VF!Events, events
<1>7. PICK b \in Fixed(branches) : events[VF!Min(found)].version = b[2]
  BY <1>1, <1>2
<1>8. b[2] # VF!NoVersion
  BY DEF Fixed
<1>9. VF!RecommendedFix(answer, hint) = b[2]
  BY <1>5, <1>6, <1>7, <1>8 DEF VF!RecommendedFix
<1> QED
  BY <1>9 DEF answer, ranges, Advice

\* The parts of a version are numbers, whatever it is made of.
LEMMA PartIsNumber ==
    ASSUME NEW version \in Releases \cup {VF!NoVersion}
    PROVE  VF!PartOf(version, 1) \in Int
<1>1. version \in Seq(Nat \cup {VF!Text})
  <2>1. Releases \subseteq Seq(Nat \cup {VF!Text})
    BY AlgorithmsAssumption DEF AlgorithmsAssumption
  <2>2. <<>> \in Seq(Nat \cup {VF!Text})
    OBVIOUS
  <2> QED
    BY <2>1, <2>2 DEF VF!NoVersion
<1>2. Len(version) >= 1 => version[1] \in Nat \cup {VF!Text}
  BY <1>1
<1>3. Len(version) \in Nat
  BY <1>1
<1> QED
  BY <1>2, <1>3 DEF VF!PartOf, VF!Text

\* Whichever branch's fix the advisory names first, an unattended step from a
\* vulnerable version goes up, as long as no two branches share a major version.
THEOREM UnattendedStepsGoUp == Spec => []UnattendedStepsUpgrade
<1>1. AdviceInv => UnattendedStepsUpgrade
  <2> SUFFICES ASSUME AdviceInv, algorithm = "route", ~ VF!RequiresHumanApproval(output),
                      OneBranchPerMajor(input.branches),
                      NEW b \in Fixed(input.branches), Affects(b, input.current)
               PROVE  Older(input.current, input.target)
    BY DEF UnattendedStepsUpgrade
  <2> DEFINE known == IF input.released THEN {input.target} ELSE {}
             Major(v) == VF!PartOf(v, 1)
  <2>1. VF!PartOf(input.current, 1) = VF!PartOf(input.target, 1)
    <3>1. /\ input.entries \in SUBSET [direct : BOOLEAN] /\ input.endOfLife \in BOOLEAN
          /\ output = VF!RouteDecision(VF!MavenVerification(input.current, input.target, known,
                                                            input.entries, input.endOfLife))
      BY DEF AdviceInv
    <3> HIDE DEF known
    <3>2. Trusted(input.current, input.target, known, input.entries, input.endOfLife, output)
      BY <3>1, UnattendedRoute
    <3> QED
      BY <3>2 DEF Trusted
  <2>2. PICK c \in Fixed(input.branches) : input.target = c[2]
    <3>1. PICK n \in 1 .. 2 :
             input.branches \in [1 .. n -> Releases \X (Releases \cup {VF!NoVersion})]
      BY DEF AdviceInv
    <3>2. PICK hint : input.target = Advice(input.branches, hint)
      BY DEF AdviceInv
    <3>3. Fixed(input.branches) # {}
      OBVIOUS
    <3> DEFINE branches == input.branches
    <3>4. /\ n \in 1 .. 2
          /\ branches \in [1 .. n -> Releases \X (Releases \cup {VF!NoVersion})]
          /\ Fixed(branches) # {}
      BY <3>1, <3>3
    <3> HIDE DEF branches
    <3>5. \E c \in Fixed(branches) : Advice(branches, hint) = c[2]
      BY <3>4, FixOfSomeBranch
    <3> QED
      BY <3>2, <3>5 DEF branches
  <2>3. ~ VF!PartOf(input.current, 1) < VF!PartOf(b[1], 1)
    <3>1. ~ Older(input.current, b[1])
      BY DEF Affects
    <3> QED
      BY <3>1 DEF Older
  <2>4. \/ VF!PartOf(input.current, 1) < VF!PartOf(b[2], 1)
        \/ VF!PartOf(input.current, 1) = VF!PartOf(b[2], 1)
    <3>1. Older(input.current, b[2])
      BY DEF Affects
    <3> QED
      BY <3>1 DEF Older
  <2>5. \A v \in {input.current, b[1], b[2], c[1], c[2]} : VF!PartOf(v, 1) \in Int
    <3>1. PICK n \in 1 .. 2 :
             input.branches \in [1 .. n -> Releases \X (Releases \cup {VF!NoVersion})]
      BY DEF AdviceInv
    <3>2. {b, c} \subseteq Releases \X (Releases \cup {VF!NoVersion})
      BY <3>1 DEF Fixed, ToSet
    <3>3. input.current \in Releases
      BY DEF AdviceInv
    <3> QED
      BY <3>2, <3>3, PartIsNumber
  <2>6. c = b
    BY <2>1, <2>2, <2>3, <2>4, <2>5 DEF OneBranchPerMajor
  <2> QED
    BY <2>2, <2>6 DEF Affects
<1> QED
  BY <1>1, AdviceInvariant, PTL

\* Between them the two checks of the target leave no other version in the
\* tree, and let every clean tree pass.
THEOREM MixedTreesCaught == Spec => []MixedTreeIsCaught
<1>1. Init => MixedTreeIsCaught
  BY DEF Init, MixedTreeIsCaught
<1>2. MixedTreeIsCaught /\ [Next]_vars => MixedTreeIsCaught'
  <2> SUFFICES ASSUME MixedTreeIsCaught, [Next]_vars PROVE MixedTreeIsCaught'
    OBVIOUS
  <2>1. CASE InspectTree
    <3>1. PICK tree \in UpTo(3, TreeEntries) :
            LET versions == {e.version : e \in {d \in ToSet(tree) : d.package = "lib"}}
            IN  Apply("tree", versions,
                      [preflight |-> POM!Preflight(tree, "lib", "target"),
                       rescan    |-> DS!SecurityFailures(versions, "target")])
      BY <2>1 DEF InspectTree
    <3> DEFINE versions == {e.version : e \in {d \in ToSet(tree) : d.package = "lib"}}
               entries  == {i \in DOMAIN tree : tree[i].package = "lib"}
               atTarget == {i \in entries : tree[i].version = "target"}
    <3>2. /\ input' = versions
          /\ output'.preflight = POM!Preflight(tree, "lib", "target")
          /\ output'.rescan = DS!SecurityFailures(versions, "target")
      BY <3>1 DEF Apply
    <3>3. output'.preflight.passed = (atTarget # {})
      BY <3>2 DEF POM!Preflight
    <3>4. output'.rescan = {} <=> versions \subseteq {"target"}
      BY <3>2 DEF DS!SecurityFailures
    <3>5. atTarget # {} <=> "target" \in versions
      BY DEF ToSet
    <3> HIDE DEF versions, atTarget
    <3> QED
      BY <3>2, <3>3, <3>4, <3>5 DEF MixedTreeIsCaught
  <2>2. CASE UNCHANGED vars
    BY <2>2 DEF vars, MixedTreeIsCaught
  <2>3. CASE algorithm' # "tree"
    BY <2>3 DEF MixedTreeIsCaught
  <2> QED
    BY <2>1, <2>2, <2>3, StepsName DEF Next
<1> QED
  BY <1>1, <1>2, PTL DEF Spec

-----------------------------------------------------------------------------
(* Sorting.  Induction on the size of what is sorted, by way of a smallest  *)
(* set that could not be.                                                   *)

\* Every two elements of a set are ordered one way, and the order is one.
TotalOrder(R, U) ==
    /\ \A x, y \in U : x # y => <<x, y>> \in R \/ <<y, x>> \in R
    /\ \A x, y, z \in U : <<x, y>> \in R /\ <<y, z>> \in R => <<x, z>> \in R

Sorts(f, R, S) ==
    /\ f \in [1 .. Cardinality(S) -> S]
    /\ \A i, j \in 1 .. Cardinality(S) : f[i] = f[j] => i = j
    /\ \A x \in S : \E i \in 1 .. Cardinality(S) : f[i] = x
    /\ \A i, j \in 1 .. Cardinality(S) : i < j => <<f[i], f[j]>> \in R

\* A finite set that is not empty has a first element.
LEMMA FirstExists ==
    ASSUME NEW R, NEW U, TotalOrder(R, U)
    PROVE  \A S \in SUBSET U : IsFiniteSet(S) /\ S # {} =>
               \E x \in S : \A y \in S \ {x} : <<x, y>> \in R
<1> DEFINE HasFirst(S) == \E x \in S : \A y \in S \ {x} : <<x, y>> \in R
           Bad == {n \in Nat : \E S \in SUBSET U : /\ IsFiniteSet(S) /\ S # {}
                                                   /\ Cardinality(S) = n /\ ~ HasFirst(S)}
<1>1. ASSUME Bad # {} PROVE FALSE
  <2>1. PICK n \in Bad : \A m \in Bad : n <= m
    BY <1>1, LeastOfSome
  <2>2. PICK S \in SUBSET U : /\ IsFiniteSet(S) /\ S # {}
                              /\ Cardinality(S) = n /\ ~ HasFirst(S)
    BY <2>1
  <2>3. PICK x \in S : TRUE
    BY <2>2
  <2> DEFINE T == S \ {x}
  <2>4. IsFiniteSet(T) /\ Cardinality(T) = n - 1 /\ n \in Nat /\ n - 1 \in Nat
    <3>1. IsFiniteSet(T) /\ Cardinality(T) = n - 1
      BY <2>2, <2>3, FS_RemoveElement
    <3>2. n \in Nat /\ n - 1 \in Int
      BY <2>2, FS_CardinalityType
    <3>3. Cardinality(T) \in Nat
      BY <3>1, FS_CardinalityType
    <3> QED
      BY <3>1, <3>2, <3>3
  <2>5. T # {}
    BY <2>2, <2>3
  <2>6. HasFirst(T)
    <3>1. n - 1 \notin Bad
      BY <2>1, <2>4
    <3> HIDE DEF HasFirst
    <3> QED
      BY <2>4, <2>5, <3>1
  <2>7. PICK t \in T : \A y \in T \ {t} : <<t, y>> \in R
    BY <2>6
  <2>8. CASE <<x, t>> \in R
    <3>1. \A y \in S \ {x} : <<x, y>> \in R
      BY <2>3, <2>7, <2>8 DEF TotalOrder
    <3> QED
      BY <2>2, <2>3, <3>1
  <2>9. CASE <<t, x>> \in R
    <3>1. \A y \in S \ {t} : <<t, y>> \in R
      BY <2>3, <2>7, <2>9
    <3> QED
      BY <2>2, <2>7, <3>1
  <2> QED
    BY <2>3, <2>7, <2>8, <2>9 DEF TotalOrder
<1>2. ASSUME NEW S \in SUBSET U, IsFiniteSet(S), S # {} PROVE HasFirst(S)
  <2>1. Cardinality(S) \in Nat
    BY <1>2, FS_CardinalityType
  <2> HIDE DEF HasFirst
  <2> QED
    BY <1>1, <1>2, <2>1
<1> QED
  BY <1>2

\* A finite set can be sorted.
LEMMA SortExists ==
    ASSUME NEW R, NEW U, TotalOrder(R, U)
    PROVE  \A S \in SUBSET U : IsFiniteSet(S) => \E f : Sorts(f, R, S)
<1> DEFINE Sortable(S) == \E f : Sorts(f, R, S)
           Bad == {n \in Nat : \E S \in SUBSET U :
                     IsFiniteSet(S) /\ Cardinality(S) = n /\ ~ Sortable(S)}
<1>1. ASSUME Bad # {} PROVE FALSE
  <2>1. PICK n \in Bad : \A m \in Bad : n <= m
    BY <1>1, LeastOfSome
  <2>2. PICK S \in SUBSET U : IsFiniteSet(S) /\ Cardinality(S) = n /\ ~ Sortable(S)
    BY <2>1
  <2>3. S # {}
    <3>1. ASSUME S = {} PROVE Sorts([i \in 1 .. 0 |-> i], R, S)
      BY <3>1, FS_EmptySet DEF Sorts
    <3> QED
      BY <2>2, <3>1
  <2>4. PICK x \in S : \A y \in S \ {x} : <<x, y>> \in R
    BY <2>2, <2>3, FirstExists
  <2> DEFINE T == S \ {x}
  <2>5. IsFiniteSet(T) /\ Cardinality(T) = n - 1 /\ n \in Nat /\ n - 1 \in Nat
    <3>1. IsFiniteSet(T) /\ Cardinality(T) = n - 1
      BY <2>2, <2>4, FS_RemoveElement
    <3>2. n \in Nat /\ n - 1 \in Int
      BY <2>2, FS_CardinalityType
    <3>3. Cardinality(T) \in Nat
      BY <3>1, FS_CardinalityType
    <3> QED
      BY <3>1, <3>2, <3>3
  <2>6. Sortable(T)
    <3>1. n - 1 \notin Bad
      BY <2>1, <2>5
    <3> HIDE DEF Sortable
    <3> QED
      BY <2>5, <3>1
  <2>7. PICK f : Sorts(f, R, T)
    BY <2>6
  <2> DEFINE g == [i \in 1 .. n |-> IF i = 1 THEN x ELSE f[i - 1]]
  <2>8. ASSUME NEW i \in 2 .. n
        PROVE  i - 1 \in 1 .. n - 1 /\ g[i] = f[i - 1] /\ g[i] \in T
    <3>1. n \in Nat /\ i \in Nat /\ i >= 2 /\ i <= n
      BY <2>5
    <3>2. i - 1 \in 1 .. n - 1
      BY <3>1
    <3>3. g[i] = f[i - 1]
      BY <3>1
    <3>4. f[i - 1] \in T
      <4> HIDE DEF T
      <4> QED
        BY <2>5, <2>7, <3>2 DEF Sorts
    <3> QED
      BY <3>2, <3>3, <3>4
  <2>9. 1 \in 1 .. n /\ g[1] = x
    BY <2>5
  <2>10. \A i \in 1 .. n : i = 1 \/ i \in 2 .. n
    BY <2>5
  <2>11. g \in [1 .. n -> S]
    BY <2>4, <2>8, <2>9, <2>10
  <2>12. ASSUME NEW i \in 1 .. n, NEW j \in 1 .. n, g[i] = g[j] PROVE i = j
    <3>1. CASE i = 1 \/ j = 1
      BY <2>8, <2>9, <2>10, <2>12, <3>1
    <3>2. CASE i \in 2 .. n /\ j \in 2 .. n
      <4>1. i - 1 = j - 1
        BY <2>5, <2>7, <2>8, <2>12, <3>2 DEF Sorts
      <4> QED
        BY <4>1, <2>5
    <3> QED
      BY <2>10, <3>1, <3>2
  <2>13. ASSUME NEW y \in S PROVE \E i \in 1 .. n : g[i] = y
    <3>1. CASE y = x
      BY <2>9, <3>1
    <3>2. CASE y # x
      <4>1. PICK k \in 1 .. n - 1 : f[k] = y
        BY <2>5, <2>7, <2>13, <3>2 DEF Sorts
      <4>2. k + 1 \in 2 .. n /\ k + 1 \in 1 .. n /\ (k + 1) - 1 = k
        BY <2>5
      <4>3. g[k + 1] = y
        BY <2>8, <4>1, <4>2
      <4> QED
        BY <4>2, <4>3
    <3> QED
      BY <3>1, <3>2
  <2>14. ASSUME NEW i \in 1 .. n, NEW j \in 1 .. n, i < j PROVE <<g[i], g[j]>> \in R
    <3>1. j \in 2 .. n
      BY <2>5, <2>14
    <3>2. CASE i = 1
      BY <2>4, <2>8, <2>9, <3>1, <3>2
    <3>3. CASE i \in 2 .. n
      <4>1. i - 1 < j - 1
        BY <2>5, <2>14
      <4> QED
        BY <2>5, <2>7, <2>8, <3>1, <3>3, <4>1 DEF Sorts
    <3> QED
      BY <2>10, <3>2, <3>3
  <2> HIDE DEF g
  <2>15. Sorts(g, R, S)
    BY <2>2, <2>11, <2>12, <2>13, <2>14 DEF Sorts
  <2> QED
    BY <2>2, <2>15
<1>2. ASSUME NEW S \in SUBSET U, IsFiniteSet(S) PROVE Sortable(S)
  <2>1. Cardinality(S) \in Nat
    BY <1>2, FS_CardinalityType
  <2> HIDE DEF Sortable
  <2> QED
    BY <1>1, <1>2, <2>1
<1> QED
  BY <1>2

\* What sorting the places of the released versions returns.
LEMMA VersionsSort ==
    ASSUME NEW R, NEW S, TotalOrder(R, S), IsFiniteSet(S)
    PROVE  Sorts(VR!InOrder(S, R), R, S)
<1> DEFINE n == Cardinality(S)
<1>1. VR!Cardinality(S) = n
  BY DEF VR!Cardinality, Cardinality
<1>2. PICK f : Sorts(f, R, S)
  BY SortExists
<1> DEFINE In(order) == \A i, j \in DOMAIN order : i < j => <<order[i], order[j]>> \in R
<1>3. f \in VR!Bijection(1 .. n, S) /\ In(f)
  BY <1>2 DEF Sorts, VR!Bijection, VR!Injection, VR!Surjection, VR!IsInjective
<1>4. VR!InOrder(S, R) = CHOOSE order \in VR!Bijection(1 .. n, S) : In(order)
  BY <1>1 DEF VR!InOrder
<1>5. VR!InOrder(S, R) \in VR!Bijection(1 .. n, S) /\ In(VR!InOrder(S, R))
  <2> HIDE DEF n, In
  <2> QED
    BY <1>3, <1>4
<1> QED
  BY <1>5 DEF Sorts, VR!Bijection, VR!Injection, VR!Surjection, VR!IsInjective

-----------------------------------------------------------------------------
(* Affected ranges and the fix picked out of them. *)

\* What is above a bound stays above it further up, and likewise below.
LEMMA BoundsMonotone ==
    ASSUME NEW v \in Seq(Pieces), NEW w \in Seq(Pieces), NEW bound \in Seq(Pieces),
           NEW inclusive \in BOOLEAN, VR!CompareVersions(v, w) <= 0
    PROVE  /\ VR!Above(v, bound, inclusive) => VR!Above(w, bound, inclusive)
           /\ VR!Below(w, bound, inclusive) => VR!Below(v, bound, inclusive)
<1> DEFINE C(x, y) == VR!CompareVersions(x, y)
<1>1. /\ C(v, bound) \in {-1, 0, 1} /\ C(bound, v) = - C(v, bound)
      /\ C(w, bound) \in {-1, 0, 1} /\ C(bound, w) = - C(w, bound)
  BY VersionsOrdered
<1>2. /\ C(bound, v) <= 0 => C(bound, w) <= 0
      /\ C(bound, v) < 0 => C(bound, w) < 0
  BY VersionsOrdered
<1>3. /\ C(w, bound) <= 0 => C(v, bound) <= 0
      /\ C(w, bound) < 0 => C(v, bound) < 0
  BY VersionsOrdered
<1>4. VR!Above(v, bound, inclusive) <=> bound = VR!NoBound \/ C(v, bound) > 0
                                        \/ (inclusive /\ C(v, bound) = 0)
  BY DEF VR!Above
<1>5. VR!Above(w, bound, inclusive) <=> bound = VR!NoBound \/ C(w, bound) > 0
                                        \/ (inclusive /\ C(w, bound) = 0)
  BY DEF VR!Above
<1>6. VR!Below(v, bound, inclusive) <=> bound = VR!NoBound \/ C(v, bound) < 0
                                        \/ (inclusive /\ C(v, bound) = 0)
  BY DEF VR!Below
<1>7. VR!Below(w, bound, inclusive) <=> bound = VR!NoBound \/ C(w, bound) < 0
                                        \/ (inclusive /\ C(w, bound) = 0)
  BY DEF VR!Below
<1> HIDE DEF C
<1> QED
  BY <1>1, <1>2, <1>3, <1>4, <1>5, <1>6, <1>7

\* A segment affects an interval, and an end of two belongs to it only in a
\* square bracket.
LEMMA SegmentInterval ==
    ASSUME NEW segment \in Segments, NEW affected,
           affected = {v \in Versions : VR!MatchesSegment(v, segment)}
    PROVE  SegmentIsInterval(segment, affected)
<1> DEFINE bounds == segment.bounds
           last == Len(bounds)
           lower == bounds[1]
           upper == bounds[last]
           low == last = 1 \/ segment.open = "["
           high == last = 1 \/ segment.close = "]"
<1>1. lower \in Seq(Pieces) /\ upper \in Seq(Pieces)
  <2>1. bounds \in Seq(Seq(Pieces)) \ {<<>>}
    BY AlgorithmsAssumption
  <2>2. last \in Nat /\ last # 0
    BY <2>1
  <2>3. 1 \in 1 .. last /\ last \in 1 .. last
    BY <2>2
  <2> HIDE DEF bounds
  <2> QED
    BY <2>1, <2>3
<1>2. \A v : VR!MatchesSegment(v, segment) <=>
               VR!Above(v, lower, low) /\ VR!Below(v, upper, high)
  BY DEF VR!MatchesSegment
<1>3. low \in BOOLEAN /\ high \in BOOLEAN
  OBVIOUS
<1>4. \A v \in Versions : v \in Seq(Pieces) /\ v # VR!NoBound
  BY AlgorithmsAssumption DEF VR!NoBound
<1>5. ASSUME NEW a \in affected, NEW c \in affected, NEW b \in Versions \ affected
      PROVE  VR!CompareVersions(a, b) > 0 \/ VR!CompareVersions(b, c) > 0
  <2>1. a \in Seq(Pieces) /\ b \in Seq(Pieces) /\ c \in Seq(Pieces)
    BY <1>4
  <2>2. VR!Above(a, lower, low) /\ VR!Below(c, upper, high)
    BY <1>2
  <2>3. ~ (VR!Above(b, lower, low) /\ VR!Below(b, upper, high))
    BY <1>2
  <2>4. VR!CompareVersions(a, b) \in {-1, 0, 1} /\ VR!CompareVersions(b, c) \in {-1, 0, 1}
    BY <2>1, VersionsOrdered
  <2> HIDE DEF lower, upper, low, high
  <2>5. VR!CompareVersions(a, b) <= 0 => VR!Above(b, lower, low)
    BY <1>1, <1>3, <2>1, <2>2, BoundsMonotone
  <2>6. VR!CompareVersions(b, c) <= 0 => VR!Below(b, upper, high)
    BY <1>1, <1>3, <2>1, <2>2, BoundsMonotone
  <2> QED
    BY <2>3, <2>4, <2>5, <2>6
<1>6. ASSUME last = 2, lower \in affected PROVE segment.open = "["
  <2>1. VR!Above(lower, lower, low) /\ lower # VR!NoBound
    BY <1>2, <1>4, <1>6
  <2>2. VR!CompareVersions(lower, lower) = 0
    BY <1>1, VersionsOrdered
  <2> QED
    BY <1>6, <2>1, <2>2 DEF VR!Above
<1>7. ASSUME last = 2, upper \in affected PROVE segment.close = "]"
  <2>1. VR!Below(upper, upper, high) /\ upper # VR!NoBound
    BY <1>2, <1>4, <1>7
  <2>2. VR!CompareVersions(upper, upper) = 0
    BY <1>1, VersionsOrdered
  <2> QED
    BY <1>7, <2>1, <2>2 DEF VR!Below
<1> QED
  BY <1>5, <1>6, <1>7 DEF SegmentIsInterval

\* Sorting versions keeps them all and puts none before a lower one.
LEMMA AscendingSorts ==
    ASSUME NEW n \in Nat, NEW versions \in [1 .. n -> Seq(Pieces)]
    PROVE  LET sorted == VR!Ascending(versions)
           IN  /\ sorted \in [1 .. n -> Seq(Pieces)]
               /\ ToSet(sorted) = ToSet(versions)
               /\ \A i, j \in 1 .. n : i < j => VR!CompareVersions(sorted[i], sorted[j]) <= 0
<1> DEFINE C(i, j) == VR!CompareVersions(versions[i], versions[j])
           Before(i, j) == C(i, j) < 0 \/ (C(i, j) = 0 /\ i < j)
           places == 1 .. n
           R == {p \in places \X places : Before(p[1], p[2])}
           order == VR!InOrder(places, R)
           sorted == [i \in places |-> versions[order[i]]]
<1>1. VR!Ascending(versions) = sorted
  BY DEF VR!Ascending
<1>2. \A i, j \in places : <<i, j>> \in R <=> Before(i, j)
  OBVIOUS
<1>3. \A i, j \in places : C(i, j) \in {-1, 0, 1} /\ C(j, i) = - C(i, j)
  BY VersionsOrdered
<1>4. \A i, j, k \in places :
        /\ C(i, j) <= 0 /\ C(j, k) <= 0 => C(i, k) <= 0
        /\ C(i, j) <= 0 /\ C(j, k) < 0 => C(i, k) < 0
        /\ C(i, j) < 0 /\ C(j, k) <= 0 => C(i, k) < 0
  BY VersionsOrdered
<1>5. IsFiniteSet(places) /\ Cardinality(places) = n
  BY FS_Interval
<1>6. TotalOrder(R, places)
  <2>0. places \subseteq Int
    OBVIOUS
  <2> HIDE DEF C, R, places
  <2>1. ASSUME NEW i \in places, NEW j \in places, i # j
        PROVE  <<i, j>> \in R \/ <<j, i>> \in R
    <3>1. i < j \/ j < i
      BY <2>0, <2>1
    <3>2. C(i, j) \in {-1, 0, 1} /\ C(j, i) = - C(i, j)
      BY <1>3
    <3>3. Before(i, j) \/ Before(j, i)
      BY <3>1, <3>2
    <3> QED
      BY <1>2, <3>3
  <2>2. ASSUME NEW i \in places, NEW j \in places, NEW k \in places,
               <<i, j>> \in R, <<j, k>> \in R
        PROVE  <<i, k>> \in R
    <3>1. Before(i, j) /\ Before(j, k)
      BY <1>2, <2>2
    <3>2. C(i, j) \in {-1, 0, 1} /\ C(j, k) \in {-1, 0, 1} /\ C(i, k) \in {-1, 0, 1}
      BY <1>3
    <3>3. C(i, j) <= 0 /\ C(j, k) <= 0
      BY <3>1, <3>2
    <3>4. /\ C(i, k) <= 0
          /\ C(j, k) < 0 => C(i, k) < 0
          /\ C(i, j) < 0 => C(i, k) < 0
      BY <1>4, <3>3
    <3>5. i \in Int /\ j \in Int /\ k \in Int
      BY <2>0
    <3>6. Before(i, k)
      BY <3>1, <3>2, <3>3, <3>4, <3>5
    <3> QED
      BY <1>2, <3>6
  <2> QED
    BY <2>1, <2>2 DEF TotalOrder
<1>7. Sorts(order, R, places)
  <2> HIDE DEF R, places
  <2> QED
    BY <1>5, <1>6, VersionsSort
<1> HIDE DEF R, order
<1>8. /\ order \in [places -> places]
      /\ \A k \in places : \E i \in places : order[i] = k
      /\ \A i, j \in places : i < j => <<order[i], order[j]>> \in R
  BY <1>5, <1>7 DEF Sorts
<1>9. sorted \in [places -> Seq(Pieces)]
  BY <1>8
<1>10. ToSet(sorted) = ToSet(versions)
  BY <1>8 DEF ToSet
<1>11. ASSUME NEW i \in places, NEW j \in places, i < j
       PROVE  VR!CompareVersions(sorted[i], sorted[j]) <= 0
  <2>1. Before(order[i], order[j])
    BY <1>2, <1>8, <1>11
  <2>2. order[i] \in places /\ order[j] \in places
    BY <1>8
  <2>3. C(order[i], order[j]) <= 0
    <3> HIDE DEF C, places
    <3>1. C(order[i], order[j]) \in {-1, 0, 1}
      BY <1>3, <2>2
    <3> QED
      BY <2>1, <3>1
  <2> QED
    BY <2>3
<1> QED
  BY <1>1, <1>9, <1>10, <1>11

\* The first fix of sorted versions is a lowest one.
LEMMA FirstFixIsLowest ==
    ASSUME NEW n \in Nat, NEW sorted \in [1 .. n -> Seq(Pieces)], NEW current, NEW ranges,
           \A i, j \in 1 .. n : i < j => VR!CompareVersions(sorted[i], sorted[j]) <= 0
    PROVE  LET fixes == {v \in ToSet(sorted) : VR!IsFixVersion(v, current, ranges)}
               fix == VR!FirstFix(sorted, current, ranges)
           IN  IF fixes = {} THEN fix = VR!NoFix
               ELSE fix \in fixes /\ \A v \in fixes : VR!CompareVersions(fix, v) <= 0
<1> DEFINE IsFix(v) == VR!IsFixVersion(v, current, ranges)
           fixes == {v \in ToSet(sorted) : IsFix(v)}
           found == {i \in 1 .. Len(sorted) : IsFix(sorted[i])}
           first == VR!SelectInSeq(sorted, IsFix)
           fix == VR!FirstFix(sorted, current, ranges)
<1>1. Len(sorted) = n /\ DOMAIN sorted = 1 .. n
  OBVIOUS
<1>2. first = IF found # {} THEN VR!Min(found) ELSE 0
  BY DEF VR!SelectInSeq
<1>3. fix = IF first = 0 THEN VR!NoFix ELSE sorted[first]
  BY DEF VR!FirstFix
<1>4. \A v : v \in fixes <=> \E i \in found : v = sorted[i]
  BY <1>1 DEF ToSet
<1>5. found \subseteq 1 .. n
  BY <1>1
<1> HIDE DEF found, fixes, first, fix
<1>6. CASE found = {}
  BY <1>2, <1>3, <1>4, <1>6 DEF fixes, fix
<1>7. CASE found # {}
  <2>1. \E i \in found : \A j \in found : i <= j
    BY <1>5, <1>7, LeastOfSome
  <2>2. VR!Min(found) \in found /\ \A j \in found : VR!Min(found) <= j
    BY <2>1 DEF VR!Min
  <2>3. /\ first \in found /\ first \in 1 .. n /\ first # 0
        /\ \A j \in found : first = j \/ first < j
    <3>1. first = VR!Min(found)
      BY <1>2, <1>7
    <3>2. first \in found /\ \A j \in found : first <= j
      BY <2>2, <3>1
    <3>3. first \in 1 .. n /\ first # 0
      BY <1>5, <3>2
    <3>4. ASSUME NEW j \in found PROVE first = j \/ first < j
      <4>1. j \in 1 .. n /\ first <= j
        BY <1>5, <3>2
      <4> QED
        BY <3>3, <4>1
    <3> QED
      BY <3>2, <3>3, <3>4
  <2>4. fix = sorted[first]
    BY <1>3, <2>3
  <2>5. fix \in fixes
    BY <1>4, <2>3, <2>4
  <2>6. ASSUME NEW v \in fixes PROVE VR!CompareVersions(fix, v) <= 0
    <3>1. PICK j \in found : v = sorted[j]
      BY <1>4
    <3>2. CASE first = j
      <4>1. VR!CompareVersions(fix, v) = 0
        BY <2>3, <2>4, <3>1, <3>2, VersionsOrdered
      <4> QED
        BY <4>1
    <3>3. CASE first < j
      BY <1>5, <2>3, <2>4, <3>1, <3>3
    <3> QED
      BY <2>3, <3>2, <3>3
  <2> QED
    BY <2>5, <2>6 DEF fixes, fix
<1> QED
  BY <1>6, <1>7

\* However many versions there are, the one picked is a lowest of the fixes,
\* and one is picked if there is any.
THEOREM PickIsLowest ==
    ASSUME NEW n \in Nat, NEW versions \in [1 .. n -> Seq(Pieces)], NEW current, NEW ranges
    PROVE  LET fixes == {v \in ToSet(versions) : VR!IsFixVersion(v, current, ranges)}
               fix == VR!PickLowestFixVersion(versions, current, ranges)
           IN  IF fixes = {} THEN fix = VR!NoFix
               ELSE fix \in fixes /\ \A v \in fixes : VR!CompareVersions(fix, v) <= 0
<1> DEFINE sorted == VR!Ascending(versions)
<1>1. /\ sorted \in [1 .. n -> Seq(Pieces)] /\ ToSet(sorted) = ToSet(versions)
      /\ \A i, j \in 1 .. n : i < j => VR!CompareVersions(sorted[i], sorted[j]) <= 0
  BY AscendingSorts
<1>2. VR!PickLowestFixVersion(versions, current, ranges) = VR!FirstFix(sorted, current, ranges)
  BY DEF VR!PickLowestFixVersion
<1> HIDE DEF sorted
<1> QED
  BY <1>1, <1>2, FirstFixIsLowest

\* Whatever the versions and the brackets, a segment affects an interval, a
\* range what its segments affect, and the version picked is the lowest fix.
THEOREM RangesAffectIntervals == Spec => []RangesAreIntervals
<1>1. Init => RangesAreIntervals
  BY DEF Init, RangesAreIntervals
<1>2. RangesAreIntervals /\ [Next]_vars => RangesAreIntervals'
  <2> SUFFICES ASSUME RangesAreIntervals, [Next]_vars PROVE RangesAreIntervals'
    OBVIOUS
  <2>1. CASE MatchRange
    <3>1. PICK range \in UpTo(2, Segments) :
            Apply("range", range, {v \in Versions : VR!IsAffected(v, {range})})
      BY <2>1 DEF MatchRange
    <3>2. /\ algorithm' = "range" /\ input' = range
          /\ output' = {v \in Versions : VR!IsAffected(v, {range})}
      BY <3>1 DEF Apply
    <3>3. PICK m \in 0 .. 2 : range \in [1 .. m -> Segments]
      BY DEF UpTo, BoundedSeq, SeqOf
    <3>4. Len(range) = m /\ DOMAIN range = 1 .. m /\ ToSet(range) = {range[i] : i \in 1 .. m}
      BY <3>3 DEF ToSet
    <3>5. \A v : VR!IsAffected(v, {range}) <=> \E i \in 1 .. m : VR!MatchesSegment(v, range[i])
      BY <3>4 DEF VR!IsAffected
    <3>6. CASE m = 1
      <4>1. 1 .. m = {1}
        BY <3>6
      <4>2. range[1] \in Segments
        BY <3>3, <4>1
      <4>3. output' = {v \in Versions : VR!MatchesSegment(v, range[1])}
        BY <3>2, <3>5, <4>1
      <4>4. SegmentIsInterval(range[1], output')
        BY <4>2, <4>3, SegmentInterval
      <4>5. SegmentIsInterval(range[1], output)'
        BY <4>4 DEF SegmentIsInterval
      <4> QED
        BY <3>2, <3>4, <3>6, <4>4, <4>5 DEF RangesAreIntervals
    <3>7. CASE m # 1
      <4>1. \A s, v : VR!IsAffected(v, {<<s>>}) <=> VR!MatchesSegment(v, s)
        BY DEF VR!IsAffected
      <4>2. output' = UNION {{v \in Versions : VR!IsAffected(v, {<<s>>})} : s \in ToSet(range)}
        <5> DEFINE Affected(s) == {v \in Versions : VR!MatchesSegment(v, s)}
        <5>1. \A s : {v \in Versions : VR!IsAffected(v, {<<s>>})} = Affected(s)
          BY <4>1
        <5>2. output' = UNION {Affected(range[i]) : i \in 1 .. m}
          BY <3>2, <3>5
        <5> HIDE DEF Affected
        <5>3. output' = UNION {Affected(s) : s \in ToSet(range)}
          BY <3>4, <5>2
        <5> QED
          BY <5>1, <5>3
      <4> QED
        BY <3>2, <3>4, <3>7, <4>2 DEF RangesAreIntervals
    <3> QED
      BY <3>6, <3>7
  <2>2. CASE PickFix
    <3>1. PICK versions \in [1 .. 3 -> Candidates], current \in Candidates,
               segment \in Segments :
            Apply("fix", [versions |-> versions, current |-> current, ranges |-> {<<segment>>}],
                  VR!PickLowestFixVersion(versions, current, {<<segment>>}))
      BY <2>2 DEF PickFix
    <3> DEFINE ranges == {<<segment>>}
    <3>2. /\ algorithm' = "fix" /\ input'.versions = versions /\ input'.current = current
          /\ input'.ranges = ranges
          /\ output' = VR!PickLowestFixVersion(versions, current, ranges)
      BY <3>1 DEF Apply
    <3>3. versions \in [1 .. 3 -> Seq(Pieces)]
      BY AlgorithmsAssumption
    <3> HIDE DEF ranges
    <3> DEFINE fixes == {v \in ToSet(versions) : VR!IsFixVersion(v, current, ranges)}
    <3>4. IF fixes = {} THEN output' = VR!NoFix
          ELSE output' \in fixes /\ \A v \in fixes : VR!CompareVersions(output', v) <= 0
      BY <3>2, <3>3, PickIsLowest
    <3> QED
      BY <3>2, <3>4 DEF RangesAreIntervals
  <2>3. CASE UNCHANGED vars
    BY <2>3 DEF vars, RangesAreIntervals, SegmentIsInterval
  <2>4. CASE algorithm' \notin {"range", "fix"}
    BY <2>4 DEF RangesAreIntervals
  <2> QED
    BY <2>1, <2>2, <2>3, <2>4, StepsName DEF Next
<1> QED
  BY <1>1, <1>2, PTL DEF Spec

-----------------------------------------------------------------------------
(* Candidates for a removed symbol. *)

\* What sorting the candidates returns.
LEMMA CandidatesSort ==
    ASSUME NEW R, NEW S, TotalOrder(R, S), IsFiniteSet(S)
    PROVE  Sorts(TP!InOrder(S, R), R, S)
<1> DEFINE n == Cardinality(S)
<1>1. TP!Cardinality(S) = n
  BY DEF TP!Cardinality, Cardinality
<1>2. PICK f : Sorts(f, R, S)
  BY SortExists
<1> DEFINE In(order) == \A i, j \in DOMAIN order : i < j => <<order[i], order[j]>> \in R
<1>3. f \in TP!Bijection(1 .. n, S) /\ In(f)
  BY <1>2 DEF Sorts, TP!Bijection, TP!Injection, TP!Surjection, TP!IsInjective
<1>4. TP!InOrder(S, R) = CHOOSE order \in TP!Bijection(1 .. n, S) : In(order)
  BY <1>1 DEF TP!InOrder
<1>5. TP!InOrder(S, R) \in TP!Bijection(1 .. n, S) /\ In(TP!InOrder(S, R))
  <2> HIDE DEF n, In
  <2> QED
    BY <1>3, <1>4
<1> QED
  BY <1>5 DEF Sorts, TP!Bijection, TP!Injection, TP!Surjection, TP!IsInjective

\* Two packages have a longest beginning in common.
LEMMA CommonPrefix ==
    ASSUME NEW left \in Seq(STRING), NEW right \in Seq(STRING)
    PROVE  Len(TP!LongestCommonPrefix({left, right})) \in Nat
<1> DEFINE common == TP!CommonPrefixes({left, right})
           n == Len(left) + Len(right)
           spare == {m \in Nat : \E p \in common : m = n - Len(p)}
<1>1. ASSUME NEW p \in common PROVE Len(p) \in 0 .. n
  <2>1. PICK s \in {left, right} : p \in TP!Prefixes(s)
    BY <1>1 DEF TP!CommonPrefixes
  <2>2. PICK l \in 0 .. Len(s) : p = SubSeq(s, 1, l)
    BY <2>1 DEF TP!Prefixes
  <2> QED
    BY <2>2
<1>2. \E p : p \in common
  <2> DEFINE p == SubSeq(left, 1, 0)
  <2>1. p \in TP!Prefixes(left)
    BY DEF TP!Prefixes
  <2>2. p = <<>> /\ SubSeq(right, 1, 0) = <<>> /\ Len(p) = 0
    OBVIOUS
  <2>3. TP!IsPrefix(p, left) /\ TP!IsPrefix(p, right)
    BY <2>2 DEF TP!IsPrefix
  <2> QED
    BY <2>1, <2>3 DEF TP!CommonPrefixes
<1> HIDE DEF common
<1>3. spare # {} /\ spare \subseteq Nat
  <2>1. PICK p : p \in common
    BY <1>2
  <2>2. n \in Nat /\ Len(p) \in 0 .. n
    BY <1>1, <2>1
  <2>3. n - Len(p) \in Nat
    BY <2>2
  <2> QED
    BY <2>1, <2>3
<1>4. PICK m \in spare : \A k \in spare : m <= k
  <2> HIDE DEF spare
  <2> QED
    BY <1>3, LeastOfSome
<1>5. PICK p \in common : m = n - Len(p)
  BY <1>4
<1>6. ASSUME NEW q \in common PROVE Len(q) <= Len(p)
  <2>1. n \in Nat /\ Len(p) \in 0 .. n /\ Len(q) \in 0 .. n
    BY <1>1
  <2>2. n - Len(q) \in spare
    BY <2>1
  <2>3. m <= n - Len(q)
    BY <1>4, <2>2
  <2> QED
    BY <1>5, <2>1, <2>3
<1>7. TP!LongestCommonPrefix({left, right}) \in common
  BY <1>5, <1>6 DEF TP!LongestCommonPrefix, common
<1> QED
  BY <1>1, <1>7

\* A fraction of integers whose denominator is positive.
Fractions == Int \X (Nat \ {0})

LEMMA FractionsAdd ==
    ASSUME NEW p \in Fractions, NEW q \in Fractions
    PROVE  TP!Plus(p, q) \in Fractions /\ TP!Rounded(p[1], p[2]) \in Int
<1>1. /\ p[1] \in Int /\ p[2] \in Int /\ p[2] > 0
      /\ q[1] \in Int /\ q[2] \in Int /\ q[2] > 0
  BY DEF Fractions
<1>2. p[1] * q[2] + q[1] * p[2] \in Int
  BY <1>1
<1>3. p[2] * q[2] \in Int /\ p[2] * q[2] > 0
  BY <1>1
<1>4. TP!Plus(p, q) \in Fractions
  BY <1>2, <1>3 DEF TP!Plus, Fractions
<1>5. 2 * p[1] + p[2] \in Int /\ 2 * p[2] \in Int /\ 2 * p[2] > 0
  BY <1>1
<1>6. (2 * p[1] + p[2]) \div (2 * p[2]) \in Int
  BY <1>5
<1> QED
  BY <1>4, <1>6 DEF TP!Rounded

\* Every pair of symbols has a confidence.
LEMMA ConfidenceType ==
    ASSUME NEW legacy \in Symbols, NEW symbol \in Symbols
    PROVE  TP!Confidence(legacy, symbol) \in Int
<1>1. /\ IsFiniteSet(legacy.tokens) /\ IsFiniteSet(symbol.tokens)
      /\ legacy.params \in Seq(STRING) /\ symbol.params \in Seq(STRING)
      /\ legacy.package \in Seq(STRING) /\ symbol.package \in Seq(STRING)
  BY AlgorithmsAssumption
<1>2. \A S : TP!Cardinality(S) = Cardinality(S)
  BY DEF TP!Cardinality, Cardinality
<1>3. TP!NameScore(6000, legacy.tokens, symbol.tokens) \in Fractions
  <2> DEFINE all == legacy.tokens \cup symbol.tokens
             both == legacy.tokens \cap symbol.tokens
  <2>1. IsFiniteSet(all) /\ IsFiniteSet(both)
    BY <1>1, FS_Union, FS_Intersection
  <2>2. Cardinality(all) \in Nat /\ Cardinality(both) \in Nat
    BY <2>1, FS_CardinalityType
  <2>3. all # {} => Cardinality(all) # 0
    BY <2>1, FS_EmptySet
  <2>4. TP!NameScore(6000, legacy.tokens, symbol.tokens) =
          IF all = {} THEN <<0, 1>> ELSE <<6000 * Cardinality(both), Cardinality(all)>>
    BY <1>2 DEF TP!NameScore
  <2> HIDE DEF all, both
  <2> QED
    BY <2>2, <2>3, <2>4 DEF Fractions
<1>4. TP!SignatureScore(3000, legacy.params, symbol.params) \in Fractions
  <2> DEFINE left == legacy.params
             right == symbol.params
             same == {i \in DOMAIN left : left[i] = right[i]}
  <2>1. CASE left = <<>> /\ right = <<>>
    <3>1. TP!SignatureScore(3000, left, right) = <<3000, 1>>
      BY <2>1 DEF TP!SignatureScore
    <3> QED
      BY <3>1 DEF Fractions
  <2>2. CASE ~ (left = <<>> /\ right = <<>>) /\ Len(left) # Len(right)
    <3>1. TP!SignatureScore(3000, left, right) = <<0, 1>>
      BY <2>2 DEF TP!SignatureScore
    <3> QED
      BY <3>1 DEF Fractions
  <2>3. CASE ~ (left = <<>> /\ right = <<>>) /\ Len(left) = Len(right)
    <3>1. TP!SignatureScore(3000, left, right) = <<3000 * Cardinality(same), Len(left)>>
      BY <1>2, <2>3 DEF TP!SignatureScore
    <3>2. Len(left) \in Nat /\ Len(left) # 0
      BY <1>1, <2>3
    <3>3. IsFiniteSet(same)
      <4>1. DOMAIN left = 1 .. Len(left)
        BY <1>1
      <4>2. IsFiniteSet(DOMAIN left)
        BY <3>2, <4>1, FS_Interval
      <4> QED
        BY <4>2, FS_Subset
    <3>4. Cardinality(same) \in Nat
      BY <3>3, FS_CardinalityType
    <3> HIDE DEF same, left, right
    <3> QED
      BY <3>1, <3>2, <3>4 DEF Fractions, left, right
  <2> QED
    BY <2>1, <2>2, <2>3
<1>5. TP!PackageScore(1000, legacy.package, symbol.package) \in Fractions
  <2> DEFINE left == legacy.package
             right == symbol.package
             longest == Len(TP!LongestCommonPrefix({left, right}))
  <2>1. longest \in Nat
    BY <1>1, CommonPrefix
  <2>2. CASE left = <<>> \/ right = <<>>
    <3>1. TP!PackageScore(1000, left, right) = <<0, 1>>
      BY <2>2 DEF TP!PackageScore
    <3> QED
      BY <3>1 DEF Fractions
  <2>3. CASE left # <<>> /\ right # <<>>
    <3>1. TP!PackageScore(1000, left, right) =
            <<1000 * longest, IF Len(left) > Len(right) THEN Len(left) ELSE Len(right)>>
      BY <2>3 DEF TP!PackageScore
    <3>2. Len(left) \in Nat \ {0} /\ Len(right) \in Nat \ {0}
      BY <1>1, <2>3
    <3> HIDE DEF longest
    <3> QED
      BY <2>1, <3>1, <3>2 DEF Fractions
  <2> QED
    BY <2>2, <2>3
<1> DEFINE name == TP!NameScore(6000, legacy.tokens, symbol.tokens)
           signature == TP!SignatureScore(3000, legacy.params, symbol.params)
           package == TP!PackageScore(1000, legacy.package, symbol.package)
<1>6. TP!Plus(name, signature) \in Fractions
  BY <1>3, <1>4, FractionsAdd
<1>7. TP!Plus(TP!Plus(name, signature), package) \in Fractions
  BY <1>5, <1>6, FractionsAdd
<1> DEFINE score == TP!Plus(TP!Plus(name, signature), package)
<1>8. TP!Confidence(legacy, symbol) = TP!Rounded(score[1], score[2])
  BY DEF TP!Confidence
<1> HIDE DEF score
<1>9. score \in Fractions
  BY <1>7 DEF score
<1> QED
  BY <1>8, <1>9, FractionsAdd

\* The m candidates kept are the best of the symbol's kind, none better left out.
Ranked(kept, m, legacy, api, topK) ==
    /\ m <= topK /\ Len(kept) = m /\ DOMAIN kept = 1 .. m
    /\ kept = <<>> <=> m = 0
    /\ \A i \in 1 .. m :
         /\ kept[i].symbol.kind = legacy.kind
         /\ kept[i] = [symbol |-> kept[i].symbol, confidence |-> kept[i].confidence]
         /\ kept[i].confidence \in Nat \ {0}
    /\ \A i, j \in 1 .. m : i < j => kept[i].confidence >= kept[j].confidence
    /\ \A s \in ToSet(api) :
         \/ s \in {kept[i].symbol : i \in 1 .. m}
         \/ s.kind # legacy.kind
         \/ TP!Confidence(legacy, s) <= 0
         \/ m = topK /\ TP!Confidence(legacy, s) <= kept[m].confidence

\* What the mapping of a symbol returns, for an API of any size: the best
\* candidates of its kind, best first.
THEOREM MappingRanks ==
    ASSUME NEW legacy \in Symbols, NEW n \in Nat, NEW api \in [1 .. n -> Symbols],
           NEW topK \in Nat \ {0}
    PROVE  \E m \in Nat : Ranked(TP!MapSymbol(legacy, api, topK), m, legacy, api, topK)
<1> DEFINE score == [i \in DOMAIN api |-> TP!Confidence(legacy, api[i])]
           kin == {i \in DOMAIN api : api[i].kind = legacy.kind /\ score[i] > 0}
           Before(i, j) == score[i] > score[j] \/ (score[i] = score[j] /\ i < j)
           R == {p \in kin \X kin : Before(p[1], p[2])}
           order == TP!InOrder(kin, R)
           c == Cardinality(kin)
           m == IF topK <= c THEN topK ELSE c
           kept == [i \in 1 .. m |-> TP!Candidate(legacy, api[order[i]])]
<1>1. /\ kin \subseteq 1 .. n
      /\ \A i \in 1 .. n : i \in kin <=> api[i].kind = legacy.kind /\ score[i] > 0
      /\ \A i \in 1 .. n : score[i] = TP!Confidence(legacy, api[i])
  OBVIOUS
<1>2. \A i \in 1 .. n : score[i] \in Int
  BY <1>1, ConfidenceType
<1>3. IsFiniteSet(kin)
  <2>1. IsFiniteSet(1 .. n)
    BY FS_Interval
  <2> QED
    BY <1>1, <2>1, FS_Subset
<1>4. c \in Nat
  BY <1>3, FS_CardinalityType
<1>5. m \in Nat /\ m <= topK /\ m <= c /\ (m = topK \/ m = c)
  BY <1>4
<1>6. TP!Min({topK, TP!Cardinality(kin)}) = m
  <2>1. TP!Cardinality(kin) = c
    BY DEF TP!Cardinality, Cardinality
  <2> HIDE DEF c
  <2>2. \A x \in {topK, c} : (\A y \in {topK, c} : x <= y) <=> x = m
    BY <1>4
  <2>3. m \in {topK, c}
    OBVIOUS
  <2>4. TP!Min({topK, c}) = m
    BY <2>2, <2>3 DEF TP!Min
  <2> QED
    BY <2>1, <2>4
<1>7. TP!MapSymbol(legacy, api, topK) = kept
  BY <1>6 DEF TP!MapSymbol
<1>8. \A i, j \in kin : <<i, j>> \in R <=> Before(i, j)
  OBVIOUS
<1> HIDE DEF score
<1>9. TotalOrder(R, kin)
  <2>1. \A i \in kin : i \in Int /\ score[i] \in Int
    BY <1>1, <1>2
  <2> HIDE DEF kin, R
  <2>2. ASSUME NEW i \in kin, NEW j \in kin, i # j PROVE Before(i, j) \/ Before(j, i)
    BY <2>1, <2>2
  <2>3. ASSUME NEW i \in kin, NEW j \in kin, NEW k \in kin, Before(i, j), Before(j, k)
        PROVE  Before(i, k)
    <3>1. /\ i \in Int /\ j \in Int /\ k \in Int
          /\ score[i] \in Int /\ score[j] \in Int /\ score[k] \in Int
      BY <2>1
    <3> QED
      BY <2>3, <3>1
  <2> HIDE DEF Before
  <2> QED
    BY <1>8, <2>2, <2>3 DEF TotalOrder
<1>10. Sorts(order, R, kin)
  <2> HIDE DEF kin, R
  <2> QED
    BY <1>3, <1>9, CandidatesSort
<1> HIDE DEF order, R, kin
<1>11. /\ order \in [1 .. c -> kin]
       /\ \A i \in kin : \E k \in 1 .. c : order[k] = i
       /\ \A i, j \in 1 .. c : i < j => <<order[i], order[j]>> \in R
  BY <1>10 DEF Sorts
<1> HIDE DEF c
<1>12. ASSUME NEW i \in 1 .. c
       PROVE  order[i] \in kin /\ order[i] \in 1 .. n /\ score[order[i]] \in Nat \ {0}
  <2>1. order[i] \in kin /\ order[i] \in 1 .. n
    BY <1>1, <1>11
  <2> QED
    BY <1>1, <1>2, <2>1
<1>13. ASSUME NEW i \in 1 .. c, NEW j \in 1 .. c, i < j
       PROVE  score[order[i]] >= score[order[j]]
  <2>1. order[i] \in kin /\ order[j] \in kin /\ <<order[i], order[j]>> \in R
    BY <1>11, <1>13
  <2>2. Before(order[i], order[j])
    BY <1>8, <2>1
  <2>3. score[order[i]] \in Nat /\ score[order[j]] \in Nat
    BY <1>12
  <2> QED
    BY <2>2, <2>3
<1> HIDE DEF m
<1>14. \A i \in 1 .. m : i \in 1 .. c
  BY <1>4, <1>5
<1>15. Len(kept) = m /\ DOMAIN kept = 1 .. m /\ (kept = <<>> <=> m = 0)
  <2>1. kept \in Seq({kept[i] : i \in 1 .. m}) /\ Len(kept) = m
    BY <1>5
  <2> HIDE DEF kept
  <2> QED
    BY <2>1
<1>16. ASSUME NEW i \in 1 .. m
       PROVE  /\ kept[i] = [symbol |-> api[order[i]], confidence |-> score[order[i]]]
              /\ kept[i].symbol = api[order[i]] /\ kept[i].confidence = score[order[i]]
  <2>1. order[i] \in 1 .. n
    BY <1>12, <1>14
  <2> QED
    BY <1>1, <2>1 DEF TP!Candidate
<1> HIDE DEF kept
<1>17. ASSUME NEW i \in 1 .. m
       PROVE  /\ kept[i].symbol.kind = legacy.kind
              /\ kept[i] = [symbol |-> kept[i].symbol, confidence |-> kept[i].confidence]
              /\ kept[i].confidence \in Nat \ {0}
  <2>1. order[i] \in kin /\ order[i] \in 1 .. n /\ score[order[i]] \in Nat \ {0}
    BY <1>12, <1>14
  <2>2. api[order[i]].kind = legacy.kind
    BY <1>1, <2>1
  <2> QED
    BY <1>16, <2>1, <2>2
<1>18. ASSUME NEW i \in 1 .. m, NEW j \in 1 .. m, i < j
       PROVE  kept[i].confidence >= kept[j].confidence
  BY <1>13, <1>14, <1>16, <1>18
<1>19. ASSUME NEW s \in ToSet(api),
              s.kind = legacy.kind, TP!Confidence(legacy, s) \in Int,
              TP!Confidence(legacy, s) > 0, s \notin {kept[i].symbol : i \in 1 .. m}
       PROVE  m = topK /\ TP!Confidence(legacy, s) <= kept[m].confidence
  <2>1. PICK k \in 1 .. n : s = api[k]
    BY <1>19 DEF ToSet
  <2>2. k \in kin /\ score[k] = TP!Confidence(legacy, s)
    BY <1>1, <1>19, <2>1
  <2>3. PICK l \in 1 .. c : order[l] = k
    BY <1>11, <2>2
  <2>4. l \notin 1 .. m
    BY <1>16, <1>19, <2>1, <2>3
  <2>5. m < l /\ m = topK /\ m \in 1 .. m /\ m \in 1 .. c
    BY <1>4, <1>5, <2>3, <2>4
  <2>6. score[order[m]] >= score[k]
    BY <1>13, <2>3, <2>5
  <2>7. score[order[m]] \in Nat /\ score[k] \in Nat
    BY <1>12, <2>3, <2>5
  <2> QED
    BY <1>16, <2>2, <2>5, <2>6, <2>7
<1>20. ASSUME NEW s \in ToSet(api) PROVE TP!Confidence(legacy, s) \in Int
  <2>1. s \in Symbols
    BY DEF ToSet
  <2> QED
    BY <2>1, ConfidenceType
<1>21. ASSUME NEW s \in ToSet(api)
       PROVE  \/ s \in {kept[i].symbol : i \in 1 .. m}
              \/ s.kind # legacy.kind
              \/ TP!Confidence(legacy, s) <= 0
              \/ m = topK /\ TP!Confidence(legacy, s) <= kept[m].confidence
  BY <1>19, <1>20
<1> QED
  BY <1>5, <1>7, <1>15, <1>17, <1>18, <1>21 DEF Ranked

\* Reconciling with the model's opinion keeps the candidates and lowers the
\* first one's confidence, if anything.
LEMMA OpinionLowers ==
    ASSUME NEW kept, NEW m \in Nat, NEW opinion \in Int,
           Len(kept) = m, DOMAIN kept = 1 .. m, kept = <<>> <=> m = 0,
           \A i \in 1 .. m :
             /\ kept[i] = [symbol |-> kept[i].symbol, confidence |-> kept[i].confidence]
             /\ kept[i].confidence \in Nat \ {0}
    PROVE  LET told == TP!Reconcile(kept, opinion)
           IN  /\ DOMAIN told = 1 .. m /\ Len(told) = m
               /\ \A i \in 1 .. m : /\ told[i].symbol = kept[i].symbol
                                    /\ told[i].confidence \in 0 .. kept[i].confidence
<1> DEFINE told == TP!Reconcile(kept, opinion)
           clamped == TP!Clamped(opinion)
<1>1. clamped \in Nat
  BY DEF TP!Clamped
<1>2. CASE m = 0
  BY <1>2 DEF TP!Reconcile
<1>3. CASE m # 0
  <2>1. told = [kept EXCEPT ![1].confidence = IF clamped < @ THEN clamped ELSE @]
    BY <1>3 DEF TP!Reconcile
  <2>2. 1 \in 1 .. m
    BY <1>3
  <2> HIDE DEF clamped, told
  <2>3. DOMAIN told = 1 .. m /\ Len(told) = m
    BY <2>1
  <2>4. /\ told[1].symbol = kept[1].symbol
        /\ told[1].confidence = IF clamped < kept[1].confidence THEN clamped
                                ELSE kept[1].confidence
    BY <2>1, <2>2
  <2>5. ASSUME NEW i \in 1 .. m
        PROVE  told[i].symbol = kept[i].symbol /\ told[i].confidence \in 0 .. kept[i].confidence
    <3>1. CASE i = 1
      BY <1>1, <2>4, <3>1
    <3>2. CASE i # 1
      BY <2>1, <3>2
    <3> QED
      BY <3>1, <3>2
  <2> QED
    BY <2>3, <2>5 DEF told
<1> QED
  BY <1>2, <1>3

\* Whatever the symbols and their scores, the candidates are the best of their
\* kind in order, and the model's opinion never adds confidence.
THEOREM CandidatesStayTrustworthy == Spec => []CandidatesAreTrustworthy
<1>1. Init => CandidatesAreTrustworthy
  BY DEF Init, CandidatesAreTrustworthy
<1>2. CandidatesAreTrustworthy /\ [Next]_vars => CandidatesAreTrustworthy'
  <2> SUFFICES ASSUME CandidatesAreTrustworthy, [Next]_vars PROVE CandidatesAreTrustworthy'
    OBVIOUS
  <2>1. CASE MapSymbol
    <3>1. PICK legacy \in Symbols, api \in UpTo(2, Symbols),
               topK \in 1 .. 2, confidence \in {-1, 4000, 12000} :
            LET candidates == TP!MapSymbol(legacy, api, topK)
            IN  Apply("map", [legacy |-> legacy, api |-> api, topK |-> topK,
                              confidence |-> confidence],
                      [mapped |-> candidates,
                       reconciled |-> TP!Reconcile(candidates, confidence)])
      BY <2>1 DEF MapSymbol
    <3> DEFINE kept == TP!MapSymbol(legacy, api, topK)
               told == TP!Reconcile(kept, confidence)
    <3>2. /\ input'.legacy = legacy /\ input'.api = api /\ input'.topK = topK
          /\ output'.mapped = kept /\ output'.reconciled = told
      BY <3>1 DEF Apply
    <3>3. PICK n \in 0 .. 2 : api \in [1 .. n -> Symbols]
      BY DEF UpTo, BoundedSeq, SeqOf
    <3>4. PICK m \in Nat : Ranked(kept, m, legacy, api, topK)
      BY <3>3, MappingRanks
    <3> HIDE DEF kept
    <3>5. /\ DOMAIN told = 1 .. m /\ Len(told) = m
          /\ \A i \in 1 .. m : /\ told[i].symbol = kept[i].symbol
                               /\ told[i].confidence \in 0 .. kept[i].confidence
      <4>1. /\ Len(kept) = m /\ DOMAIN kept = 1 .. m /\ (kept = <<>> <=> m = 0)
            /\ \A i \in 1 .. m :
                  /\ kept[i] = [symbol |-> kept[i].symbol, confidence |-> kept[i].confidence]
                  /\ kept[i].confidence \in Nat \ {0}
        BY <3>4 DEF Ranked
      <4>2. confidence \in Int
        OBVIOUS
      <4> QED
        BY <4>1, <4>2, OpinionLowers
    <3> HIDE DEF told
    <3> QED
      BY <3>2, <3>4, <3>5 DEF CandidatesAreTrustworthy, Last, Ranked
  <2>2. CASE UNCHANGED vars
    BY <2>2 DEF vars, CandidatesAreTrustworthy
  <2>3. CASE algorithm' # "map"
    BY <2>3 DEF CandidatesAreTrustworthy
  <2> QED
    BY <2>1, <2>2, <2>3, StepsName DEF Next
<1> QED
  BY <1>1, <1>2, PTL DEF Spec

-----------------------------------------------------------------------------
(* Edits of a pom. *)

\* The first and the last of some places are among them.
LEMMA EndsAmong ==
    ASSUME NEW n \in Nat, NEW S \in SUBSET (1 .. n), S # {}
    PROVE  POM!Min(S) \in S /\ POM!Max(S) \in S
<1>1. POM!Min(S) \in S
  <2>1. \E i \in S : \A j \in S : i <= j
    BY LeastOfSome
  <2> QED
    BY <2>1 DEF POM!Min
<1>2. POM!Max(S) \in S
  <2> DEFINE spare == {m \in Nat : \E j \in S : m = n - j}
  <2>1. \A j \in S : n - j \in spare
    <3>1. \A j \in S : n - j \in Nat
      OBVIOUS
    <3> QED
      BY <3>1
  <2>2. PICK m \in spare : \A k \in spare : m <= k
    <3>1. spare # {} /\ spare \subseteq Nat
      BY <2>1
    <3> HIDE DEF spare
    <3> QED
      BY <3>1, LeastOfSome
  <2>3. PICK i \in S : m = n - i
    BY <2>2
  <2>4. ASSUME NEW k \in S PROVE i >= k
    <3>1. m <= n - k
      BY <2>1, <2>2
    <3>2. i \in 1 .. n /\ k \in 1 .. n
      OBVIOUS
    <3> QED
      BY <2>3, <3>1, <3>2
  <2> QED
    BY <2>4 DEF POM!Max
<1> QED
  BY <1>1, <1>2

\* Setting the version of a declaration leaves everything else.
LEMMA VersionSet ==
    ASSUME NEW pom \in Seq(Declarations), NEW i \in DOMAIN pom, pom[i].package = "lib"
    PROVE  LET edited == [pom EXCEPT ![i].version = "target"]
           IN  /\ WritesOne(pom, edited) /\ edited # <<>> /\ DOMAIN edited = DOMAIN pom
               /\ \A j \in DOMAIN pom :
                    /\ edited[j].package = pom[j].package
                    /\ edited[j].section = pom[j].section
                    /\ edited[j].version = IF j = i THEN "target" ELSE pom[j].version
<1> DEFINE edited == [pom EXCEPT ![i].version = "target"]
<1>1. DOMAIN edited = DOMAIN pom /\ \A j \in DOMAIN pom : j # i => edited[j] = pom[j]
  OBVIOUS
<1>2. pom[i] \in [section : POM!Sections, package : STRING, version : STRING]
  BY AlgorithmsAssumption
<1>3. /\ edited[i].package = pom[i].package /\ edited[i].section = pom[i].section
      /\ edited[i].version = "target"
  BY <1>2
<1>4. edited # <<>>
  BY <1>1
<1>5. DOMAIN pom \subseteq Nat
  OBVIOUS
<1> HIDE DEF edited
<1>6. WritesOne(pom, edited)
  BY <1>1, <1>3, <1>5 DEF WritesOne
<1> QED
  BY <1>1, <1>3, <1>4, <1>6 DEF edited

\* Adding a declaration moves the later ones one place on.
LEMMA DeclarationAdded ==
    ASSUME NEW pom \in Seq(Declarations), NEW i \in 1 .. Len(pom) + 1, NEW d, d.package = "lib"
    PROVE  LET edited == POM!InsertAt(pom, i, d)
           IN  /\ WritesOne(pom, edited) /\ edited # <<>>
               /\ DOMAIN edited = 1 .. Len(pom) + 1 /\ edited[i] = d
               /\ \A j \in 1 .. Len(pom) + 1 :
                    j # i => \E k \in DOMAIN pom : edited[j] = pom[k]
<1> DEFINE edited == POM!InsertAt(pom, i, d)
           n == Len(pom)
           S == Declarations \cup {d}
<1>1. /\ n \in Nat /\ DOMAIN pom = 1 .. n /\ i \in Nat /\ i >= 1 /\ i <= n + 1
      /\ pom \in Seq(S)
  OBVIOUS
<1>2. /\ SubSeq(pom, 1, i - 1) \in Seq(S) /\ Len(SubSeq(pom, 1, i - 1)) = i - 1
      /\ \A j \in 1 .. i - 1 : SubSeq(pom, 1, i - 1)[j] = pom[j]
  BY <1>1
<1>3. /\ SubSeq(pom, i, n) \in Seq(S) /\ Len(SubSeq(pom, i, n)) = n - i + 1
      /\ \A j \in 1 .. n - i + 1 : SubSeq(pom, i, n)[j] = pom[i + j - 1]
  BY <1>1
<1>4. <<d>> \in Seq(S) /\ Len(<<d>>) = 1 /\ <<d>>[1] = d
  OBVIOUS
<1>5. edited = (SubSeq(pom, 1, i - 1) \o <<d>>) \o SubSeq(pom, i, n)
  BY DEF POM!InsertAt
<1> DEFINE before == SubSeq(pom, 1, i - 1)
           after == SubSeq(pom, i, n)
           front == before \o <<d>>
<1> HIDE DEF S, before, after
<1>6. /\ front \in Seq(S) /\ Len(front) = i /\ front[i] = d
      /\ \A j \in 1 .. i - 1 : front[j] = before[j]
  <2>1. before \in Seq(S) /\ Len(before) = i - 1
    BY <1>2 DEF before
  <2> QED
    BY <1>1, <1>4, <2>1
<1> HIDE DEF front, edited
<1>7. /\ edited \in Seq(S) /\ Len(edited) = n + 1
      /\ \A j \in 1 .. i : edited[j] = front[j]
      /\ \A j \in 1 .. n - i + 1 : edited[i + j] = after[j]
  <2>1. after \in Seq(S) /\ Len(after) = n - i + 1
    BY <1>3 DEF after
  <2>2. edited = front \o after
    BY <1>5 DEF front, before, after
  <2>3. /\ edited \in Seq(S) /\ Len(edited) = Len(front) + Len(after)
        /\ \A j \in 1 .. Len(edited) :
             edited[j] = IF j <= Len(front) THEN front[j] ELSE after[j - Len(front)]
    <3>1. /\ front \o after \in Seq(S) /\ Len(front \o after) = Len(front) + Len(after)
          /\ \A j \in 1 .. Len(front) + Len(after) :
               (front \o after)[j] = IF j <= Len(front) THEN front[j] ELSE after[j - Len(front)]
      BY <1>6, <2>1, ConcatProperties
    <3> QED
      BY <2>2, <3>1
  <2>4. Len(edited) = n + 1
    BY <1>1, <1>6, <2>1, <2>3
  <2>5. \A j \in 1 .. n - i + 1 : i + j \in 1 .. n + 1 /\ ~ (i + j <= i) /\ (i + j) - i = j
    BY <1>1
  <2> QED
    BY <1>1, <1>6, <2>3, <2>4, <2>5
<1>8. Len(edited) = n + 1 /\ DOMAIN edited = 1 .. n + 1 /\ edited # <<>>
  BY <1>1, <1>7
<1>9. \A j \in 1 .. n : j < i => edited[j] = pom[j]
  BY <1>1, <1>2, <1>6, <1>7 DEF before
<1>10. edited[i] = d
  BY <1>1, <1>6, <1>7
<1>11. ASSUME NEW j \in 1 .. n, j >= i PROVE edited[j + 1] = pom[j]
  <2> DEFINE k == j - i + 1
  <2>1. k \in 1 .. n - i + 1 /\ i + k = j + 1 /\ i + k - 1 = j
    BY <1>1, <1>11
  <2> HIDE DEF k
  <2>2. edited[i + k] = after[k] /\ after[k] = pom[i + k - 1]
    BY <1>3, <1>7, <2>1 DEF after
  <2> QED
    BY <2>1, <2>2
<1>12. WritesOne(pom, edited)
  <2>1. i \in DOMAIN edited
    BY <1>1, <1>8
  <2> QED
    BY <1>1, <1>8, <1>9, <1>10, <1>11, <2>1 DEF WritesOne
<1>13. ASSUME NEW j \in 1 .. n + 1, j # i PROVE \E k \in DOMAIN pom : edited[j] = pom[k]
  <2>1. CASE j < i
    BY <1>1, <1>9, <2>1
  <2>2. CASE j > i
    <3>1. j - 1 \in 1 .. n /\ j - 1 >= i /\ (j - 1) + 1 = j
      BY <1>1, <2>2
    <3>2. edited[j] = pom[j - 1]
      BY <1>11, <3>1
    <3> QED
      BY <1>1, <3>1, <3>2
  <2> QED
    BY <1>1, <1>13, <2>1, <2>2
<1> QED
  BY <1>8, <1>10, <1>12, <1>13 DEF edited

\* Where the only version stands is what Maven builds with.
LEMMA BuiltWithOnly ==
    ASSUME NEW pom, NEW k \in Nat,
           \/ Versioned(pom, "direct") = {k}
           \/ Versioned(pom, "direct") = {} /\ Versioned(pom, "managed") = {k}
    PROVE  BuiltWith(pom) = pom[k].version
<1>1. Max({k}) = k
  BY DEF Max
<1> QED
  BY <1>1 DEF BuiltWith

\* A pom of any length: an edit writes one declaration of the package, and
\* what is built then is the target, where the pom leaves no doubt.
THEOREM PomEditsReachBuild == Spec => []PomEditsTakeEffect
<1>1. Init => PomEditsTakeEffect
  BY DEF Init, PomEditsTakeEffect
<1>2. PomEditsTakeEffect /\ [Next]_vars => PomEditsTakeEffect'
  <2> SUFFICES ASSUME PomEditsTakeEffect, [Next]_vars PROVE PomEditsTakeEffect'
    OBVIOUS
  <2>1. CASE EditPom
    <3>1. PICK pom \in UpTo(3, Declarations), section \in {"direct", "managed"} :
            Apply("pom", [pom |-> pom, section |-> section],
                  IF section = "direct"
                  THEN POM!DirectDependencyUpdate(pom, "lib", "target")
                  ELSE POM!DependencyManagementOverride(pom, "lib", "target"))
      BY <2>1 DEF EditPom
    <3>2. /\ input'.pom = pom /\ input'.section = section
          /\ output' = IF section = "direct"
                       THEN POM!DirectDependencyUpdate(pom, "lib", "target")
                       ELSE POM!DependencyManagementOverride(pom, "lib", "target")
      BY <3>1 DEF Apply
    <3>3. pom \in Seq(Declarations)
      <4>1. PICK m \in 0 .. 3 : pom \in [1 .. m -> Declarations]
        BY DEF UpTo, BoundedSeq, SeqOf
      <4> QED
        BY <4>1
    <3> DEFINE versioned == UNION {Versioned(pom, s) : s \in POM!Sections}
               n == Len(pom)
    <3>4. n \in Nat /\ DOMAIN pom = 1 .. n
      BY <3>3
    <3>5. /\ \A i \in 1 .. n : pom[i].section \in POM!Sections
          /\ \A i \in 1 .. n : i \in versioned <=> pom[i].package = "lib"
                                                   /\ pom[i].version # POM!NoVersion
          /\ versioned \subseteq 1 .. n
      <4>1. \A i \in 1 .. n :
               pom[i] \in [section : POM!Sections, package : STRING, version : STRING]
        BY <3>3, <3>4, AlgorithmsAssumption
      <4>2. \A i \in 1 .. n : pom[i].section \in POM!Sections
        BY <4>1
      <4> QED
        BY <3>4, <4>2 DEF Versioned, Declared
    <3>6. "target" # POM!NoVersion /\ POM!Sections = {"managed", "direct", "nested"}
      BY DEF POM!NoVersion, POM!Sections
    <3>7. IsFiniteSet(1 .. n)
      BY <3>4, FS_Interval
    <3>8. ASSUME output' # POM!NotFound, WritesOne(pom, output'),
                  section = "direct" /\ Cardinality(versioned) = 1
                      /\ Versioned(pom, "nested") = {}
                    => BuiltWith(output') = "target",
                  section = "managed" /\ Cardinality(Declared(pom, "managed")) <= 1
                      /\ Versioned(pom, "direct") = {}
                    => BuiltWith(output') = "target"
          PROVE  PomEditsTakeEffect'
      BY <3>2, <3>8 DEF PomEditsTakeEffect
    <3>9. CASE section = "direct"
      <4> DEFINE Matches(d) == d.package = "lib" /\ d.version # POM!NoVersion
                 first == POM!SelectInSeq(pom, Matches)
      <4>1. output' = IF first = 0 THEN POM!NotFound ELSE [pom EXCEPT ![first].version = "target"]
        BY <3>2, <3>9 DEF POM!DirectDependencyUpdate
      <4>2. \/ first = 0 /\ \A i \in DOMAIN pom : ~ Matches(pom[i])
            \/ first \in DOMAIN pom /\ first > 0 /\ Matches(pom[first])
        <5> DEFINE found == {i \in 1 .. n : Matches(pom[i])}
        <5>1. first = IF found # {} THEN POM!Min(found) ELSE 0
          BY DEF POM!SelectInSeq
        <5>2. found # {} => POM!Min(found) \in found
          <6>1. found \in SUBSET (1 .. n)
            OBVIOUS
          <6> HIDE DEF found, n
          <6> QED
            BY <3>4, <6>1, EndsAmong
        <5>3. \A i : i \in found <=> i \in 1 .. n /\ Matches(pom[i])
          OBVIOUS
        <5> HIDE DEF found, first, Matches
        <5> QED
          BY <3>4, <5>1, <5>2, <5>3
      <4> HIDE DEF first
      <4>3. CASE first = 0
        <5>1. versioned = {}
          BY <3>4, <3>5, <4>2, <4>3
        <5>2. output' = POM!NotFound
          BY <4>1, <4>3
        <5> QED
          BY <3>2, <3>9, <5>1, <5>2 DEF PomEditsTakeEffect
      <4>4. CASE first # 0
        <5>1. first \in 1 .. n /\ Matches(pom[first]) /\ first \in versioned
          BY <3>4, <3>5, <4>2, <4>4
        <5>2. /\ WritesOne(pom, output') /\ output' # <<>> /\ DOMAIN output' = 1 .. n
              /\ \A j \in 1 .. n :
                   /\ output'[j].package = pom[j].package
                   /\ output'[j].section = pom[j].section
                   /\ output'[j].version = IF j = first THEN "target" ELSE pom[j].version
          BY <3>3, <3>4, <4>1, <4>4, <5>1, VersionSet
        <5>3. ASSUME Cardinality(versioned) = 1, Versioned(pom, "nested") = {}
              PROVE  BuiltWith(output') = "target"
          <6>1. versioned = {first}
            <7> HIDE DEF versioned
            <7>1. IsFiniteSet(versioned)
              BY <3>5, <3>7, FS_Subset
            <7> QED
              BY <5>1, <5>3, <7>1, FS_Singleton
          <6>2. \A s : \A j : j \in Versioned(output', s) <=> j = first /\ pom[j].section = s
            <7>1. \A j \in 1 .. n : pom[j].package = "lib" /\ pom[j].version # POM!NoVersion
                                    <=> j = first
              BY <3>5, <6>1
            <7> QED
              BY <3>6, <5>1, <5>2, <7>1 DEF Versioned, Declared
          <6>3. pom[first].section # "nested"
            BY <3>4, <5>1, <5>3 DEF Versioned, Declared
          <6>4. pom[first].section \in {"direct", "managed"}
            BY <3>5, <3>6, <5>1, <6>3
          <6>5. \/ Versioned(output', "direct") = {first}
                \/ Versioned(output', "direct") = {} /\ Versioned(output', "managed") = {first}
            BY <6>2, <6>4
          <6>6. BuiltWith(output') = output'[first].version
            BY <5>1, <6>5, BuiltWithOnly
          <6> QED
            BY <5>1, <5>2, <6>6
        <5> QED
          BY <3>9, <3>8, <5>2, <5>3 DEF POM!NotFound
      <4> QED
        BY <4>3, <4>4
    <3>10. CASE section = "managed"
      <4> DEFINE InManagement(d) == d.section = "managed"
                 Matches(d) == InManagement(d) /\ d.package = "lib"
                 first == POM!SelectInSeq(pom, Matches)
                 last == POM!SelectLastInSeq(pom, InManagement)
                 place == IF last = 0 THEN n + 1 ELSE last + 1
                 added == POM!Managed("target", "lib")
      <4>1. output' = IF first > 0 THEN [pom EXCEPT ![first].version = "target"]
                      ELSE POM!InsertAt(pom, place, added)
        BY <3>2, <3>10 DEF POM!DependencyManagementOverride
      <4>2. \/ first = 0 /\ \A i \in DOMAIN pom : ~ Matches(pom[i])
            \/ first \in DOMAIN pom /\ first > 0 /\ Matches(pom[first])
        <5> DEFINE found == {i \in 1 .. n : Matches(pom[i])}
        <5>1. first = IF found # {} THEN POM!Min(found) ELSE 0
          BY DEF POM!SelectInSeq
        <5>2. found # {} => POM!Min(found) \in found
          <6>1. found \in SUBSET (1 .. n)
            OBVIOUS
          <6> HIDE DEF found, n
          <6> QED
            BY <3>4, <6>1, EndsAmong
        <5>3. \A i : i \in found <=> i \in 1 .. n /\ Matches(pom[i])
          OBVIOUS
        <5> HIDE DEF found, first, Matches
        <5> QED
          BY <3>4, <5>1, <5>2, <5>3
      <4>3. ASSUME NEW k \in Nat, Versioned(pom, "direct") = {},
                   Cardinality(Declared(pom, "managed")) <= 1,
                   output'[k].version = "target",
                   Versioned(output', "direct") = {}, Versioned(output', "managed") = {k}
            PROVE  BuiltWith(output') = "target"
        BY <4>3, BuiltWithOnly
      <4>4. CASE first \in DOMAIN pom /\ first > 0 /\ Matches(pom[first])
        <5> HIDE DEF first
        <5>1. /\ WritesOne(pom, output') /\ output' # <<>> /\ DOMAIN output' = 1 .. n
              /\ \A j \in 1 .. n :
                   /\ output'[j].package = pom[j].package
                   /\ output'[j].section = pom[j].section
                   /\ output'[j].version = IF j = first THEN "target" ELSE pom[j].version
          BY <3>3, <3>4, <4>1, <4>4, VersionSet
        <5>2. ASSUME Versioned(pom, "direct") = {}, Cardinality(Declared(pom, "managed")) <= 1
              PROVE  BuiltWith(output') = "target"
          <6>1. Declared(pom, "managed") = {first}
            <7>1. first \in Declared(pom, "managed")
              BY <3>4, <4>4 DEF Declared
            <7>2. IsFiniteSet(Declared(pom, "managed"))
              <8>1. Declared(pom, "managed") \subseteq 1 .. n
                BY <3>4 DEF Declared
              <8> QED
                BY <3>7, <8>1, FS_Subset
            <7>3. Cardinality(Declared(pom, "managed")) \in Nat
                  /\ Cardinality(Declared(pom, "managed")) # 0
              BY <7>1, <7>2, FS_CardinalityType, FS_EmptySet
            <7>4. Cardinality(Declared(pom, "managed")) = 1
              BY <5>2, <7>3
            <7> QED
              BY <7>1, <7>2, <7>4, FS_Singleton
          <6>2. Versioned(output', "managed") = {first}
            BY <3>4, <3>6, <4>4, <5>1, <6>1 DEF Versioned, Declared
          <6>3. Versioned(output', "direct") = {}
            BY <3>4, <4>4, <5>1, <5>2 DEF Versioned, Declared
          <6> QED
            BY <3>4, <4>3, <4>4, <5>1, <5>2, <6>2, <6>3
        <5> QED
          BY <3>10, <3>8, <5>1, <5>2 DEF POM!NotFound
      <4>5. CASE first = 0 /\ \A i \in DOMAIN pom : ~ Matches(pom[i])
        <5>1. output' = POM!InsertAt(pom, place, added)
          BY <4>1, <4>5
        <5>2. last \in 0 .. n
          <6> DEFINE found == {i \in 1 .. n : InManagement(pom[i])}
          <6>1. last = IF found # {} THEN POM!Max(found) ELSE 0
            BY DEF POM!SelectLastInSeq
          <6>2. found # {} => POM!Max(found) \in found
            <7>1. found \in SUBSET (1 .. n)
              OBVIOUS
            <7> HIDE DEF found, n
            <7> QED
              BY <3>4, <7>1, EndsAmong
          <6> QED
            BY <3>4, <6>1, <6>2
        <5>3. place \in 1 .. n + 1
          <6> HIDE DEF last
          <6> QED
            BY <3>4, <5>2
        <5>4. added.package = "lib" /\ added.section = "managed" /\ added.version = "target"
          BY DEF POM!Managed
        <5> HIDE DEF place, added
        <5>5. /\ WritesOne(pom, output') /\ output' # <<>>
              /\ DOMAIN output' = 1 .. n + 1 /\ output'[place] = added
              /\ \A j \in 1 .. n + 1 : j # place => \E k \in 1 .. n : output'[j] = pom[k]
          BY <3>3, <3>4, <5>1, <5>3, <5>4, DeclarationAdded
        <5>6. ASSUME Versioned(pom, "direct") = {}, Cardinality(Declared(pom, "managed")) <= 1
              PROVE  BuiltWith(output') = "target"
          <6>1. Versioned(output', "managed") = {place}
            BY <3>4, <3>6, <4>5, <5>3, <5>4, <5>5 DEF Versioned, Declared
          <6>2. Versioned(output', "direct") = {}
            BY <3>4, <5>3, <5>4, <5>5, <5>6 DEF Versioned, Declared
          <6> QED
            BY <3>4, <4>3, <5>3, <5>4, <5>5, <5>6, <6>1, <6>2
        <5> QED
          BY <3>10, <3>8, <5>5, <5>6 DEF POM!NotFound
      <4> QED
        BY <4>2, <4>4, <4>5
    <3> QED
      BY <3>9, <3>10
  <2>2. CASE UNCHANGED vars
    BY <2>2 DEF vars, PomEditsTakeEffect
  <2>3. CASE algorithm' # "pom"
    BY <2>3 DEF PomEditsTakeEffect
  <2> QED
    BY <2>1, <2>2, <2>3, StepsName DEF Next
<1> QED
  BY <1>1, <1>2, PTL DEF Spec

-----------------------------------------------------------------------------
(***************************************************************************)
(* Java sources of any length.  What a line is rewritten to is a recursion *)
(* from its end: a pattern read in the rewritten line was read in the line *)
(* (MatchesAreOld), so that a spelling which is gone does not come back.   *)
(***************************************************************************)

\* A token is a string; the prover has to be told so of the ones in quotes.
Spelling == {"org.old.", "org.new.", "Legacy", ".parse", "(", "::", "parse"}
Token == STRING \cup Spelling
Line == Seq(Token)

\* A pattern is replaced where it occurs and, if it must, begins a name.
Hit(line, i, pattern, bounded) ==
    JR!MatchAt(line, i, pattern) /\ (bounded => JR!OnBoundary(line, i))

\* What becomes of the line from each place on.
Rewrites(f, line, pattern, replacement, bounded) ==
    /\ \A i \in 1 .. Len(line) + 1 : f[i] \in Line
    /\ f[Len(line) + 1] = <<>>
    /\ \A i \in 1 .. Len(line) :
          f[i] = IF Hit(line, i, pattern, bounded) THEN replacement \o f[i + Len(pattern)]
                 ELSE <<line[i]>> \o f[i + 1]

\* Induction from the end of a line to its beginning.
LEMMA FromTheEnd ==
    ASSUME NEW n \in Nat, NEW S,
           \A i \in 1 .. n : (\A k \in i + 1 .. n : k \in S) => i \in S
    PROVE  \A i \in 1 .. n : i \in S
<1> DEFINE Bad == {d \in Nat : d < n /\ n - d \notin S}
<1>1. ASSUME Bad # {} PROVE FALSE
  <2>1. PICK d \in Bad : \A e \in Bad : d <= e
    BY <1>1, LeastOfSome
  <2>2. n - d \in 1 .. n
    BY <2>1
  <2>3. ASSUME NEW k \in n - d + 1 .. n PROVE k \in S
    <3>1. n - k \in Nat /\ n - k < d /\ n - k < n /\ n - (n - k) = k
      BY <2>1
    <3>2. n - k \notin Bad
      BY <2>1, <3>1
    <3> QED
      BY <3>1, <3>2
  <2> QED
    BY <2>1, <2>2, <2>3
<1>2. ASSUME NEW i \in 1 .. n PROVE i \in S
  <2>1. n - i \in Nat /\ n - i < n /\ n - (n - i) = i
    OBVIOUS
  <2> QED
    BY <1>1, <2>1
<1> QED
  BY <1>2

\* The recursion of Replaced has a solution: its functions from a place to
\* the end can be extended to the place before.
LEMMA ReplacedRecurses ==
    ASSUME NEW line \in Line, NEW pattern \in Line \ {<<>>}, NEW replacement \in Line,
           NEW bounded \in BOOLEAN
    PROVE  \E f : /\ Rewrites(f, line, pattern, replacement, bounded)
                  /\ JR!Replaced(line, pattern, replacement, bounded) = f[1]
<1> DEFINE n == Len(line)
           p == Len(pattern)
           last == n + p
           At(f, i) == IF i > n THEN <<>>
                       ELSE IF JR!MatchAt(line, i, pattern) /\ (bounded => JR!OnBoundary(line, i))
                       THEN replacement \o f[i + p]
                       ELSE <<line[i]>> \o f[i + 1]
           Solves(f, j) == f \in [j .. last -> Line] /\ \A i \in j .. last : f[i] = At(f, i)
<1>1. n \in Nat /\ p \in Nat /\ p >= 1 /\ last \in Nat /\ last >= 1 /\ last > n
      /\ <<>> \in Line
  BY DEF Line
<1>2. \A i \in 1 .. n : <<line[i]>> \in Line
  BY <1>1 DEF Line
<1>3. \A s, t \in Line : s \o t \in Line
  BY DEF Line
<1>4. \E f : Solves(f, last)
  <2> DEFINE f == [i \in last .. last |-> <<>>]
  <2>1. Solves(f, last)
    BY <1>1
  <2> QED
    BY <2>1
<1>5. ASSUME NEW j \in 1 .. last - 1, NEW f, Solves(f, j + 1)
      PROVE  \E g : Solves(g, j)
  <2> DEFINE g == [i \in j .. last |-> IF i = j THEN At(f, j) ELSE f[i]]
  <2>1. \A i \in j + 1 .. last : i \in j .. last /\ g[i] = f[i] /\ f[i] \in Line
    BY <1>1, <1>5
  <2>2. ASSUME NEW i \in j .. last PROVE At(g, i) = At(f, i)
    <3>1. i <= n => i + p \in j + 1 .. last /\ i + 1 \in j + 1 .. last
      BY <1>1
    <3>2. i <= n => g[i + p] = f[i + p] /\ g[i + 1] = f[i + 1]
      BY <2>1, <3>1
    <3> QED
      BY <1>1, <3>2
  <2>3. At(f, j) \in Line
    <3>1. j <= n => j \in 1 .. n /\ j + p \in j + 1 .. last /\ j + 1 \in j + 1 .. last
      BY <1>1
    <3>2. j <= n => f[j + p] \in Line /\ f[j + 1] \in Line /\ <<line[j]>> \in Line
      BY <1>2, <2>1, <3>1
    <3>3. j <= n => replacement \o f[j + p] \in Line /\ <<line[j]>> \o f[j + 1] \in Line
      BY <1>3, <3>2
    <3> QED
      BY <1>1, <3>3
  <2>4. \A i \in j .. last : i = j \/ i \in j + 1 .. last
    BY <1>1
  <2>5. j \in j .. last /\ g[j] = At(f, j)
    BY <1>1
  <2>6. g \in [j .. last -> Line]
    BY <2>1, <2>3, <2>4
  <2>7. ASSUME NEW i \in j .. last PROVE g[i] = At(g, i)
    <3>1. CASE i = j
      <4> HIDE DEF g, At
      <4> QED
        BY <2>2, <2>5, <3>1
    <3>2. CASE i \in j + 1 .. last
      <4>1. f[i] = At(f, i)
        BY <1>5, <3>2
      <4> HIDE DEF g, At
      <4> QED
        BY <2>1, <2>2, <3>2, <4>1
    <3> QED
      BY <2>4, <3>1, <3>2
  <2> HIDE DEF g, At
  <2> QED
    BY <2>6, <2>7
<1>6. PICK f : Solves(f, 1)
  <2> DEFINE S == {j \in 1 .. last : \E f : Solves(f, j)}
  <2> HIDE DEF Solves, last
  <2>1. ASSUME NEW j \in 1 .. last, \A k \in j + 1 .. last : k \in S PROVE j \in S
    <3>1. CASE j = last
      BY <1>4, <3>1
    <3>2. CASE j # last
      <4>1. j \in 1 .. last - 1 /\ j + 1 \in j + 1 .. last
        BY <1>1, <3>2
      <4> QED
        BY <1>5, <2>1, <4>1
    <3> QED
      BY <3>1, <3>2
  <2>2. \A j \in 1 .. last : j \in S
    <3> HIDE DEF S
    <3> QED
      BY <1>1, <2>1, FromTheEnd
  <2> QED
    BY <1>1, <2>2
<1> DEFINE Body(g) == [i \in 1 .. last |->
              IF i > Len(line) THEN <<>>
              ELSE IF JR!MatchAt(line, i, pattern) /\ (bounded => JR!OnBoundary(line, i))
              THEN replacement \o g[i + Len(pattern)]
              ELSE <<line[i]>> \o g[i + 1]]
           h == CHOOSE g : g = Body(g)
<1>8. JR!Replaced(line, pattern, replacement, bounded) = h[1]
  BY DEF JR!Replaced
<1>9. h = Body(h)
  <2>1. f = Body(f)
    BY <1>6
  <2> HIDE DEF Body
  <2> QED
    BY <2>1
<1>10. \A i \in 1 .. last : h[i] = At(h, i)
  <2>1. \A i \in 1 .. last : Body(h)[i] = At(h, i)
    OBVIOUS
  <2> HIDE DEF Body, At, h
  <2> QED
    BY <1>9, <2>1
<1> HIDE DEF h
<1>11. \A i \in 1 .. last : h[i] \in Line
  <2> DEFINE S == {i \in 1 .. last : h[i] \in Line}
  <2>1. ASSUME NEW i \in 1 .. last, \A k \in i + 1 .. last : k \in S PROVE i \in S
    <3>1. i <= n => i \in 1 .. n /\ i + p \in i + 1 .. last /\ i + 1 \in i + 1 .. last
      BY <1>1
    <3>2. At(h, i) \in Line
      <4>1. i <= n => h[i + p] \in Line /\ h[i + 1] \in Line /\ <<line[i]>> \in Line
        BY <1>2, <2>1, <3>1
      <4>2. i <= n => replacement \o h[i + p] \in Line /\ <<line[i]>> \o h[i + 1] \in Line
        BY <1>3, <4>1
      <4> QED
        BY <1>1, <4>2
    <3> QED
      BY <1>10, <3>2
  <2>2. \A i \in 1 .. last : i \in S
    <3> HIDE DEF S, last
    <3> QED
      BY <1>1, <2>1, FromTheEnd
  <2> QED
    BY <2>2
<1>12. Rewrites(h, line, pattern, replacement, bounded)
  <2>1. 1 .. n + 1 \subseteq 1 .. last /\ n + 1 \in 1 .. last /\ n + 1 > n
    BY <1>1
  <2>2. h[n + 1] = <<>>
    BY <1>10, <2>1
  <2>3. ASSUME NEW i \in 1 .. n
        PROVE  h[i] = IF Hit(line, i, pattern, bounded) THEN replacement \o h[i + p]
                      ELSE <<line[i]>> \o h[i + 1]
    <3>1. i \in 1 .. last /\ ~ (i > n)
      BY <1>1
    <3>2. h[i] = At(h, i)
      BY <1>10, <3>1
    <3> QED
      BY <3>1, <3>2 DEF Hit
  <2> QED
    BY <1>11, <2>1, <2>2, <2>3 DEF Rewrites
<1> QED
  BY <1>8, <1>12

-----------------------------------------------------------------------------

\* The line has the pattern from its m-th token on at a place.
Reads(line, i, pattern, m) ==
    /\ i + Len(pattern) - m <= Len(line)
    /\ \A d \in m .. Len(pattern) : line[i + d - m] = pattern[d]

\* Reading a pattern is reading its first token and then the others.
LEMMA ReadsOn ==
    ASSUME NEW line \in Line, NEW i \in Nat \ {0}, NEW pattern \in Line, NEW m \in 1 .. Len(pattern)
    PROVE  Reads(line, i, pattern, m)
              <=> /\ i <= Len(line) /\ line[i] = pattern[m]
                  /\ Reads(line, i + 1, pattern, m + 1)
<1>1. Len(line) \in Nat /\ Len(pattern) \in Nat /\ i \in Nat /\ m \in Nat /\ m <= Len(pattern)
  BY DEF Line
<1>2. ASSUME Reads(line, i, pattern, m)
      PROVE  /\ i <= Len(line) /\ line[i] = pattern[m]
             /\ Reads(line, i + 1, pattern, m + 1)
  <2>1. i + m - m = i /\ m \in m .. Len(pattern)
    BY <1>1
  <2>2. line[i] = pattern[m] /\ i <= Len(line)
    BY <1>1, <1>2, <2>1 DEF Reads
  <2>3. \A d \in m + 1 .. Len(pattern) : line[i + 1 + d - (m + 1)] = pattern[d]
    <3>1. \A d \in m + 1 .. Len(pattern) : d \in m .. Len(pattern)
                                          /\ i + 1 + d - (m + 1) = i + d - m
      BY <1>1
    <3> QED
      BY <1>2, <3>1 DEF Reads
  <2>4. i + 1 + Len(pattern) - (m + 1) <= Len(line)
    BY <1>1, <1>2 DEF Reads
  <2> QED
    BY <2>2, <2>3, <2>4 DEF Reads
<1>3. ASSUME i <= Len(line), line[i] = pattern[m], Reads(line, i + 1, pattern, m + 1)
      PROVE  Reads(line, i, pattern, m)
  <2>1. i + Len(pattern) - m <= Len(line)
    BY <1>1, <1>3 DEF Reads
  <2>2. ASSUME NEW d \in m .. Len(pattern) PROVE line[i + d - m] = pattern[d]
    <3>1. CASE d = m
      BY <1>1, <1>3, <3>1
    <3>2. CASE d # m
      <4>1. d \in m + 1 .. Len(pattern) /\ i + 1 + d - (m + 1) = i + d - m
        BY <1>1, <3>2
      <4> QED
        BY <1>3, <4>1 DEF Reads
    <3> QED
      BY <3>1, <3>2
  <2> QED
    BY <2>1, <2>2 DEF Reads
<1> QED
  BY <1>2, <1>3

\* A match reads the whole pattern.
LEMMA MatchReads ==
    ASSUME NEW line \in Line, NEW i \in Nat \ {0}, NEW pattern \in Line \ {<<>>}
    PROVE  JR!MatchAt(line, i, pattern) <=> Reads(line, i, pattern, 1)
<1> DEFINE p == Len(pattern)
           n == Len(line)
           part == SubSeq(line, i, i + p - 1)
<1>1. p \in Nat /\ p >= 1 /\ n \in Nat /\ i \in Nat /\ i >= 1
  BY DEF Line
<1>2. ASSUME i + p - 1 <= n
      PROVE  part = pattern <=> \A d \in 1 .. p : line[i + d - 1] = pattern[d]
  <2>1. i \in 1 .. n /\ i + p - 1 \in i .. n /\ i + p - 1 - i + 1 = p
    BY <1>1, <1>2
  <2>2. part \in Line /\ Len(part) = p /\ \A d \in 1 .. p : part[d] = line[i + d - 1]
    <3>1. i \in 1 .. n + 1 /\ i + p - 1 \in i - 1 .. n
      BY <1>1, <2>1
    <3> QED
      BY <1>1, <2>1, <3>1, SubSeqProperties DEF Line
  <2>3. part = pattern <=> \A d \in 1 .. p : part[d] = pattern[d]
    BY <2>2, SeqEqual DEF Line
  <2> QED
    BY <2>2, <2>3
<1>3. Reads(line, i, pattern, 1)
         <=> i + p - 1 <= n /\ \A d \in 1 .. p : line[i + d - 1] = pattern[d]
  BY DEF Reads
<1> QED
  BY <1>2, <1>3 DEF JR!MatchAt

\* A token of a line is a line.
LEMMA OneToken ==
    ASSUME NEW line \in Line, NEW i \in 1 .. Len(line)
    PROVE  /\ <<line[i]>> \in Line /\ Len(<<line[i]>>) = 1 /\ <<line[i]>>[1] = line[i]
           /\ line[i] \in Token
<1>1. line[i] \in Token
  BY DEF Line
<1> QED
  BY <1>1 DEF Line

\* What is read behind the first of two lines is read in the second one.
LEMMA ReadsBehind ==
    ASSUME NEW s \in Line, NEW t \in Line, NEW pattern \in Line
    PROVE  /\ s \o t \in Line /\ Len(s \o t) = Len(s) + Len(t) /\ Len(s) \in Nat /\ Len(t) \in Nat
           /\ \A i \in Nat \ {0} : i <= Len(t) => (s \o t)[Len(s) + i] = t[i]
           /\ \A i \in Nat \ {0} : \A m \in 1 .. Len(pattern) + 1 :
                 Reads(s \o t, Len(s) + i, pattern, m) <=> Reads(t, i, pattern, m)
<1> DEFINE line == s \o t
           l == Len(s)
<1>1. /\ line \in Line /\ Len(line) = l + Len(t) /\ l \in Nat /\ Len(t) \in Nat
      /\ Len(pattern) \in Nat
      /\ \A k \in 1 .. l + Len(t) : line[k] = IF k <= l THEN s[k] ELSE t[k - l]
  BY ConcatProperties DEF Line
<1> HIDE DEF line, l
<1>2. ASSUME NEW k \in 1 .. Len(t) PROVE line[l + k] = t[k]
  <2>1. l + k \in 1 .. l + Len(t) /\ ~ (l + k <= l) /\ l + k - l = k
    BY <1>1
  <2> QED
    BY <1>1, <2>1
<1>3. ASSUME NEW i \in Nat \ {0}, NEW m \in 1 .. Len(pattern) + 1
      PROVE  Reads(line, l + i, pattern, m) <=> Reads(t, i, pattern, m)
  <2>1. ASSUME i + Len(pattern) - m <= Len(t)
        PROVE  \A d \in m .. Len(pattern) : line[l + i + d - m] = t[i + d - m]
    <3> SUFFICES ASSUME NEW d \in m .. Len(pattern) PROVE line[l + i + d - m] = t[i + d - m]
      OBVIOUS
    <3>1. i + d - m \in 1 .. Len(t) /\ l + i + d - m = l + (i + d - m)
      BY <1>1, <2>1
    <3> QED
      BY <1>2, <3>1
  <2>2. l + i + Len(pattern) - m <= l + Len(t) <=> i + Len(pattern) - m <= Len(t)
    BY <1>1
  <2> QED
    BY <1>1, <2>1, <2>2 DEF Reads
<1>4. \A i \in Nat \ {0} : i <= Len(t) => line[l + i] = t[i]
  BY <1>1, <1>2
<1> QED
  BY <1>1, <1>3, <1>4 DEF line, l

\* The first of two lines is in front.
LEMMA InFront ==
    ASSUME NEW s \in Line, NEW t \in Line
    PROVE  \A k \in 1 .. Len(s) : (s \o t)[k] = s[k]
BY ConcatProperties DEF Line

\* The rest of a pattern that the replacement does not continue is read in the
\* rewritten line only where it was read in the line.
LEMMA TailsAreCopied ==
    ASSUME NEW line \in Line, NEW pattern \in Line \ {<<>>}, NEW replacement \in Line \ {<<>>},
           NEW bounded \in BOOLEAN, NEW f, Rewrites(f, line, pattern, replacement, bounded),
           NEW other \in Line, \A k \in 2 .. Len(other) : other[k] # replacement[1]
    PROVE  \A i \in 1 .. Len(line) + 1, m \in 2 .. Len(other) + 1 :
              Reads(f[i], 1, other, m) => Reads(line, i, other, m)
<1> DEFINE n == Len(line)
           q == Len(other)
           S == {i \in 1 .. n + 1 : \A m \in 2 .. q + 1 :
                   Reads(f[i], 1, other, m) => Reads(line, i, other, m)}
<1>1. n \in Nat /\ q \in Nat /\ Len(replacement) >= 1 /\ Len(replacement) \in Nat
      /\ Len(pattern) >= 1 /\ Len(pattern) \in Nat
  BY DEF Line
<1>2. ASSUME NEW i \in 1 .. n + 1, \A k \in i + 1 .. n + 1 : k \in S PROVE i \in S
  <2> SUFFICES ASSUME NEW m \in 2 .. q + 1, Reads(f[i], 1, other, m)
               PROVE  Reads(line, i, other, m)
    OBVIOUS
  <2>1. CASE m = q + 1
    BY <1>1, <2>1 DEF Reads
  <2>2. CASE m \in 2 .. q
    <3>1. m \in 1 .. q /\ m + 1 \in 2 .. q + 1 /\ f[i] \in Line /\ m \in 1 .. q + 1
          /\ m + 1 \in 1 .. q + 1
      BY <1>1, <2>2 DEF Rewrites
    <3>2. 1 <= Len(f[i]) /\ f[i][1] = other[m] /\ Reads(f[i], 2, other, m + 1)
      BY <3>1, ReadsOn
    <3>3. i # n + 1
      <4>1. f[n + 1] = <<>> /\ Len(<<>>) = 0
        BY DEF Rewrites
      <4> QED
        BY <3>2, <4>1
    <3>4. i \in 1 .. n /\ i + 1 \in i + 1 .. n + 1 /\ i + 1 \in 1 .. n + 1 /\ i \in Nat \ {0}
      BY <1>1, <3>3
    <3>5. ~ Hit(line, i, pattern, bounded)
      <4>1. ASSUME Hit(line, i, pattern, bounded) PROVE FALSE
        <5>1. f[i] = replacement \o f[i + Len(pattern)]
          BY <3>4, <4>1 DEF Rewrites
        <5>2. i + Len(pattern) \in 1 .. n + 1
          BY <1>1, <3>4, <4>1 DEF Hit, JR!MatchAt
        <5>3. f[i + Len(pattern)] \in Line /\ 1 \in 1 .. Len(replacement)
          BY <1>1, <5>2 DEF Rewrites
        <5>4. f[i][1] = replacement[1]
          BY <5>1, <5>3, InFront
        <5> QED
          BY <2>2, <3>2, <5>4
      <4> QED
        BY <4>1
    <3> DEFINE one == <<line[i]>>
               rest == f[i + 1]
    <3>6. f[i] = one \o rest /\ rest \in Line /\ one \in Line /\ Len(one) = 1
          /\ one[1] = line[i]
      <4>1. f[i] = one \o rest /\ rest \in Line
        BY <3>4, <3>5 DEF Rewrites
      <4> QED
        BY <4>1, <3>4, OneToken
    <3>7. f[i][1] = line[i] /\ Reads(rest, 1, other, m + 1)
      <4> HIDE DEF one, rest
      <4>0. 1 \in 1 .. Len(one)
        BY <3>6
      <4>1. (one \o rest)[1] = one[1]
        BY <3>6, <4>0, InFront
      <4>2. \A x \in Nat \ {0} : \A y \in 1 .. Len(other) + 1 :
              Reads(one \o rest, Len(one) + x, other, y) <=> Reads(rest, x, other, y)
        BY <3>6, ReadsBehind
      <4>3. 1 \in Nat \ {0} /\ 1 + 1 = 2
        OBVIOUS
      <4> QED
        BY <3>1, <3>2, <3>6, <4>1, <4>2, <4>3
    <3>8. Reads(line, i + 1, other, m + 1)
      BY <1>2, <3>1, <3>4, <3>7
    <3> QED
      BY <1>1, <3>1, <3>2, <3>4, <3>7, <3>8, ReadsOn
  <2> QED
    BY <1>1, <2>1, <2>2
<1>3. \A i \in 1 .. n + 1 : i \in S
  <2>1. n + 1 \in Nat
    BY <1>1
  <2> HIDE DEF S, n
  <2> QED
    BY <1>2, <2>1, FromTheEnd
<1> QED
  BY <1>3

\* A replacement and the pattern it is for end where a name does.
Fits(pattern, replacement) ==
    /\ pattern \in Line \ {<<>>} /\ pattern[Len(pattern)] \notin JR!Glue
    /\ replacement \in Line /\ Len(replacement) >= 2

(***************************************************************************)
(* The replacement neither continues the other pattern nor begins it,      *)
(* except where it cannot begin a name, or with the token in which the     *)
(* pattern ended.                                                          *)
(***************************************************************************)
Harmless(pattern, replacement, other, bare) ==
    /\ \A k \in 1 .. Len(other) : other[k] # replacement[1]
    /\ \A k \in 2 .. Len(replacement) :
          replacement[k] = other[1] =>
             \/ bare /\ replacement[k - 1] \in JR!Glue
             \/ /\ k = Len(replacement) /\ Len(pattern) > 1
                /\ pattern[Len(pattern)] = other[1] /\ pattern[Len(pattern) - 1] \notin JR!Glue

\* Where the rewritten line reads a pattern, the line did.
LEMMA MatchesAreOld ==
    ASSUME NEW line \in Line, NEW pattern, NEW replacement, Fits(pattern, replacement),
           NEW bounded \in BOOLEAN, NEW f, Rewrites(f, line, pattern, replacement, bounded),
           NEW other \in Line \ {<<>>}, NEW bare \in BOOLEAN,
           Harmless(pattern, replacement, other, bare)
    PROVE  \A i \in 1 .. Len(line) + 1 : \A k \in 1 .. Len(f[i]) :
              Reads(f[i], k, other, 1) =>
                 \/ k > 1 /\ bare /\ f[i][k - 1] \in JR!Glue
                 \/ \E j \in i .. Len(line) :
                       /\ Reads(line, j, other, 1)
                       /\ Hit(line, j, pattern, bounded) => replacement[Len(replacement)] = other[1]
                       /\ k = 1 => j = i
                       /\ k > 1 /\ f[i][k - 1] \notin JR!Glue => JR!OnBoundary(line, j)
<1> DEFINE n == Len(line)
           p == Len(pattern)
           r == Len(replacement)
           q == Len(other)
           Old(i, k, j) == /\ Reads(line, j, other, 1)
                           /\ Hit(line, j, pattern, bounded) => replacement[r] = other[1]
                           /\ k = 1 => j = i
                           /\ k > 1 /\ f[i][k - 1] \notin JR!Glue => JR!OnBoundary(line, j)
           Traced(i, k) == \/ k > 1 /\ bare /\ f[i][k - 1] \in JR!Glue
                           \/ \E j \in i .. n : Old(i, k, j)
           S == {i \in 1 .. n + 1 : \A k \in 1 .. Len(f[i]) :
                   Reads(f[i], k, other, 1) => Traced(i, k)}
<1>1. /\ n \in Nat /\ p \in Nat /\ p >= 1 /\ r \in Nat /\ r >= 2 /\ q \in Nat /\ q >= 1
      /\ pattern \in Line /\ replacement \in Line /\ other \in Line
      /\ 1 \in 1 .. q /\ 1 \in 1 .. q + 1
  BY DEF Fits, Line
<1>2. \A i \in 1 .. n + 1, m \in 2 .. q + 1 : Reads(f[i], 1, other, m) => Reads(line, i, other, m)
  <2>1. replacement \in Line \ {<<>>} /\ pattern \in Line \ {<<>>}
    BY <1>1 DEF Fits, Line
  <2>2. \A k \in 2 .. Len(other) : other[k] # replacement[1]
    BY <1>1 DEF Harmless
  <2> QED
    BY <2>1, <2>2, TailsAreCopied
<1>3. ASSUME NEW i \in 1 .. n + 1, \A k \in i + 1 .. n + 1 : k \in S PROVE i \in S
  <2> SUFFICES ASSUME NEW k \in 1 .. Len(f[i]), Reads(f[i], k, other, 1) PROVE Traced(i, k)
    OBVIOUS
  <2>1. i \in 1 .. n
    <3>1. f[n + 1] = <<>> /\ Len(<<>>) = 0
      BY DEF Rewrites
    <3> QED
      BY <1>1, <3>1
  <2>2. f[i] \in Line /\ Len(f[i]) \in Nat /\ k \in Nat \ {0} /\ i \in Nat \ {0}
    BY <1>1, <2>1 DEF Rewrites, Line
  <2>3. CASE ~ Hit(line, i, pattern, bounded)
    <3> DEFINE one == <<line[i]>>
               rest == f[i + 1]
    <3>1. f[i] = one \o rest /\ rest \in Line /\ one \in Line /\ Len(one) = 1 /\ one[1] = line[i]
          /\ i + 1 \in 1 .. n + 1 /\ i + 1 \in i + 1 .. n + 1
      <4>1. i + 1 \in 1 .. n + 1 /\ i + 1 \in i + 1 .. n + 1
        BY <1>1, <2>1
      <4>2. f[i] = one \o rest /\ rest \in Line
        BY <2>1, <2>3, <4>1 DEF Rewrites
      <4> QED
        BY <2>1, <4>1, <4>2, OneToken
    <3> HIDE DEF one, rest
    <3>0. rest = f[i + 1]
      BY DEF rest
    <3>2. f[i][1] = line[i]
      <4>0. 1 \in 1 .. Len(one)
        BY <3>1
      <4>1. (one \o rest)[1] = one[1]
        BY <3>1, <4>0, InFront
      <4> QED
        BY <3>1, <4>1
    <3>3. \A x \in Nat \ {0} : \A m \in 1 .. q + 1 :
            /\ Len(f[i]) = 1 + Len(rest) /\ Len(rest) \in Nat
            /\ x <= Len(rest) => f[i][1 + x] = rest[x]
            /\ Reads(f[i], 1 + x, other, m) <=> Reads(rest, x, other, m)
      <4>1. /\ Len(one \o rest) = Len(one) + Len(rest) /\ Len(rest) \in Nat
            /\ \A x \in Nat \ {0} : x <= Len(rest) => (one \o rest)[Len(one) + x] = rest[x]
            /\ \A x \in Nat \ {0} : \A m \in 1 .. Len(other) + 1 :
                  Reads(one \o rest, Len(one) + x, other, m) <=> Reads(rest, x, other, m)
        BY <1>1, <3>1, ReadsBehind
      <4> QED
        BY <3>1, <4>1
    <3>4. CASE k = 1
      <4>1. Reads(f[i], 1, other, 1) /\ f[i][1] = other[1] /\ Reads(f[i], 2, other, 2)
        BY <1>1, <2>2, <3>4, ReadsOn
      <4>2. Reads(rest, 1, other, 2)
        <5>1. 1 \in Nat \ {0} /\ 2 \in 1 .. q + 1 /\ 1 + 1 = 2
          BY <1>1
        <5> QED
          BY <3>3, <4>1, <5>1
      <4>3. Reads(line, i + 1, other, 2)
        <5>1. 2 \in 2 .. q + 1
          BY <1>1
        <5> QED
          BY <1>2, <3>0, <3>1, <4>2, <5>1
      <4>4. Reads(line, i, other, 1)
        <5>1. 1 + 1 = 2 /\ i <= n /\ line[i] = other[1]
          BY <1>1, <2>1, <3>2, <4>1
        <5>2. Reads(line, i + 1, other, 1 + 1)
          BY <4>3, <5>1
        <5> QED
          BY <1>1, <2>2, <5>1, <5>2, ReadsOn
      <4>5. Old(i, k, i) /\ i \in i .. n
        BY <1>1, <2>1, <2>3, <3>4, <4>4
      <4> HIDE DEF Old
      <4> QED
        BY <4>5
    <3>5. CASE k > 1
      <4> DEFINE x == k - 1
      <4>1. x \in 1 .. Len(rest) /\ x \in Nat \ {0} /\ 1 + x = k
        <5>1. Len(f[i]) = 1 + Len(rest) /\ Len(rest) \in Nat
          BY <1>1, <2>2, <3>3
        <5> QED
          BY <2>2, <3>5, <5>1
      <4>2. Reads(rest, x, other, 1)
        BY <1>1, <3>3, <4>1
      <4>3. Traced(i + 1, x)
        BY <1>3, <3>0, <3>1, <4>1, <4>2
      <4>4. CASE k = 2
        <5>1. x = 1 /\ f[i][k - 1] = line[i] /\ ~ (x > 1)
          BY <2>2, <3>2, <4>4
        <5>2. PICK j \in i + 1 .. n : Old(i + 1, x, j)
          BY <4>3, <5>1
        <5>3. j = i + 1 /\ Reads(line, j, other, 1)
              /\ (Hit(line, j, pattern, bounded) => replacement[r] = other[1])
          BY <5>1, <5>2
        <5>4. line[i] \notin JR!Glue => JR!OnBoundary(line, j)
          <6>1. j - 1 = i
            BY <1>1, <2>1, <5>3
          <6> QED
            BY <6>1 DEF JR!OnBoundary
        <5>5. Old(i, k, j) /\ j \in i .. n
          BY <1>1, <2>1, <3>5, <5>1, <5>3, <5>4
        <5> HIDE DEF Old
        <5> QED
          BY <5>5
      <4>5. CASE k > 2
        <5>1. x - 1 \in Nat \ {0} /\ x - 1 <= Len(rest) /\ 1 + (x - 1) = k - 1 /\ x > 1
          BY <2>2, <4>1, <4>5, <3>3
        <5>2. f[i][k - 1] = rest[x - 1]
          <6>1. f[i][1 + (x - 1)] = rest[x - 1]
            BY <1>1, <3>3, <5>1
          <6> QED
            BY <5>1, <6>1
        <5>0. f[i + 1][x - 1] = rest[x - 1]
          BY <3>0
        <5>3. CASE x > 1 /\ bare /\ rest[x - 1] \in JR!Glue
          BY <3>5, <5>2, <5>3
        <5>4. CASE \E j \in i + 1 .. n : Old(i + 1, x, j)
          <6>1. PICK j \in i + 1 .. n : Old(i + 1, x, j)
            BY <5>4
          <6>2. Old(i, k, j) /\ j \in i .. n
            <7>1. j \in i .. n /\ k # 1
              BY <1>1, <2>1, <3>5
            <7> QED
              BY <5>0, <5>1, <5>2, <6>1, <7>1
          <6> HIDE DEF Old
          <6> QED
            BY <6>2
        <5> QED
          BY <4>3, <5>0, <5>3, <5>4
      <4> QED
        BY <2>2, <3>5, <4>4, <4>5
    <3> QED
      BY <2>2, <3>4, <3>5
  <2>4. CASE Hit(line, i, pattern, bounded)
    <3> DEFINE rest == f[i + p]
    <3>1. /\ f[i] = replacement \o rest /\ rest \in Line
          /\ i + p \in 1 .. n + 1 /\ i + p \in i + 1 .. n + 1
          /\ Reads(line, i, pattern, 1)
      <4>1. i + p \in 1 .. n + 1 /\ i + p \in i + 1 .. n + 1
        BY <1>1, <2>1, <2>4 DEF Hit, JR!MatchAt
      <4>2. f[i] = replacement \o rest /\ rest \in Line
        BY <2>1, <2>4, <4>1 DEF Rewrites
      <4>3. Reads(line, i, pattern, 1)
        BY <2>2, <2>4, MatchReads DEF Hit, Fits
      <4> QED
        BY <4>1, <4>2, <4>3
    <3>2. \A x \in 1 .. r : f[i][x] = replacement[x]
      BY <1>1, <3>1, InFront
    <3>0. rest = f[i + p]
      OBVIOUS
    <3> HIDE DEF rest
    <3>3. \A x \in Nat \ {0} : \A m \in 1 .. q + 1 :
            /\ Len(f[i]) = r + Len(rest) /\ Len(rest) \in Nat
            /\ x <= Len(rest) => f[i][r + x] = rest[x]
            /\ Reads(f[i], r + x, other, m) <=> Reads(rest, x, other, m)
      <4>1. /\ Len(replacement \o rest) = r + Len(rest) /\ Len(rest) \in Nat
            /\ \A x \in Nat \ {0} : x <= Len(rest) => (replacement \o rest)[r + x] = rest[x]
            /\ \A x \in Nat \ {0} : \A m \in 1 .. Len(other) + 1 :
                  Reads(replacement \o rest, r + x, other, m) <=> Reads(rest, x, other, m)
        BY <1>1, <3>1, ReadsBehind
      <4> QED
        BY <3>1, <4>1
    <3>4. \A d \in 1 .. p : line[i + d - 1] = pattern[d]
      BY <3>1 DEF Reads
    <3>5. CASE k <= r
      <4>1. replacement[k] = other[1] /\ f[i][k] = replacement[k] /\ Reads(f[i], k + 1, other, 2)
        <5>1. k \in 1 .. r
          BY <2>2, <3>5
        <5>2. f[i][k] = replacement[k]
          BY <3>2, <5>1
        <5>3. f[i][k] = other[1] /\ Reads(f[i], k + 1, other, 1 + 1)
          BY <1>1, <2>2, ReadsOn
        <5> QED
          BY <5>2, <5>3
      <4>2. k # 1
        BY <1>1, <4>1 DEF Harmless
      <4>3. k \in 2 .. r /\ k > 1 /\ k - 1 \in 1 .. r
        BY <1>1, <2>2, <3>5, <4>2
      <4>4. CASE bare /\ replacement[k - 1] \in JR!Glue
        BY <3>2, <4>3, <4>4
      <4>5. CASE /\ k = r /\ p > 1
                 /\ pattern[p] = other[1] /\ pattern[p - 1] \notin JR!Glue
        <5> DEFINE j == i + p - 1
        <5>1. Reads(rest, 1, other, 2)
          <6>1. 1 \in Nat \ {0} /\ 2 \in 1 .. q + 1 /\ r + 1 = k + 1
            BY <1>1, <4>5
          <6> QED
            BY <3>3, <4>1, <6>1
        <5>2. Reads(line, i + p, other, 2)
          <6>1. 2 \in 2 .. q + 1
            BY <1>1
          <6> QED
            BY <1>2, <3>0, <3>1, <5>1, <6>1
        <5>3. /\ j \in i .. n /\ j + 1 = i + p /\ j \in Nat \ {0} /\ j <= n /\ j # 1
              /\ j - 1 = i + (p - 1) - 1
          BY <1>1, <2>1, <3>1, <4>5
        <5>4. line[j] = other[1] /\ line[j - 1] = pattern[p - 1]
          <6>1. p \in 1 .. p /\ p - 1 \in 1 .. p
            BY <1>1, <4>5
          <6> QED
            BY <3>4, <4>5, <5>3, <6>1
        <5>5. Reads(line, j, other, 1)
          <6>1. 1 + 1 = 2
            OBVIOUS
          <6> HIDE DEF j
          <6> QED
            BY <1>1, <5>2, <5>3, <5>4, <6>1, ReadsOn
        <5>6. JR!OnBoundary(line, j)
          BY <4>5, <5>4 DEF JR!OnBoundary
        <5>7. Old(i, k, j)
          <6> HIDE DEF j
          <6> QED
            BY <4>1, <4>2, <4>5, <5>5, <5>6
        <5> HIDE DEF Old, j
        <5> QED
          BY <5>3, <5>7
      <4> QED
        BY <4>1, <4>3, <4>4, <4>5 DEF Harmless
    <3>6. CASE k > r
      <4> DEFINE x == k - r
      <4>1. x \in 1 .. Len(rest) /\ x \in Nat \ {0} /\ r + x = k /\ k > 1
        <5>1. Len(f[i]) = r + Len(rest) /\ Len(rest) \in Nat
          BY <1>1, <2>2, <3>3
        <5> QED
          BY <1>1, <2>2, <3>6, <5>1
      <4>2. Reads(rest, x, other, 1)
        BY <1>1, <3>3, <4>1
      <4>3. Traced(i + p, x)
        BY <1>3, <3>0, <3>1, <4>1, <4>2
      <4>4. CASE x = 1
        <5>1. PICK j \in i + p .. n : Old(i + p, x, j)
          BY <4>3, <4>4
        <5>2. j = i + p /\ Reads(line, j, other, 1)
              /\ (Hit(line, j, pattern, bounded) => replacement[r] = other[1])
          BY <4>4, <5>1
        <5>3. JR!OnBoundary(line, j)
          <6>1. p \in 1 .. p /\ j - 1 = i + p - 1 /\ line[i + p - 1] = pattern[p]
            BY <1>1, <2>1, <3>4, <5>2
          <6> QED
            BY <6>1 DEF JR!OnBoundary, Fits
        <5>4. Old(i, k, j) /\ j \in i .. n
          <6>1. j \in i .. n /\ k # 1
            BY <1>1, <2>1, <4>1
          <6> QED
            BY <5>2, <5>3, <6>1
        <5> HIDE DEF Old
        <5> QED
          BY <5>4
      <4>5. CASE x > 1
        <5>1. x - 1 \in Nat \ {0} /\ x - 1 <= Len(rest) /\ r + (x - 1) = k - 1
          BY <1>1, <2>2, <4>1, <4>5, <3>1 DEF Line
        <5>2. f[i][k - 1] = rest[x - 1]
          <6>1. f[i][r + (x - 1)] = rest[x - 1]
            BY <1>1, <3>3, <5>1
          <6> QED
            BY <5>1, <6>1
        <5>0. f[i + p][x - 1] = rest[x - 1]
          BY <3>0
        <5>3. CASE x > 1 /\ bare /\ rest[x - 1] \in JR!Glue
          BY <4>1, <5>2, <5>3
        <5>4. CASE \E j \in i + p .. n : Old(i + p, x, j)
          <6>1. PICK j \in i + p .. n : Old(i + p, x, j)
            BY <5>4
          <6>2. Old(i, k, j) /\ j \in i .. n
            <7>1. j \in i .. n /\ k # 1
              BY <1>1, <2>1, <4>1
            <7> QED
              BY <4>5, <5>0, <5>2, <6>1, <7>1
          <6> HIDE DEF Old
          <6> QED
            BY <6>2
        <5> QED
          BY <4>3, <5>0, <5>3, <5>4
      <4> QED
        BY <4>1, <4>4, <4>5
    <3> QED
      BY <1>1, <2>2, <3>5, <3>6
  <2> QED
    BY <2>3, <2>4
<1>4. \A i \in 1 .. n + 1 : i \in S
  <2>1. n + 1 \in Nat
    BY <1>1
  <2> HIDE DEF S, n
  <2> QED
    BY <1>3, <2>1, FromTheEnd
<1> QED
  BY <1>4

\* A line that reads a pattern nowhere that counts.
Clear(line, pattern, bounded) == \A i \in DOMAIN line : ~ Hit(line, i, pattern, bounded)

\* A rewritten line is a line.
LEMMA ReplacedIsLine ==
    ASSUME NEW line \in Line, NEW pattern, NEW replacement, Fits(pattern, replacement),
           NEW bounded \in BOOLEAN
    PROVE  JR!Replaced(line, pattern, replacement, bounded) \in Line
<1>1. pattern \in Line \ {<<>>} /\ replacement \in Line
  BY DEF Fits
<1>2. PICK f : /\ Rewrites(f, line, pattern, replacement, bounded)
               /\ JR!Replaced(line, pattern, replacement, bounded) = f[1]
  BY <1>1, ReplacedRecurses
<1>3. 1 \in 1 .. Len(line) + 1
  BY DEF Line
<1> QED
  BY <1>2, <1>3 DEF Rewrites

\* A pattern that counts in the rewritten line did so in the line, where the
\* replaced pattern stood only if the replacement ends as the pattern begins.
LEMMA HitsAreOld ==
    ASSUME NEW line \in Line, NEW pattern, NEW replacement, Fits(pattern, replacement),
           NEW bounded \in BOOLEAN, NEW other \in Line \ {<<>>}, NEW bare \in BOOLEAN,
           Harmless(pattern, replacement, other, bare),
           ~ Clear(JR!Replaced(line, pattern, replacement, bounded), other, bare)
    PROVE  \E j \in DOMAIN line :
              /\ Hit(line, j, other, bare)
              /\ Hit(line, j, pattern, bounded) => replacement[Len(replacement)] = other[1]
<1>1. pattern \in Line \ {<<>>} /\ replacement \in Line
  BY DEF Fits
<1>2. PICK f : /\ Rewrites(f, line, pattern, replacement, bounded)
               /\ JR!Replaced(line, pattern, replacement, bounded) = f[1]
  BY <1>1, ReplacedRecurses
<1>3. 1 \in 1 .. Len(line) + 1 /\ f[1] \in Line /\ DOMAIN line = 1 .. Len(line)
      /\ DOMAIN f[1] = 1 .. Len(f[1]) /\ Len(f[1]) \in Nat /\ Len(line) \in Nat
  BY <1>2 DEF Rewrites, Line
<1>4. PICK k \in 1 .. Len(f[1]) : Hit(f[1], k, other, bare)
  BY <1>2, <1>3 DEF Clear
<1>5. Reads(f[1], k, other, 1)
  BY <1>3, <1>4, MatchReads DEF Hit
<1>6. ~ (k > 1 /\ bare /\ f[1][k - 1] \in JR!Glue)
  BY <1>4 DEF Hit, JR!OnBoundary
<1>7. PICK j \in 1 .. Len(line) :
         /\ Reads(line, j, other, 1)
         /\ Hit(line, j, pattern, bounded) => replacement[Len(replacement)] = other[1]
         /\ k = 1 => j = 1
         /\ k > 1 /\ f[1][k - 1] \notin JR!Glue => JR!OnBoundary(line, j)
  <2>1. \A i \in 1 .. Len(line) + 1 : \A x \in 1 .. Len(f[i]) :
              Reads(f[i], x, other, 1) =>
                 \/ x > 1 /\ bare /\ f[i][x - 1] \in JR!Glue
                 \/ \E j \in i .. Len(line) :
                       /\ Reads(line, j, other, 1)
                       /\ Hit(line, j, pattern, bounded) => replacement[Len(replacement)] = other[1]
                       /\ x = 1 => j = i
                       /\ x > 1 /\ f[i][x - 1] \notin JR!Glue => JR!OnBoundary(line, j)
    BY <1>2, MatchesAreOld
  <2> QED
    BY <1>3, <1>5, <1>6, <2>1
<1>8. bare => JR!OnBoundary(line, j)
  <2>1. CASE k = 1
    BY <1>7, <2>1 DEF JR!OnBoundary
  <2>2. CASE k > 1
    BY <1>6, <1>7, <2>2
  <2> QED
    BY <1>3, <2>1, <2>2
<1>9. JR!MatchAt(line, j, other)
  <2>1. j \in Nat \ {0}
    BY <1>3
  <2> QED
    BY <1>7, <2>1, MatchReads
<1> QED
  BY <1>3, <1>7, <1>8, <1>9 DEF Hit

\* Replacing what is not there changes nothing.
LEMMA NothingReplaced ==
    ASSUME NEW line \in Line, NEW pattern, NEW replacement, Fits(pattern, replacement),
           NEW bounded \in BOOLEAN, Clear(line, pattern, bounded)
    PROVE  JR!Replaced(line, pattern, replacement, bounded) = line
<1> DEFINE n == Len(line)
<1>1. pattern \in Line \ {<<>>} /\ replacement \in Line
  BY DEF Fits
<1>2. PICK f : /\ Rewrites(f, line, pattern, replacement, bounded)
               /\ JR!Replaced(line, pattern, replacement, bounded) = f[1]
  BY <1>1, ReplacedRecurses
<1>3. n \in Nat /\ DOMAIN line = 1 .. n /\ \A i \in 1 .. n + 1 : f[i] \in Line
  BY <1>2 DEF Rewrites, Line
<1> DEFINE Copy(i) == Len(f[i]) = n - i + 1 /\ \A k \in 1 .. n - i + 1 : f[i][k] = line[i + k - 1]
           S == {i \in 1 .. n + 1 : Copy(i)}
<1>4. ASSUME NEW i \in 1 .. n + 1, \A k \in i + 1 .. n + 1 : k \in S PROVE i \in S
  <2>1. CASE i = n + 1
    <3>1. f[i] = <<>> /\ n - i + 1 = 0
      BY <1>2, <1>3, <2>1 DEF Rewrites
    <3> QED
      BY <3>1
  <2>2. CASE i # n + 1
    <3> DEFINE one == <<line[i]>>
               rest == f[i + 1]
    <3>1. i \in 1 .. n /\ i + 1 \in i + 1 .. n + 1 /\ i + 1 \in 1 .. n + 1
      BY <1>3, <2>2
    <3>2. f[i] = one \o rest /\ rest \in Line /\ one \in Line /\ Len(one) = 1 /\ one[1] = line[i]
      <4>1. f[i] = one \o rest
        BY <1>2, <1>3, <3>1 DEF Rewrites, Clear
      <4> QED
        BY <1>3, <3>1, <4>1, OneToken
    <3>3. /\ Len(rest) = n - (i + 1) + 1
          /\ \A k \in 1 .. n - (i + 1) + 1 : rest[k] = line[i + 1 + k - 1]
      BY <1>4, <3>1
    <3> HIDE DEF one, rest
    <3>4. Len(f[i]) = 1 + Len(rest)
          /\ \A k \in 1 .. 1 + Len(rest) : f[i][k] = IF k <= 1 THEN one[k] ELSE rest[k - 1]
      <4>1. /\ Len(one \o rest) = Len(one) + Len(rest)
            /\ \A k \in 1 .. Len(one) + Len(rest) :
                  (one \o rest)[k] = IF k <= Len(one) THEN one[k] ELSE rest[k - Len(one)]
        BY <3>2, ConcatProperties DEF Line
      <4> QED
        BY <3>2, <4>1
    <3>5. ASSUME NEW k \in 1 .. n - i + 1 PROVE f[i][k] = line[i + k - 1]
      <4>1. CASE k = 1
        <5>1. 1 \in 1 .. 1 + Len(rest) /\ i + k - 1 = i
          BY <1>3, <3>1, <3>3, <4>1
        <5> QED
          BY <3>2, <3>4, <4>1, <5>1
      <4>2. CASE k > 1
        <5>1. k \in 1 .. 1 + Len(rest) /\ k - 1 \in 1 .. n - (i + 1) + 1 /\ ~ (k <= 1)
              /\ i + 1 + (k - 1) - 1 = i + k - 1
          BY <1>3, <3>1, <3>3, <4>2
        <5>2. f[i][k] = rest[k - 1]
          BY <3>4, <5>1
        <5>3. rest[k - 1] = line[i + 1 + (k - 1) - 1]
          BY <3>3, <5>1
        <5> QED
          BY <5>1, <5>2, <5>3
      <4> QED
        BY <1>3, <4>1, <4>2
    <3>6. Len(f[i]) = n - i + 1
      BY <1>3, <3>1, <3>3, <3>4
    <3> QED
      BY <3>5, <3>6
  <2> QED
    BY <2>1, <2>2
<1>5. \A i \in 1 .. n + 1 : i \in S
  <2>1. n + 1 \in Nat
    BY <1>3
  <2> HIDE DEF S, n
  <2> QED
    BY <1>4, <2>1, FromTheEnd
<1>6. 1 \in 1 .. n + 1 /\ n - 1 + 1 = n /\ f[1] \in Line
  BY <1>3
<1>7. Len(f[1]) = n /\ \A k \in 1 .. n : f[1][k] = line[k]
  <2>1. Copy(1)
    BY <1>5, <1>6
  <2>2. \A k \in 1 .. n : 1 + k - 1 = k
    BY <1>3
  <2> QED
    BY <1>6, <2>1, <2>2
<1>8. f[1] = line
  BY <1>6, <1>7, SeqEqual DEF Line
<1> QED
  BY <1>2, <1>8

-----------------------------------------------------------------------------

Sources == [imports : SUBSET JR!Imports, lines : Seq([kind : JR!Kinds, tokens : Line])]

\* One pattern replaced in the lines of some kinds.
Edited(file, kinds, pattern, replacement, bounded) ==
    [imports |-> file.imports,
     lines |-> [i \in DOMAIN file.lines |->
        [kind |-> file.lines[i].kind,
         tokens |-> IF file.lines[i].kind \in kinds
                    THEN JR!Replaced(file.lines[i].tokens, pattern, replacement, bounded)
                    ELSE file.lines[i].tokens]]]

\* A file whose lines of some kinds are clear of a pattern.
Free(file, kinds, pattern, bounded) ==
    \A i \in DOMAIN file.lines :
        file.lines[i].kind \in kinds => Clear(file.lines[i].tokens, pattern, bounded)

\* The lines of a source, and its fields.
LEMMA SourceLines ==
    ASSUME NEW file \in Sources
    PROVE  /\ file.imports \in SUBSET JR!Imports
           /\ \A i \in DOMAIN file.lines :
                 /\ file.lines[i] \in [kind : JR!Kinds, tokens : Line]
                 /\ file.lines[i].kind \in JR!Kinds /\ file.lines[i].tokens \in Line
           /\ DOMAIN file.lines = 1 .. Len(file.lines) /\ Len(file.lines) \in Nat
           /\ file = [imports |-> file.imports, lines |-> file.lines]
<1> DEFINE T == [kind : JR!Kinds, tokens : Line]
<1>1. /\ file.imports \in SUBSET JR!Imports /\ file.lines \in Seq(T)
      /\ file = [imports |-> file.imports, lines |-> file.lines]
  BY DEF Sources
<1>2. DOMAIN file.lines = 1 .. Len(file.lines) /\ Len(file.lines) \in Nat
      /\ \A i \in DOMAIN file.lines : file.lines[i] \in T
  <2> HIDE DEF T
  <2> QED
    BY <1>1
<1> QED
  BY <1>1, <1>2

\* An edited source is a source.
LEMMA EditedIsSource ==
    ASSUME NEW file \in Sources, NEW kinds, NEW pattern, NEW replacement,
           Fits(pattern, replacement), NEW bounded \in BOOLEAN
    PROVE  Edited(file, kinds, pattern, replacement, bounded) \in Sources
<1> DEFINE Record(i) == [kind |-> file.lines[i].kind,
                         tokens |-> IF file.lines[i].kind \in kinds
                                    THEN JR!Replaced(file.lines[i].tokens, pattern, replacement,
                                                     bounded)
                                    ELSE file.lines[i].tokens]
<1>1. ASSUME NEW i \in DOMAIN file.lines
      PROVE  Record(i) \in [kind : JR!Kinds, tokens : Line]
  BY SourceLines, ReplacedIsLine
<1>2. [i \in DOMAIN file.lines |-> Record(i)] \in Seq([kind : JR!Kinds, tokens : Line])
  <2>1. DOMAIN file.lines = 1 .. Len(file.lines) /\ Len(file.lines) \in Nat
    BY SourceLines
  <2> HIDE DEF Record
  <2> QED
    BY <1>1, <2>1, IsASeq
<1> QED
  BY <1>2, SourceLines DEF Edited, Sources

\* An edit leaves its own pattern nowhere in the lines it edits.
LEMMA EditFrees ==
    ASSUME NEW file \in Sources, NEW kinds, NEW pattern, NEW replacement,
           Fits(pattern, replacement), NEW bounded \in BOOLEAN,
           Harmless(pattern, replacement, pattern, bounded),
           replacement[Len(replacement)] # pattern[1]
    PROVE  Free(Edited(file, kinds, pattern, replacement, bounded), kinds, pattern, bounded)
<1> DEFINE new == Edited(file, kinds, pattern, replacement, bounded)
<1> SUFFICES ASSUME NEW i \in DOMAIN new.lines, new.lines[i].kind \in kinds
             PROVE  Clear(new.lines[i].tokens, pattern, bounded)
  BY DEF Free
<1>1. i \in DOMAIN file.lines /\ file.lines[i].tokens \in Line
      /\ new.lines[i].tokens = JR!Replaced(file.lines[i].tokens, pattern, replacement, bounded)
  BY SourceLines DEF Edited
<1>2. pattern \in Line \ {<<>>}
  BY DEF Fits
<1> HIDE DEF new
<1> QED
  BY <1>1, <1>2, HitsAreOld

\* An edit brings no pattern it is harmless for.
LEMMA EditKeepsFree ==
    ASSUME NEW file \in Sources, NEW kinds, NEW pattern, NEW replacement,
           Fits(pattern, replacement), NEW bounded \in BOOLEAN,
           NEW scope, NEW other \in Line \ {<<>>}, NEW bare \in BOOLEAN,
           Harmless(pattern, replacement, other, bare), Free(file, scope, other, bare)
    PROVE  Free(Edited(file, kinds, pattern, replacement, bounded), scope, other, bare)
<1> DEFINE new == Edited(file, kinds, pattern, replacement, bounded)
<1> SUFFICES ASSUME NEW i \in DOMAIN new.lines, new.lines[i].kind \in scope
             PROVE  Clear(new.lines[i].tokens, other, bare)
  BY DEF Free
<1>1. /\ i \in DOMAIN file.lines /\ file.lines[i].tokens \in Line
      /\ new.lines[i].kind = file.lines[i].kind
      /\ new.lines[i].tokens \in {file.lines[i].tokens,
                                  JR!Replaced(file.lines[i].tokens, pattern, replacement, bounded)}
  BY SourceLines DEF Edited
<1>2. Clear(file.lines[i].tokens, other, bare)
  BY <1>1 DEF Free
<1> HIDE DEF new
<1>3. Clear(JR!Replaced(file.lines[i].tokens, pattern, replacement, bounded), other, bare)
  BY <1>1, <1>2, HitsAreOld DEF Clear
<1> QED
  BY <1>1, <1>2, <1>3

\* An edit without anything to replace changes nothing.
LEMMA EditSettles ==
    ASSUME NEW file \in Sources, NEW kinds, NEW pattern, NEW replacement,
           Fits(pattern, replacement), NEW bounded \in BOOLEAN, Free(file, kinds, pattern, bounded)
    PROVE  Edited(file, kinds, pattern, replacement, bounded) = file
<1> DEFINE new == Edited(file, kinds, pattern, replacement, bounded)
<1>1. ASSUME NEW i \in DOMAIN file.lines PROVE new.lines[i] = file.lines[i]
  <2>1. file.lines[i].kind \in kinds =>
           JR!Replaced(file.lines[i].tokens, pattern, replacement, bounded) = file.lines[i].tokens
    BY SourceLines, NothingReplaced DEF Free
  <2>2. file.lines[i] = [kind |-> file.lines[i].kind, tokens |-> file.lines[i].tokens]
    <3>1. file.lines[i] \in [kind : JR!Kinds, tokens : Line]
      BY SourceLines
    <3> QED
      BY <3>1
  <2> QED
    BY <2>1, <2>2 DEF Edited
<1>2. new.lines = file.lines
  <2>1. /\ DOMAIN new.lines = DOMAIN file.lines
        /\ new.lines = [i \in DOMAIN file.lines |-> new.lines[i]]
    BY DEF Edited
  <2>2. file.lines = [i \in DOMAIN file.lines |-> file.lines[i]]
    <3>1. file.lines \in Seq([kind : JR!Kinds, tokens : Line])
      BY DEF Sources
    <3> QED
      BY <3>1
  <2> HIDE DEF new
  <2> QED
    BY <1>1, <2>1, <2>2
<1>3. new = [imports |-> file.imports, lines |-> new.lines]
  BY DEF Edited
<1> HIDE DEF new
<1> QED
  BY <1>2, <1>3, SourceLines DEF new

\* The mappings AlgorithmsAssumption allows.
SymbolMapping ==
    [class : STRING \ {"org.old."}, member : Seq(STRING \ (JR!OldNames \cup {"parse"})) \ {<<>>},
     name : STRING \ JR!OldNames, constructor : BOOLEAN]

\* The spellings of the member that are replaced, and what replaces them.
SimpleCall         == JR!OldClass \o <<".parse", "(">>
QualifiedCall      == JR!OldQualified \o <<".parse", "(">>
SimpleField        == JR!OldClass \o <<".parse">>
QualifiedField     == JR!OldQualified \o <<".parse">>
StaticCall         == <<"parse", "(">>
StaticName         == <<"parse">>
SimpleReference    == JR!OldClass \o <<"::", "parse">>
QualifiedReference == JR!OldQualified \o <<"::", "parse">>

Spelled  == {SimpleCall, QualifiedCall, SimpleField, QualifiedField,
             SimpleReference, QualifiedReference}
Patterns == Spelled \cup {StaticCall, StaticName}

NewCall(mapping)      == JR!NewMember(mapping) \o <<"(">>
NewReference(mapping) ==
    JR!NewClass(mapping) \o Front(mapping.member) \o <<"::", mapping.name>>

Rules(mapping) ==
    {<<SimpleCall, NewCall(mapping)>>, <<QualifiedCall, NewCall(mapping)>>,
     <<SimpleField, JR!NewMember(mapping)>>, <<QualifiedField, JR!NewMember(mapping)>>,
     <<StaticCall, NewCall(mapping)>>, <<StaticName, JR!NewMember(mapping)>>,
     <<SimpleReference, NewReference(mapping)>>, <<QualifiedReference, NewReference(mapping)>>}

\* The spellings that stay away once they are gone: without the class in front
\* the ones at a word boundary, with it all of them, unless the new class has
\* the old one's name.
Lasting(mapping, pattern, bounded) ==
    IF pattern \in Spelled THEN mapping.class # "Legacy" ELSE bounded

\* Two sequences joined, given by their elements.
LEMMA Joined ==
    ASSUME NEW S, NEW s \in Seq(S), NEW t \in Seq(S), NEW u \in Seq(S),
           Len(u) = Len(s) + Len(t),
           \A k \in 1 .. Len(s) : u[k] = s[k],
           \A k \in 1 .. Len(t) : u[Len(s) + k] = t[k]
    PROVE  s \o t = u
<1>1. /\ s \o t \in Seq(S) /\ Len(s \o t) = Len(s) + Len(t) /\ Len(s) \in Nat /\ Len(t) \in Nat
      /\ \A k \in 1 .. Len(s) + Len(t) :
            (s \o t)[k] = IF k <= Len(s) THEN s[k] ELSE t[k - Len(s)]
  BY ConcatProperties
<1>2. ASSUME NEW k \in 1 .. Len(s) + Len(t) PROVE (s \o t)[k] = u[k]
  <2>1. CASE k <= Len(s)
    BY <1>1, <2>1
  <2>2. CASE ~ (k <= Len(s))
    <3>1. k - Len(s) \in 1 .. Len(t) /\ Len(s) + (k - Len(s)) = k
      BY <1>1, <2>2
    <3>2. u[Len(s) + (k - Len(s))] = t[k - Len(s)]
      BY <3>1
    <3> QED
      BY <1>1, <2>2, <3>1, <3>2
  <2> QED
    BY <2>1, <2>2
<1> QED
  BY <1>1, <1>2, SeqEqual

\* One token before one: what the tuples of a spelling join to.
LEMMA JoinOneOne ==
    ASSUME NEW a, NEW b
    PROVE  <<a>> \o <<b>> = <<a, b>>
<1> DEFINE S == {a, b}
           s == <<a>>
           t == <<b>>
           u == <<a, b>>
<1>1. a \in S /\ b \in S
  OBVIOUS
<1> HIDE DEF S
<1>2. /\ s \in Seq(S) /\ Len(s) = 1
      /\ \A k \in 1 .. 1 : s[k] = a
  BY <1>1
<1>3. /\ t \in Seq(S) /\ Len(t) = 1
      /\ \A k \in 1 .. 1 : t[k] = b
  BY <1>1
<1>4. /\ u \in Seq(S) /\ Len(u) = 2
      /\ \A k \in 1 .. 2 : u[k] = IF k = 1 THEN a ELSE b
  BY <1>1
<1> HIDE DEF s, t, u
<1>5. \A k \in 1 .. Len(s) : u[k] = s[k]
  BY <1>2, <1>4
<1>6. \A k \in 1 .. Len(t) : u[Len(s) + k] = t[k]
  BY <1>2, <1>3, <1>4
<1>7. /\ s \in Seq(S) /\ t \in Seq(S) /\ u \in Seq(S)
      /\ Len(u) = Len(s) + Len(t)
  BY <1>2, <1>3, <1>4
<1>8. s \o t = u
  BY <1>5, <1>6, <1>7, Joined
<1> QED
  BY <1>8 DEF s, t, u

\* One token before two.
LEMMA JoinOneTwo ==
    ASSUME NEW a, NEW b, NEW c
    PROVE  <<a>> \o <<b, c>> = <<a, b, c>>
<1> DEFINE S == {a, b, c}
           s == <<a>>
           t == <<b, c>>
           u == <<a, b, c>>
<1>1. a \in S /\ b \in S /\ c \in S
  OBVIOUS
<1> HIDE DEF S
<1>2. /\ s \in Seq(S) /\ Len(s) = 1
      /\ \A k \in 1 .. 1 : s[k] = a
  BY <1>1
<1>3. /\ t \in Seq(S) /\ Len(t) = 2
      /\ \A k \in 1 .. 2 : t[k] = IF k = 1 THEN b ELSE c
  BY <1>1
<1>4. /\ u \in Seq(S) /\ Len(u) = 3
      /\ \A k \in 1 .. 3 : u[k] = IF k = 1 THEN a ELSE IF k = 2 THEN b ELSE c
  BY <1>1
<1> HIDE DEF s, t, u
<1>5. \A k \in 1 .. Len(s) : u[k] = s[k]
  BY <1>2, <1>4
<1>6. \A k \in 1 .. Len(t) : u[Len(s) + k] = t[k]
  BY <1>2, <1>3, <1>4
<1>7. /\ s \in Seq(S) /\ t \in Seq(S) /\ u \in Seq(S)
      /\ Len(u) = Len(s) + Len(t)
  BY <1>2, <1>3, <1>4
<1>8. s \o t = u
  BY <1>5, <1>6, <1>7, Joined
<1> QED
  BY <1>8 DEF s, t, u

\* Two tokens before one.
LEMMA JoinTwoOne ==
    ASSUME NEW a, NEW b, NEW c
    PROVE  <<a, b>> \o <<c>> = <<a, b, c>>
<1> DEFINE S == {a, b, c}
           s == <<a, b>>
           t == <<c>>
           u == <<a, b, c>>
<1>1. a \in S /\ b \in S /\ c \in S
  OBVIOUS
<1> HIDE DEF S
<1>2. /\ s \in Seq(S) /\ Len(s) = 2
      /\ \A k \in 1 .. 2 : s[k] = IF k = 1 THEN a ELSE b
  BY <1>1
<1>3. /\ t \in Seq(S) /\ Len(t) = 1
      /\ \A k \in 1 .. 1 : t[k] = c
  BY <1>1
<1>4. /\ u \in Seq(S) /\ Len(u) = 3
      /\ \A k \in 1 .. 3 : u[k] = IF k = 1 THEN a ELSE IF k = 2 THEN b ELSE c
  BY <1>1
<1> HIDE DEF s, t, u
<1>5. \A k \in 1 .. Len(s) : u[k] = s[k]
  BY <1>2, <1>4
<1>6. \A k \in 1 .. Len(t) : u[Len(s) + k] = t[k]
  BY <1>2, <1>3, <1>4
<1>7. /\ s \in Seq(S) /\ t \in Seq(S) /\ u \in Seq(S)
      /\ Len(u) = Len(s) + Len(t)
  BY <1>2, <1>3, <1>4
<1>8. s \o t = u
  BY <1>5, <1>6, <1>7, Joined
<1> QED
  BY <1>8 DEF s, t, u

\* Two tokens before two.
LEMMA JoinTwoTwo ==
    ASSUME NEW a, NEW b, NEW c, NEW d
    PROVE  <<a, b>> \o <<c, d>> = <<a, b, c, d>>
<1> DEFINE S == {a, b, c, d}
           s == <<a, b>>
           t == <<c, d>>
           u == <<a, b, c, d>>
<1>1. a \in S /\ b \in S /\ c \in S /\ d \in S
  OBVIOUS
<1> HIDE DEF S
<1>2. /\ s \in Seq(S) /\ Len(s) = 2
      /\ \A k \in 1 .. 2 : s[k] = IF k = 1 THEN a ELSE b
  BY <1>1
<1>3. /\ t \in Seq(S) /\ Len(t) = 2
      /\ \A k \in 1 .. 2 : t[k] = IF k = 1 THEN c ELSE d
  BY <1>1
<1>4. /\ u \in Seq(S) /\ Len(u) = 4
      /\ \A k \in 1 .. 4 : u[k] = IF k = 1 THEN a ELSE IF k = 2 THEN b ELSE IF k = 3 THEN c ELSE d
  BY <1>1
<1> HIDE DEF s, t, u
<1>5. \A k \in 1 .. Len(s) : u[k] = s[k]
  BY <1>2, <1>4
<1>6. \A k \in 1 .. Len(t) : u[Len(s) + k] = t[k]
  BY <1>2, <1>3, <1>4
<1>7. /\ s \in Seq(S) /\ t \in Seq(S) /\ u \in Seq(S)
      /\ Len(u) = Len(s) + Len(t)
  BY <1>2, <1>3, <1>4
<1>8. s \o t = u
  BY <1>5, <1>6, <1>7, Joined
<1> QED
  BY <1>8 DEF s, t, u

\* A sequence over a set is one over a larger set.
LEMMA Widened ==
    ASSUME NEW A, NEW B, A \subseteq B
    PROVE  Seq(A) \subseteq Seq(B)
OBVIOUS

\* Two lines joined.
LEMMA LinesJoin ==
    ASSUME NEW s \in Line, NEW t \in Line
    PROVE  /\ s \o t \in Line /\ Len(s \o t) = Len(s) + Len(t)
           /\ \A k \in 1 .. Len(s) + Len(t) :
                 (s \o t)[k] = IF k <= Len(s) THEN s[k] ELSE t[k - Len(s)]
BY ConcatProperties DEF Line

\* The spellings, token by token.
LEMMA PatternTokens ==
    /\ SimpleCall = <<"Legacy", ".parse", "(">>
    /\ QualifiedCall = <<"org.old.", "Legacy", ".parse", "(">>
    /\ SimpleField = <<"Legacy", ".parse">>
    /\ QualifiedField = <<"org.old.", "Legacy", ".parse">>
    /\ SimpleReference = <<"Legacy", "::", "parse">>
    /\ QualifiedReference = <<"org.old.", "Legacy", "::", "parse">>
<1>1. <<"Legacy">> \o <<".parse", "(">> = <<"Legacy", ".parse", "(">>
  BY JoinOneTwo
<1>2. <<"Legacy">> \o <<".parse">> = <<"Legacy", ".parse">>
  BY JoinOneOne
<1>3. <<"Legacy">> \o <<"::", "parse">> = <<"Legacy", "::", "parse">>
  BY JoinOneTwo
<1>4. <<"org.old.", "Legacy">> \o <<".parse", "(">> = <<"org.old.", "Legacy", ".parse", "(">>
  BY JoinTwoTwo
<1>5. <<"org.old.", "Legacy">> \o <<".parse">> = <<"org.old.", "Legacy", ".parse">>
  BY JoinTwoOne
<1>6. <<"org.old.", "Legacy">> \o <<"::", "parse">> = <<"org.old.", "Legacy", "::", "parse">>
  BY JoinTwoTwo
<1> QED
  BY <1>1, <1>2, <1>3, <1>4, <1>5, <1>6 DEF SimpleCall, QualifiedCall, SimpleField,
       QualifiedField, SimpleReference, QualifiedReference, JR!OldClass, JR!OldQualified

\* No spelling has the new package, and each begins with a name of the old symbol.
LEMMA PatternShape ==
    /\ \A p \in Patterns :
          /\ p \in Line \ {<<>>} /\ p[Len(p)] \notin JR!Glue
          /\ \A k \in 1 .. Len(p) : p[k] # "org.new."
    /\ \A p \in Spelled : p[1] \in {"Legacy", "org.old."}
    /\ \A p \in {StaticCall, StaticName} : p \notin Spelled /\ p[1] = "parse"
    /\ \A p \in {SimpleReference, QualifiedReference} :
          Len(p) > 1 /\ p[Len(p)] = "parse" /\ p[Len(p) - 1] \notin JR!Glue
<1> DEFINE Good(p) == /\ p \in Line \ {<<>>} /\ p[Len(p)] \notin JR!Glue
                      /\ \A k \in 1 .. Len(p) : p[k] # "org.new."
<1>1. Good(<<"Legacy", ".parse", "(">>) /\ Good(<<"org.old.", "Legacy", ".parse", "(">>)
  BY DEF Line, Token, Spelling, JR!Glue
<1>2. Good(<<"Legacy", ".parse">>) /\ Good(<<"org.old.", "Legacy", ".parse">>)
  BY DEF Line, Token, Spelling, JR!Glue
<1>3. Good(<<"Legacy", "::", "parse">>) /\ Good(<<"org.old.", "Legacy", "::", "parse">>)
  BY DEF Line, Token, Spelling, JR!Glue
<1>4. Good(<<"parse", "(">>) /\ Good(<<"parse">>)
  BY DEF Line, Token, Spelling, JR!Glue
<1>5. \A p \in Patterns : Good(p)
  <2> HIDE DEF Good
  <2> QED
    BY <1>1, <1>2, <1>3, <1>4, PatternTokens DEF Patterns, Spelled, StaticCall, StaticName
<1>6. \A p \in Spelled : p[1] \in {"Legacy", "org.old."}
  BY PatternTokens DEF Spelled
<1>7. \A p \in {StaticCall, StaticName} : p[1] = "parse"
  BY DEF StaticCall, StaticName
<1>8. \A p \in {SimpleReference, QualifiedReference} :
          Len(p) > 1 /\ p[Len(p)] = "parse" /\ p[Len(p) - 1] \notin JR!Glue
  <2> DEFINE Ends(p) == Len(p) > 1 /\ p[Len(p)] = "parse" /\ p[Len(p) - 1] \notin JR!Glue
  <2>1. Ends(<<"Legacy", "::", "parse">>)
    BY DEF JR!Glue
  <2>2. Ends(<<"org.old.", "Legacy", "::", "parse">>)
    BY DEF JR!Glue
  <2> HIDE DEF Ends
  <2>3. \A p \in {SimpleReference, QualifiedReference} : Ends(p)
    BY <2>1, <2>2, PatternTokens
  <2> QED
    BY <2>3 DEF Ends
<1> QED
  BY <1>5, <1>6, <1>7, <1>8

\* A replacement begins with the new class; only a reference may end in "parse".
LEMMA ReplacementShape ==
    ASSUME NEW mapping \in SymbolMapping
    PROVE  /\ \A r \in {NewCall(mapping), JR!NewMember(mapping), NewReference(mapping)} :
                 /\ r \in Line /\ Len(r) >= 3 /\ r[1] = "org.new."
                 /\ \A k \in 3 .. Len(r) : r[k] \notin {"org.old.", "Legacy"}
                 /\ r[2] = mapping.class
           /\ \A r \in {NewCall(mapping), JR!NewMember(mapping)} :
                 \A k \in 3 .. Len(r) : r[k] # "parse"
           /\ \A k \in 3 .. Len(NewReference(mapping)) - 1 : NewReference(mapping)[k] # "parse"
           /\ LET r == NewCall(mapping) IN r[Len(r)] = "("
<1> DEFINE member == mapping.member
           class == JR!NewClass(mapping)
           whole == JR!NewMember(mapping)
           call == NewCall(mapping)
           front == Front(member)
           half == class \o front
           end == <<"::", mapping.name>>
           reference == NewReference(mapping)
           T == Token \ {"org.old.", "Legacy", "parse"}
<1>1. /\ member \in Seq(T) /\ member # <<>> /\ member \in Line
      /\ mapping.class \in STRING /\ mapping.name \in STRING \ {"org.old.", "Legacy"}
      /\ \A k \in 1 .. Len(member) : member[k] \in T
      /\ Len(member) \in Nat /\ Len(member) >= 1
  <2> DEFINE A == STRING \ {"org.old.", "Legacy", "parse"}
  <2>1. A \subseteq T /\ T \subseteq Token
    BY DEF Token
  <2>2. /\ member \in Seq(A) /\ member # <<>>
        /\ mapping.class \in STRING /\ mapping.name \in STRING \ {"org.old.", "Legacy"}
    <3>1. JR!OldNames = {"org.old.", "Legacy"}
          /\ JR!OldNames \cup {"parse"} = {"org.old.", "Legacy", "parse"}
      BY DEF JR!OldNames
    <3> QED
      BY <3>1 DEF SymbolMapping
  <2> HIDE DEF A, T, member
  <2>3. member \in Seq(T) /\ member \in Seq(Token)
    BY <2>1, <2>2, Widened
  <2>4. Len(member) \in Nat /\ Len(member) >= 1 /\ \A k \in 1 .. Len(member) : member[k] \in T
    BY <2>2, <2>3
  <2> QED
    BY <2>2, <2>3, <2>4 DEF Line
<1>2. /\ class \in Line /\ Len(class) = 2 /\ class[1] = "org.new." /\ class[2] = mapping.class
  <2>1. mapping.class \in Token /\ "org.new." \in Token
    BY <1>1 DEF Token, Spelling
  <2> QED
    BY <2>1 DEF JR!NewClass, Line
<1>3. /\ front \in Line /\ Len(front) = Len(member) - 1
      /\ \A k \in 1 .. Len(front) : front[k] \in T
  <2>1. front = SubSeq(member, 1, Len(member) - 1)
    BY DEF Front
  <2>2. /\ Len(front) = Len(member) - 1 /\ front \in Seq(T)
        /\ \A k \in 1 .. Len(front) : front[k] = member[1 + k - 1]
    BY <1>1, <2>1, SubSeqProperties
  <2> HIDE DEF front, T
  <2>3. \A k \in 1 .. Len(front) : front[k] \in T
    BY <2>2
  <2>4. Seq(T) \subseteq Line
    BY Widened DEF T, Line
  <2> QED
    BY <2>2, <2>3, <2>4
<1>4. /\ whole \in Line /\ Len(whole) = 2 + Len(member)
      /\ \A k \in 1 .. 2 + Len(member) : whole[k] = IF k <= 2 THEN class[k] ELSE member[k - 2]
  <2>1. whole = class \o member
    BY DEF JR!NewMember
  <2> HIDE DEF whole, class
  <2> QED
    <3>1. /\ class \o member \in Line /\ Len(class \o member) = Len(class) + Len(member)
          /\ \A k \in 1 .. Len(class) + Len(member) :
                (class \o member)[k] = IF k <= Len(class) THEN class[k] ELSE member[k - Len(class)]
      BY <1>1, <1>2, LinesJoin
    <3> HIDE DEF member
    <3> QED
      BY <1>1, <1>2, <2>1, <3>1
<1>5. /\ call \in Line /\ Len(call) = 3 + Len(member)
      /\ \A k \in 1 .. 3 + Len(member) :
            call[k] = IF k <= 2 + Len(member) THEN whole[k] ELSE "("
  <2>1. call = whole \o <<"(">>
    BY DEF NewCall
  <2>2. <<"(">> \in Line /\ Len(<<"(">>) = 1 /\ <<"(">>[1] = "("
    BY DEF Line, Token, Spelling
  <2> HIDE DEF whole, call
  <2>3. /\ whole \o <<"(">> \in Line /\ Len(whole \o <<"(">>) = Len(whole) + 1
        /\ \A k \in 1 .. Len(whole) + 1 :
              (whole \o <<"(">>)[k] = IF k <= Len(whole) THEN whole[k] ELSE <<"(">>[k - Len(whole)]
    BY <1>4, <2>2, LinesJoin
  <2>4. \A k \in 1 .. 3 + Len(member) : k <= 2 + Len(member) \/ k - (2 + Len(member)) = 1
    BY <1>1
  <2> QED
    BY <1>1, <1>4, <2>1, <2>2, <2>3, <2>4
<1>6. /\ half \in Line /\ Len(half) = 1 + Len(member)
      /\ \A k \in 1 .. 1 + Len(member) : half[k] = IF k <= 2 THEN class[k] ELSE front[k - 2]
  <2> HIDE DEF class, front
  <2>1. /\ half \in Line /\ Len(half) = Len(class) + Len(front)
        /\ \A k \in 1 .. Len(class) + Len(front) :
              half[k] = IF k <= Len(class) THEN class[k] ELSE front[k - Len(class)]
    BY <1>2, <1>3, LinesJoin
  <2> QED
    BY <1>1, <1>2, <1>3, <2>1
<1>7. /\ reference \in Line /\ Len(reference) = 3 + Len(member)
      /\ \A k \in 1 .. 3 + Len(member) :
            reference[k] = IF k <= 1 + Len(member) THEN half[k] ELSE end[k - (1 + Len(member))]
  <2>1. reference = half \o end
    BY DEF NewReference
  <2>2. end \in Line /\ Len(end) = 2
    <3>1. mapping.name \in Token /\ "::" \in Token
      BY <1>1 DEF Token, Spelling
    <3> QED
      BY <3>1 DEF Line
  <2> HIDE DEF half, end, reference
  <2>3. /\ half \o end \in Line /\ Len(half \o end) = Len(half) + Len(end)
        /\ \A k \in 1 .. Len(half) + Len(end) :
              (half \o end)[k] = IF k <= Len(half) THEN half[k] ELSE end[k - Len(half)]
    BY <1>6, <2>2, LinesJoin
  <2>4. Len(half) + Len(end) = 3 + Len(member) /\ Len(half) = 1 + Len(member)
    BY <1>1, <1>6, <2>2
  <2> HIDE DEF member
  <2> QED
    BY <2>1, <2>3, <2>4
<1>8. end[1] = "::" /\ end[2] = mapping.name
  OBVIOUS
<1> HIDE DEF class, whole, call, half, end, reference, front, member
<1>9. whole[1] = "org.new." /\ whole[2] = mapping.class /\ \A k \in 3 .. Len(whole) : whole[k] \in T
  <2>1. whole[1] = class[1] /\ whole[2] = class[2]
    BY <1>1, <1>4
  <2>2. ASSUME NEW k \in 3 .. Len(whole) PROVE whole[k] \in T
    <3>1. k - 2 \in 1 .. Len(member) /\ k \in 1 .. 2 + Len(member) /\ ~ (k <= 2)
      BY <1>1, <1>4
    <3>2. whole[k] = member[k - 2]
      BY <1>4, <3>1
    <3> HIDE DEF T
    <3> QED
      BY <1>1, <3>1, <3>2
  <2> QED
    BY <1>2, <2>1, <2>2
<1>10. call[1] = "org.new." /\ call[2] = mapping.class
       /\ (\A k \in 3 .. Len(call) : call[k] \in T) /\ call[Len(call)] = "("
  <2>1. call[1] = whole[1] /\ call[2] = whole[2] /\ call[Len(call)] = "("
    BY <1>1, <1>5
  <2>2. "(" \in T
    BY DEF Token, Spelling
  <2>3. ASSUME NEW k \in 3 .. Len(call) PROVE call[k] \in T
    <3>1. k \in 1 .. 3 + Len(member) /\ (k <= 2 + Len(member) => k \in 3 .. Len(whole))
      BY <1>1, <1>4, <1>5
    <3> HIDE DEF T
    <3> QED
      BY <1>5, <1>9, <2>2, <3>1
  <2> QED
    BY <1>9, <2>1, <2>3
<1>11. half[1] = "org.new." /\ half[2] = mapping.class /\ \A k \in 3 .. Len(half) : half[k] \in T
  <2>1. half[1] = class[1] /\ half[2] = class[2]
    BY <1>1, <1>6
  <2>2. ASSUME NEW k \in 3 .. Len(half) PROVE half[k] \in T
    <3>1. k - 2 \in 1 .. Len(front) /\ k \in 1 .. 1 + Len(member) /\ ~ (k <= 2)
      BY <1>1, <1>3, <1>6
    <3>2. half[k] = front[k - 2]
      BY <1>6, <3>1
    <3> HIDE DEF T
    <3> QED
      BY <1>3, <3>1, <3>2
  <2> QED
    BY <1>2, <2>1, <2>2
<1>12. /\ reference[1] = "org.new." /\ reference[2] = mapping.class
       /\ \A k \in 3 .. Len(reference) - 1 : reference[k] \in T
       /\ reference[Len(reference)] = mapping.name
  <2>1. reference[1] = half[1] /\ reference[2] = half[2]
    BY <1>1, <1>7
  <2>2. ASSUME NEW k \in 3 .. Len(reference) - 1 PROVE reference[k] \in T
    <3>1. CASE k <= 1 + Len(member)
      <4>1. reference[k] = half[k] /\ k \in 3 .. Len(half)
        BY <1>1, <1>6, <1>7, <3>1
      <4> HIDE DEF T
      <4> QED
        BY <1>11, <4>1
    <3>2. CASE ~ (k <= 1 + Len(member))
      <4>1. reference[k] = end[1]
        <5>1. k - (1 + Len(member)) = 1 /\ k \in 1 .. 3 + Len(member)
          BY <1>1, <1>7, <3>2
        <5> QED
          BY <1>7, <3>2, <5>1
      <4>2. "::" \in T
        BY DEF Token, Spelling
      <4> QED
        BY <1>8, <4>1, <4>2
    <3> QED
      BY <3>1, <3>2
  <2>3. reference[Len(reference)] = end[2]
    <3>1. Len(reference) \in 1 .. 3 + Len(member) /\ Len(reference) - (1 + Len(member)) = 2
          /\ ~ (Len(reference) <= 1 + Len(member))
      BY <1>1, <1>7
    <3> QED
      BY <1>7, <3>1
  <2> QED
    BY <1>8, <1>11, <2>1, <2>2, <2>3
<1>13. \A k \in 3 .. Len(reference) : reference[k] \notin {"org.old.", "Legacy"}
  <2>1. \A k \in 3 .. Len(reference) : k \in 3 .. Len(reference) - 1 \/ k = Len(reference)
    BY <1>1, <1>7
  <2> QED
    BY <1>1, <1>12, <2>1
<1>14. Len(whole) >= 3 /\ Len(call) >= 3 /\ Len(reference) >= 3
  BY <1>1, <1>4, <1>5, <1>7
<1> QED
  BY <1>4, <1>5, <1>7, <1>9, <1>10, <1>12, <1>13, <1>14 DEF call, whole, reference

\* A rule puts nothing in a line that another rule replaces.
LEMMA RulesAreHarmless ==
    ASSUME NEW mapping \in SymbolMapping, NEW pattern, NEW replacement,
           <<pattern, replacement>> \in Rules(mapping)
    PROVE  /\ Fits(pattern, replacement) /\ pattern \in Patterns
           /\ replacement[Len(replacement)] # pattern[1]
           /\ \A other \in Patterns, bare \in BOOLEAN :
                 Lasting(mapping, other, bare) => Harmless(pattern, replacement, other, bare)
<1> DEFINE r == replacement
<1>1. \/ /\ pattern \in {SimpleReference, QualifiedReference} /\ r = NewReference(mapping)
         /\ pattern \in Spelled
      \/ /\ pattern \in Patterns /\ r \in {NewCall(mapping), JR!NewMember(mapping)}
         /\ pattern \in Spelled \/ pattern \in {StaticCall, StaticName}
  BY DEF Rules, Spelled, Patterns
<1>2. pattern \in Patterns /\ r \in {NewCall(mapping), JR!NewMember(mapping), NewReference(mapping)}
  BY <1>1 DEF Patterns
<1>3. /\ r \in Line /\ Len(r) \in Nat /\ Len(r) >= 3 /\ r[1] = "org.new." /\ r[2] = mapping.class
      /\ \A k \in 3 .. Len(r) : r[k] \notin {"org.old.", "Legacy"}
  <2> HIDE DEF r
  <2>1. /\ r \in Line /\ Len(r) >= 3 /\ r[1] = "org.new." /\ r[2] = mapping.class
        /\ \A k \in 3 .. Len(r) : r[k] \notin {"org.old.", "Legacy"}
    BY <1>2, ReplacementShape
  <2> QED
    BY <2>1 DEF Line
<1>4. ASSUME NEW k \in 3 .. Len(r), r[k] = "parse"
      PROVE  k = Len(r) /\ pattern \in {SimpleReference, QualifiedReference}
  <2>1. r = NewReference(mapping) /\ pattern \in {SimpleReference, QualifiedReference}
    BY <1>1, <1>4, ReplacementShape
  <2>2. k \notin 3 .. Len(r) - 1
    BY <1>4, <2>1, ReplacementShape
  <2> HIDE DEF r
  <2> QED
    BY <1>3, <2>1, <2>2
<1>5. pattern \in Line \ {<<>>} /\ pattern[Len(pattern)] \notin JR!Glue
  BY <1>2, PatternShape
<1>6. r[Len(r)] # pattern[1]
  <2>1. Len(r) \in 3 .. Len(r)
    BY <1>3
  <2>2. CASE pattern \in Spelled
    BY <1>3, <2>1, <2>2, PatternShape
  <2>3. CASE pattern \in {StaticCall, StaticName}
    <3>1. pattern[1] = "parse" /\ pattern \notin Spelled
      BY <2>3, PatternShape
    <3>2. r[Len(r)] # "parse"
      BY <1>1, <2>1, <3>1, ReplacementShape
    <3> QED
      BY <3>1, <3>2
  <2> QED
    BY <1>1, <2>2, <2>3
<1>7. ASSUME NEW other \in Patterns, NEW bare \in BOOLEAN, Lasting(mapping, other, bare)
      PROVE  Harmless(pattern, r, other, bare)
  <2>1. \A k \in 1 .. Len(other) : other[k] # r[1]
    BY <1>3, PatternShape
  <2>2. ASSUME NEW k \in 2 .. Len(r), r[k] = other[1]
        PROVE  \/ bare /\ r[k - 1] \in JR!Glue
               \/ /\ k = Len(r) /\ Len(pattern) > 1
                  /\ pattern[Len(pattern)] = other[1] /\ pattern[Len(pattern) - 1] \notin JR!Glue
    <3>1. k = 2 \/ k \in 3 .. Len(r)
      BY <1>3
    <3>2. mapping.class # "org.old."
      BY DEF SymbolMapping
    <3>3. CASE other \in Spelled
      <4>1. other[1] \in {"Legacy", "org.old."} /\ mapping.class # "Legacy"
        BY <1>7, <3>3, PatternShape DEF Lasting
      <4> QED
        BY <1>3, <2>2, <3>1, <3>2, <4>1
    <3>4. CASE other \in {StaticCall, StaticName}
      <4>1. other[1] = "parse" /\ bare
        BY <1>7, <3>4, PatternShape DEF Lasting
      <4>2. CASE k = 2
        <5>1. r[k - 1] = "org.new."
          BY <1>3, <4>2
        <5> QED
          BY <4>1, <5>1 DEF JR!Glue
      <4>3. CASE k \in 3 .. Len(r)
        BY <1>4, <2>2, <4>1, <4>3, PatternShape
      <4> QED
        BY <3>1, <4>2, <4>3
    <3> QED
      BY <3>3, <3>4 DEF Patterns
  <2> QED
    BY <2>1, <2>2 DEF Harmless
<1>8. Fits(pattern, r)
  BY <1>3, <1>5 DEF Fits
<1> QED
  BY <1>2, <1>6, <1>7, <1>8

\* What a step of the rewriting keeps: no spelling that is gone comes back.
Keeps(file, new, mapping) ==
    /\ new \in Sources
    /\ \A scope \in SUBSET JR!Kinds, other \in Patterns, bare \in BOOLEAN :
          Lasting(mapping, other, bare) /\ Free(file, scope, other, bare)
             => Free(new, scope, other, bare)

\* What one rule does to a source.
LEMMA RuleApplied ==
    ASSUME NEW file \in Sources, NEW mapping \in SymbolMapping, NEW pattern, NEW replacement,
           <<pattern, replacement>> \in Rules(mapping),
           NEW kinds \in SUBSET JR!Kinds, NEW bounded \in BOOLEAN,
           NEW new, new = Edited(file, kinds, pattern, replacement, bounded)
    PROVE  /\ Keeps(file, new, mapping) /\ new.imports = file.imports
           /\ Lasting(mapping, pattern, bounded) => Free(new, kinds, pattern, bounded)
           /\ Free(file, kinds, pattern, bounded) => new = file
<1>1. /\ Fits(pattern, replacement) /\ pattern \in Patterns
      /\ replacement[Len(replacement)] # pattern[1]
      /\ \A other \in Patterns, bare \in BOOLEAN :
            Lasting(mapping, other, bare) => Harmless(pattern, replacement, other, bare)
  BY RulesAreHarmless
<1>2. new \in Sources
  BY <1>1, EditedIsSource
<1>3. ASSUME NEW scope \in SUBSET JR!Kinds, NEW other \in Patterns, NEW bare \in BOOLEAN,
             Lasting(mapping, other, bare), Free(file, scope, other, bare)
      PROVE  Free(new, scope, other, bare)
  <2>1. other \in Line \ {<<>>}
    BY PatternShape
  <2> QED
    BY <1>1, <1>3, <2>1, EditKeepsFree
<1>4. Lasting(mapping, pattern, bounded) => Free(new, kinds, pattern, bounded)
  BY <1>1, EditFrees
<1>5. Free(file, kinds, pattern, bounded) => new = file
  BY <1>1, EditSettles
<1>6. new.imports = file.imports
  BY DEF Edited
<1> QED
  BY <1>2, <1>3, <1>4, <1>5, <1>6 DEF Keeps

\* What OnLines makes of one rule, and of the two for a name and for the name
\* with its package.
Once(file, kinds, pattern, replacement, bounded) ==
    [file EXCEPT !.lines = [i \in DOMAIN @ |->
        IF @[i].kind \in kinds
        THEN [kind |-> @[i].kind,
              tokens |-> JR!Replaced(@[i].tokens, pattern, replacement, bounded)]
        ELSE @[i]]]

Twice(file, kinds, simple, qualified, replacement, bounded) ==
    [file EXCEPT !.lines = [i \in DOMAIN @ |->
        IF @[i].kind \in kinds
        THEN [kind |-> @[i].kind,
              tokens |-> JR!Replaced(JR!Replaced(@[i].tokens, simple, replacement, bounded),
                                     qualified, replacement, bounded)]
        ELSE @[i]]]

\* What the rules for a name and for the name with its package do.
LEMMA TwoRules ==
    ASSUME NEW file \in Sources, NEW mapping \in SymbolMapping,
           NEW simple, NEW qualified, NEW replacement,
           {<<simple, replacement>>, <<qualified, replacement>>} \subseteq Rules(mapping),
           NEW kinds \in SUBSET JR!Kinds, NEW bounded \in BOOLEAN, NEW new,
           new = Twice(file, kinds, simple, qualified, replacement, bounded)
    PROVE  /\ Keeps(file, new, mapping) /\ new.imports = file.imports
           /\ \A pattern \in {simple, qualified} :
                 Lasting(mapping, pattern, bounded) => Free(new, kinds, pattern, bounded)
           /\ (\A pattern \in {simple, qualified} : Free(file, kinds, pattern, bounded))
                 => new = file
<1> DEFINE half == Edited(file, kinds, simple, replacement, bounded)
           whole == Edited(half, kinds, qualified, replacement, bounded)
<1>1. new = whole
  <2>1. \A i \in DOMAIN file.lines :
           file.lines[i] = [kind |-> file.lines[i].kind, tokens |-> file.lines[i].tokens]
    <3>1. \A i \in DOMAIN file.lines : file.lines[i] \in [kind : JR!Kinds, tokens : Line]
      BY SourceLines
    <3> QED
      BY <3>1
  <2>2. file = [imports |-> file.imports, lines |-> file.lines]
    BY SourceLines
  <2>3. new = [imports |-> file.imports, lines |-> new.lines]
    BY <2>2 DEF Twice
  <2>4. whole = [imports |-> file.imports, lines |-> whole.lines]
    BY DEF Edited
  <2>5. /\ DOMAIN new.lines = DOMAIN file.lines /\ DOMAIN whole.lines = DOMAIN file.lines
        /\ new.lines = [i \in DOMAIN file.lines |-> new.lines[i]]
        /\ whole.lines = [i \in DOMAIN file.lines |-> whole.lines[i]]
    BY <2>2 DEF Edited, Twice
  <2>6. ASSUME NEW i \in DOMAIN file.lines PROVE new.lines[i] = whole.lines[i]
    <3> DEFINE line == file.lines[i]
               once == JR!Replaced(line.tokens, simple, replacement, bounded)
               twice == JR!Replaced(once, qualified, replacement, bounded)
    <3>1. new.lines[i] = IF line.kind \in kinds THEN [kind |-> line.kind, tokens |-> twice]
                       ELSE line
      BY <2>2 DEF Twice
    <3>2. half.lines[i] = [kind |-> line.kind,
                           tokens |-> IF line.kind \in kinds THEN once ELSE line.tokens]
      BY DEF Edited
    <3>3. whole.lines[i] =
            [kind |-> half.lines[i].kind,
             tokens |-> IF half.lines[i].kind \in kinds
                        THEN JR!Replaced(half.lines[i].tokens, qualified, replacement, bounded)
                        ELSE half.lines[i].tokens]
      BY DEF Edited
    <3>4. line = [kind |-> line.kind, tokens |-> line.tokens]
      BY <2>1
    <3>5. whole.lines[i] = [kind |-> line.kind,
                            tokens |-> IF line.kind \in kinds THEN twice ELSE line.tokens]
      <4> HIDE DEF half, line, once
      <4>1. half.lines[i].kind = line.kind
            /\ half.lines[i].tokens = IF line.kind \in kinds THEN once ELSE line.tokens
        BY <3>2
      <4> QED
        BY <3>3, <4>1
    <3> HIDE DEF line, once, half, whole
    <3> HIDE DEF twice
    <3> QED
      BY <3>1, <3>4, <3>5
  <2> HIDE DEF whole
  <2>7. new.lines = whole.lines
    BY <2>5, <2>6
  <2> QED
    BY <2>3, <2>4, <2>7
<1>2. /\ Keeps(file, half, mapping) /\ half.imports = file.imports
      /\ Lasting(mapping, simple, bounded) => Free(half, kinds, simple, bounded)
      /\ Free(file, kinds, simple, bounded) => half = file
  BY RuleApplied
<1>3. half \in Sources
  BY <1>2 DEF Keeps
<1> HIDE DEF half
<1>4. /\ Keeps(half, whole, mapping) /\ whole.imports = half.imports
      /\ Lasting(mapping, qualified, bounded) => Free(whole, kinds, qualified, bounded)
      /\ Free(half, kinds, qualified, bounded) => whole = half
  BY <1>3, RuleApplied
<1> HIDE DEF whole
<1>5. simple \in Patterns
  BY RulesAreHarmless
<1> QED
  BY <1>1, <1>2, <1>4, <1>5 DEF Keeps

\* An edit is what OnLines makes of a rule.
LEMMA OneRule ==
    ASSUME NEW file \in Sources, NEW pattern, NEW replacement, NEW kinds,
           NEW bounded \in BOOLEAN, NEW new,
           new = Once(file, kinds, pattern, replacement, bounded)
    PROVE  new = Edited(file, kinds, pattern, replacement, bounded)
<1> DEFINE edited == Edited(file, kinds, pattern, replacement, bounded)
<1>1. \A i \in DOMAIN file.lines :
         file.lines[i] = [kind |-> file.lines[i].kind, tokens |-> file.lines[i].tokens]
  <2>1. \A i \in DOMAIN file.lines : file.lines[i] \in [kind : JR!Kinds, tokens : Line]
    BY SourceLines
  <2> QED
    BY <2>1
<1>2. file = [imports |-> file.imports, lines |-> file.lines]
  BY SourceLines
<1>3. new = [imports |-> file.imports, lines |-> new.lines]
  BY <1>2 DEF Once
<1>4. edited = [imports |-> file.imports, lines |-> edited.lines]
  BY DEF Edited
<1>5. /\ DOMAIN new.lines = DOMAIN file.lines /\ DOMAIN edited.lines = DOMAIN file.lines
      /\ new.lines = [i \in DOMAIN file.lines |-> new.lines[i]]
      /\ edited.lines = [i \in DOMAIN file.lines |-> edited.lines[i]]
  BY <1>2 DEF Edited, Once
<1>6. ASSUME NEW i \in DOMAIN file.lines PROVE new.lines[i] = edited.lines[i]
  <2> DEFINE line == file.lines[i]
             once == JR!Replaced(line.tokens, pattern, replacement, bounded)
  <2>1. new.lines[i] = IF line.kind \in kinds THEN [kind |-> line.kind, tokens |-> once] ELSE line
    BY <1>2 DEF Once
  <2>2. edited.lines[i] = [kind |-> line.kind,
                           tokens |-> IF line.kind \in kinds THEN once ELSE line.tokens]
    BY DEF Edited
  <2>3. line = [kind |-> line.kind, tokens |-> line.tokens]
    BY <1>1
  <2> HIDE DEF line, once, edited
  <2> QED
    BY <2>1, <2>2, <2>3
<1> HIDE DEF edited
<1>7. new.lines = edited.lines
  BY <1>5, <1>6
<1> QED
  BY <1>3, <1>4, <1>7 DEF edited

\* What each stage of a member's rewriting leaves in no line.
CallsGone(file)       == \A pattern \in {SimpleCall, QualifiedCall} :
                            Free(file, JR!Kinds, pattern, FALSE)
FieldsGone(file)      == \A pattern \in {SimpleField, QualifiedField} :
                            Free(file, {"code", "method", "field"}, pattern, TRUE)
ReferencesGone(file)  == \A pattern \in {SimpleReference, QualifiedReference} :
                            Free(file, JR!Kinds, pattern, FALSE)
StaticCallsGone(file) == Free(file, {"code", "comment", "field"}, StaticCall, TRUE)
StaticNamesGone(file) == Free(file, {"code", "method"}, StaticName, TRUE)

\* RewriteCalls keeps spellings away and leaves no call.
LEMMA CallsStage ==
    ASSUME NEW file \in Sources, NEW mapping \in SymbolMapping,
           NEW new, new = JR!RewriteCalls(file, mapping)
    PROVE  /\ Keeps(file, new, mapping) /\ new.imports = file.imports
           /\ mapping.class # "Legacy" => CallsGone(new)
           /\ CallsGone(file) => new = file
<1> DEFINE bounded == FALSE
<1>1. new = Twice(file, JR!Kinds, SimpleCall, QualifiedCall, NewCall(mapping), bounded)
  BY DEF JR!RewriteCalls, JR!OnLines, Twice, SimpleCall, QualifiedCall, NewCall
<1>2. {<<SimpleCall, NewCall(mapping)>>, <<QualifiedCall, NewCall(mapping)>>}
         \subseteq Rules(mapping)
  BY DEF Rules
<1>3. \A pattern \in {SimpleCall, QualifiedCall} :
         mapping.class # "Legacy" => Lasting(mapping, pattern, bounded)
  BY DEF Lasting, Spelled
<1>4. bounded \in BOOLEAN
  OBVIOUS
<1> HIDE DEF bounded
<1>5. /\ Keeps(file, new, mapping) /\ new.imports = file.imports
      /\ \A pattern \in {SimpleCall, QualifiedCall} :
            Lasting(mapping, pattern, bounded) => Free(new, JR!Kinds, pattern, bounded)
      /\ (\A pattern \in {SimpleCall, QualifiedCall} : Free(file, JR!Kinds, pattern, bounded))
            => new = file
  BY <1>1, <1>2, <1>4, TwoRules
<1>6. mapping.class # "Legacy" => CallsGone(new)
  BY <1>3, <1>5 DEF CallsGone, bounded
<1>7. CallsGone(file) => new = file
  BY <1>5 DEF CallsGone, bounded
<1> QED
  BY <1>5, <1>6, <1>7

\* RewriteFields leaves no field, unless the replacement is a call chain.
LEMMA FieldsStage ==
    ASSUME NEW file \in Sources, NEW mapping \in SymbolMapping,
           NEW new, new = JR!RewriteFields(file, mapping)
    PROVE  /\ Keeps(file, new, mapping) /\ new.imports = file.imports
           /\ mapping.class # "Legacy" /\ ~ JR!IsChain(mapping) => FieldsGone(new)
           /\ JR!IsChain(mapping) \/ FieldsGone(file) => new = file
<1>1. CASE JR!IsChain(mapping)
  <2>1. new = file
    BY <1>1 DEF JR!RewriteFields
  <2> QED
    BY <1>1, <2>1 DEF Keeps
<1>2. CASE ~ JR!IsChain(mapping)
  <2> DEFINE kinds == {"code", "method", "field"}
             bounded == TRUE
             member == JR!NewMember(mapping)
  <2>1. new = Twice(file, kinds, SimpleField, QualifiedField, member, bounded)
    BY <1>2 DEF JR!RewriteFields, JR!OnLines, Twice, SimpleField, QualifiedField
  <2>2. {<<SimpleField, member>>, <<QualifiedField, member>>} \subseteq Rules(mapping)
    BY DEF Rules
  <2>3. \A pattern \in {SimpleField, QualifiedField} :
           mapping.class # "Legacy" => Lasting(mapping, pattern, bounded)
    BY DEF Lasting, Spelled
  <2>4. kinds \in SUBSET JR!Kinds /\ bounded \in BOOLEAN
    BY DEF JR!Kinds
  <2> HIDE DEF bounded, kinds, member
  <2>5. /\ Keeps(file, new, mapping) /\ new.imports = file.imports
        /\ \A pattern \in {SimpleField, QualifiedField} :
              Lasting(mapping, pattern, bounded) => Free(new, kinds, pattern, bounded)
        /\ (\A pattern \in {SimpleField, QualifiedField} : Free(file, kinds, pattern, bounded))
              => new = file
    BY <2>1, <2>2, <2>4, TwoRules
  <2>6. mapping.class # "Legacy" => FieldsGone(new)
    BY <2>3, <2>5 DEF FieldsGone, bounded, kinds
  <2>7. FieldsGone(file) => new = file
    BY <2>5 DEF FieldsGone, bounded, kinds
  <2> QED
    BY <1>2, <2>5, <2>6, <2>7
<1> QED
  BY <1>1, <1>2

\* RewriteMethodReferences leaves no reference.
LEMMA ReferencesStage ==
    ASSUME NEW file \in Sources, NEW mapping \in SymbolMapping,
           NEW new, new = JR!RewriteMethodReferences(file, mapping)
    PROVE  /\ Keeps(file, new, mapping) /\ new.imports = file.imports
           /\ mapping.class # "Legacy" => ReferencesGone(new)
           /\ ReferencesGone(file) => new = file
<1> DEFINE reference == NewReference(mapping)
           bounded == FALSE
<1>1. new = Twice(file, JR!Kinds, SimpleReference, QualifiedReference, reference, bounded)
  BY DEF JR!RewriteMethodReferences, JR!OnLines, Twice, SimpleReference, QualifiedReference,
         NewReference, JR!Front, Front
<1>2. {<<SimpleReference, reference>>, <<QualifiedReference, reference>>} \subseteq Rules(mapping)
  BY DEF Rules
<1>3. \A pattern \in {SimpleReference, QualifiedReference} :
         mapping.class # "Legacy" => Lasting(mapping, pattern, bounded)
  BY DEF Lasting, Spelled
<1>4. bounded \in BOOLEAN
  OBVIOUS
<1> HIDE DEF reference, bounded
<1>5. /\ Keeps(file, new, mapping) /\ new.imports = file.imports
      /\ \A pattern \in {SimpleReference, QualifiedReference} :
            Lasting(mapping, pattern, bounded) => Free(new, JR!Kinds, pattern, bounded)
      /\ (\A pattern \in {SimpleReference, QualifiedReference} :
             Free(file, JR!Kinds, pattern, bounded)) => new = file
  BY <1>1, <1>2, <1>4, TwoRules
<1>6. mapping.class # "Legacy" => ReferencesGone(new)
  BY <1>3, <1>5 DEF ReferencesGone, bounded
<1>7. ReferencesGone(file) => new = file
  BY <1>5 DEF ReferencesGone, bounded
<1> QED
  BY <1>5, <1>6, <1>7

Static == {"static", "wildcard"}

\* Taking the static import changes no line.
LEMMA StaticImportGoes ==
    ASSUME NEW file \in Sources, NEW mapping \in SymbolMapping, NEW edited,
           Keeps(file, edited, mapping), edited.imports = file.imports,
           NEW new, new = JR!WithoutStaticImport(file, edited)
    PROVE  /\ Keeps(file, new, mapping) /\ new.lines = edited.lines
           /\ new.imports \in {file.imports, file.imports \ {"static"}}
           /\ edited = file => new = file
<1>1. edited \in Sources
  BY DEF Keeps
<1>2. edited = [imports |-> edited.imports, lines |-> edited.lines]
      /\ edited.imports \in SUBSET JR!Imports
      /\ edited.lines \in Seq([kind : JR!Kinds, tokens : Line])
  BY <1>1, SourceLines DEF Sources
<1>3. \/ edited = file /\ new = file
      \/ new = [imports |-> edited.imports \ {"static"}, lines |-> edited.lines] /\ edited # file
  BY <1>2 DEF JR!WithoutStaticImport
<1>4. new \in Sources /\ new.lines = edited.lines
  BY <1>2, <1>3 DEF Sources
<1>5. new.imports \in {file.imports, file.imports \ {"static"}}
  BY <1>3
<1>6. Keeps(file, new, mapping)
  BY <1>4 DEF Keeps, Free
<1> QED
  BY <1>3, <1>4, <1>5, <1>6

\* RewriteStaticImportCalls leaves no bare call if a static import needs it.
LEMMA StaticCallsStage ==
    ASSUME NEW file \in Sources, NEW mapping \in SymbolMapping,
           NEW new, new = JR!RewriteStaticImportCalls(file, mapping)
    PROVE  /\ Keeps(file, new, mapping)
           /\ new.imports \in {file.imports, file.imports \ {"static"}}
           /\ file.imports \cap Static # {} => StaticCallsGone(new)
           /\ file.imports \cap Static = {} \/ StaticCallsGone(file)
                 => new = file
<1>1. CASE file.imports \cap Static = {}
  <2>1. new = file
    BY <1>1 DEF JR!RewriteStaticImportCalls, Static
  <2> QED
    BY <1>1, <2>1 DEF Keeps
<1>2. CASE file.imports \cap Static # {}
  <2> DEFINE kinds == {"code", "comment", "field"}
             bounded == TRUE
             edited == Once(file, kinds, StaticCall, NewCall(mapping), bounded)
  <2>1. new = JR!WithoutStaticImport(file, edited)
    BY <1>2 DEF JR!RewriteStaticImportCalls, JR!OnLines, Once, StaticCall, NewCall, Static
  <2>2. <<StaticCall, NewCall(mapping)>> \in Rules(mapping)
    BY DEF Rules
  <2>3. Lasting(mapping, StaticCall, bounded)
    BY PatternShape DEF Lasting
  <2>4. kinds \in SUBSET JR!Kinds /\ bounded \in BOOLEAN
    BY DEF JR!Kinds
  <2>5. edited = Edited(file, kinds, StaticCall, NewCall(mapping), bounded)
    <3> HIDE DEF bounded, kinds
    <3> QED
      BY <2>4, OneRule
  <2> HIDE DEF bounded, kinds, edited
  <2>6. /\ Keeps(file, edited, mapping) /\ edited.imports = file.imports
        /\ Free(edited, kinds, StaticCall, bounded)
        /\ Free(file, kinds, StaticCall, bounded) => edited = file
    BY <2>2, <2>3, <2>4, <2>5, RuleApplied
  <2>7. /\ Keeps(file, new, mapping) /\ new.lines = edited.lines
        /\ new.imports \in {file.imports, file.imports \ {"static"}}
        /\ edited = file => new = file
    BY <2>1, <2>6, StaticImportGoes
  <2> QED
    BY <1>2, <2>6, <2>7 DEF bounded, kinds, Free, StaticCallsGone
<1> QED
  BY <1>1, <1>2

\* RewriteStaticImportFields leaves no bare name outside comments and fields.
LEMMA StaticNamesStage ==
    ASSUME NEW file \in Sources, NEW mapping \in SymbolMapping,
           NEW new, new = JR!RewriteStaticImportFields(file, mapping)
    PROVE  /\ Keeps(file, new, mapping)
           /\ new.imports \in {file.imports, file.imports \ {"static"}}
           /\ file.imports \cap Static # {} /\ ~ JR!IsChain(mapping)
                 => StaticNamesGone(new)
           /\ \/ file.imports \cap Static = {} \/ JR!IsChain(mapping)
              \/ StaticNamesGone(file)
              => new = file
<1>1. CASE file.imports \cap Static = {} \/ JR!IsChain(mapping)
  <2>1. new = file
    BY <1>1 DEF JR!RewriteStaticImportFields, Static
  <2> QED
    BY <1>1, <2>1 DEF Keeps
<1>2. CASE file.imports \cap Static # {} /\ ~ JR!IsChain(mapping)
  <2> DEFINE kinds == {"code", "method"}
             bounded == TRUE
             member == JR!NewMember(mapping)
             edited == Once(file, kinds, StaticName, member, bounded)
  <2>1. new = JR!WithoutStaticImport(file, edited)
    BY <1>2 DEF JR!RewriteStaticImportFields, JR!OnLines, Once, StaticName, Static
  <2>2. <<StaticName, member>> \in Rules(mapping)
    BY DEF Rules
  <2>3. Lasting(mapping, StaticName, bounded)
    BY PatternShape DEF Lasting
  <2>4. kinds \in SUBSET JR!Kinds /\ bounded \in BOOLEAN
    BY DEF JR!Kinds
  <2>5. edited = Edited(file, kinds, StaticName, member, bounded)
    <3> HIDE DEF bounded, kinds, member
    <3> QED
      BY <2>4, OneRule
  <2> HIDE DEF bounded, kinds, edited, member
  <2>6. /\ Keeps(file, edited, mapping) /\ edited.imports = file.imports
        /\ Free(edited, kinds, StaticName, bounded)
        /\ Free(file, kinds, StaticName, bounded) => edited = file
    BY <2>2, <2>3, <2>4, <2>5, RuleApplied
  <2>7. /\ Keeps(file, new, mapping) /\ new.lines = edited.lines
        /\ new.imports \in {file.imports, file.imports \ {"static"}}
        /\ edited = file => new = file
    BY <2>1, <2>6, StaticImportGoes
  <2> QED
    BY <1>2, <2>6, <2>7 DEF bounded, kinds, Free, StaticNamesGone
<1> QED
  BY <1>1, <1>2

\* The class import goes only when nothing names the class, and then always.
LEMMA UnusedImportGoes ==
    ASSUME NEW file, file = [imports |-> file.imports, lines |-> file.lines],
           NEW new, new = JR!RemoveUnusedImport(file)
    PROVE  /\ new = [imports |-> new.imports, lines |-> new.lines] /\ new.lines = file.lines
           /\ new.imports \in {file.imports, file.imports \ {"class"}}
           /\ "class" \in file.imports \ new.imports => ~ JR!Mentions(new, JR!OldClass)
           /\ JR!RemoveUnusedImport(new) = new
<1>1. CASE JR!Mentions(file, JR!OldClass)
  BY <1>1 DEF JR!RemoveUnusedImport
<1>2. CASE ~ JR!Mentions(file, JR!OldClass)
  <2>1. new = [imports |-> file.imports \ {"class"}, lines |-> file.lines]
    BY <1>2 DEF JR!RemoveUnusedImport
  <2>2. new.lines = file.lines /\ new.imports = file.imports \ {"class"}
    BY <2>1
  <2>3. ~ JR!Mentions(new, JR!OldClass)
    BY <1>2, <2>2 DEF JR!Mentions
  <2>4. JR!RemoveUnusedImport(new) = [imports |-> new.imports \ {"class"}, lines |-> new.lines]
    BY <2>1, <2>3 DEF JR!RemoveUnusedImport
  <2>5. new.imports \ {"class"} = new.imports
    BY <2>2
  <2> QED
    BY <2>1, <2>2, <2>3, <2>4, <2>5
<1> QED
  BY <1>1, <1>2

\* What a member's rewriting leaves in no line.
Rewritten(file, new, mapping) ==
    /\ new \in Sources
    /\ file.imports \cap Static # {} => StaticCallsGone(new)
    /\ new.imports \cap Static # {} /\ ~ JR!IsChain(mapping) => StaticNamesGone(new)
    /\ mapping.class # "Legacy" => CallsGone(new) /\ ReferencesGone(new)
    /\ mapping.class # "Legacy" /\ ~ JR!IsChain(mapping) => FieldsGone(new)

\* What a stage leaves in no line no later stage brings back.
LEMMA GoneStays ==
    ASSUME NEW file \in Sources, NEW mapping \in SymbolMapping, NEW new, Keeps(file, new, mapping)
    PROVE  /\ StaticCallsGone(file) => StaticCallsGone(new)
           /\ StaticNamesGone(file) => StaticNamesGone(new)
           /\ mapping.class # "Legacy" /\ CallsGone(file) => CallsGone(new)
           /\ mapping.class # "Legacy" /\ FieldsGone(file) => FieldsGone(new)
<1>1. ASSUME NEW pattern \in Patterns, NEW kinds \in SUBSET JR!Kinds, NEW bounded \in BOOLEAN,
             Lasting(mapping, pattern, bounded), Free(file, kinds, pattern, bounded)
      PROVE  Free(new, kinds, pattern, bounded)
  BY <1>1 DEF Keeps
<1>2. {StaticCall, StaticName} \subseteq Patterns /\ Spelled \subseteq Patterns
      /\ {SimpleCall, QualifiedCall, SimpleField, QualifiedField} \subseteq Spelled
  BY DEF Patterns, Spelled
<1>3. {{"code", "comment", "field"}, {"code", "method"}, {"code", "method", "field"}, JR!Kinds}
         \subseteq SUBSET JR!Kinds
  BY DEF JR!Kinds
<1>4. Lasting(mapping, StaticCall, TRUE) /\ Lasting(mapping, StaticName, TRUE)
  BY PatternShape DEF Lasting
<1>5. ASSUME NEW pattern \in Spelled, NEW bounded \in BOOLEAN, mapping.class # "Legacy"
      PROVE  Lasting(mapping, pattern, bounded)
  BY <1>5 DEF Lasting
<1>6. StaticCallsGone(file) => StaticCallsGone(new)
  BY <1>1, <1>2, <1>3, <1>4 DEF StaticCallsGone
<1>7. StaticNamesGone(file) => StaticNamesGone(new)
  BY <1>1, <1>2, <1>3, <1>4 DEF StaticNamesGone
<1>8. ASSUME mapping.class # "Legacy", CallsGone(file) PROVE CallsGone(new)
  <2>1. ASSUME NEW pattern \in {SimpleCall, QualifiedCall}
        PROVE  Free(new, JR!Kinds, pattern, FALSE)
    <3>1. Free(file, JR!Kinds, pattern, FALSE)
      BY <1>8 DEF CallsGone
    <3>2. pattern \in Spelled /\ pattern \in Patterns
      BY <1>2
    <3>3. Lasting(mapping, pattern, FALSE)
      BY <1>5, <1>8, <3>2
    <3> QED
      BY <1>1, <1>3, <3>1, <3>2, <3>3
  <2> QED
    BY <2>1 DEF CallsGone
<1>9. ASSUME mapping.class # "Legacy", FieldsGone(file) PROVE FieldsGone(new)
  <2>1. ASSUME NEW pattern \in {SimpleField, QualifiedField}
        PROVE  Free(new, {"code", "method", "field"}, pattern, TRUE)
    <3>1. Free(file, {"code", "method", "field"}, pattern, TRUE)
      BY <1>9 DEF FieldsGone
    <3>2. pattern \in Spelled /\ pattern \in Patterns
      BY <1>2
    <3>3. Lasting(mapping, pattern, TRUE)
      BY <1>5, <1>9, <3>2
    <3> QED
      BY <1>1, <1>3, <3>1, <3>2, <3>3
  <2> QED
    BY <2>1 DEF FieldsGone
<1> QED
  BY <1>6, <1>7, <1>8, <1>9

\* A member's rewriting, stage by stage.
LEMMA MembersRewritten ==
    ASSUME NEW file \in Sources, NEW mapping \in SymbolMapping, ~ mapping.constructor,
           NEW new, new = JR!Rewrite(file, mapping)
    PROVE  /\ Rewritten(file, new, mapping) /\ new.imports \subseteq file.imports
           /\ "class" \in file.imports \ new.imports => ~ JR!Mentions(new, JR!OldClass)
           /\ JR!RemoveUnusedImport(new) = new
<1> DEFINE calls   == JR!RewriteCalls(file, mapping)
           fields  == JR!RewriteFields(calls, mapping)
           statics == JR!RewriteStaticImportCalls(fields, mapping)
           names   == JR!RewriteStaticImportFields(statics, mapping)
           whole   == JR!RewriteMethodReferences(names, mapping)
<1>1. new = JR!RemoveUnusedImport(whole)
  BY DEF JR!Rewrite
<1>2. /\ Keeps(file, calls, mapping) /\ calls.imports = file.imports
      /\ mapping.class # "Legacy" => CallsGone(calls)
  BY CallsStage
<1> HIDE DEF calls
<1>3. calls \in Sources
  BY <1>2 DEF Keeps
<1>4. /\ Keeps(calls, fields, mapping) /\ fields.imports = calls.imports
      /\ mapping.class # "Legacy" /\ ~ JR!IsChain(mapping) => FieldsGone(fields)
  BY <1>3, FieldsStage
<1> HIDE DEF fields
<1>5. fields \in Sources
  BY <1>4 DEF Keeps
<1>6. /\ Keeps(fields, statics, mapping)
      /\ statics.imports \in {fields.imports, fields.imports \ {"static"}}
      /\ fields.imports \cap Static # {} => StaticCallsGone(statics)
  BY <1>5, StaticCallsStage
<1> HIDE DEF statics
<1>7. statics \in Sources
  BY <1>6 DEF Keeps
<1>8. /\ Keeps(statics, names, mapping)
      /\ names.imports \in {statics.imports, statics.imports \ {"static"}}
      /\ statics.imports \cap Static # {} /\ ~ JR!IsChain(mapping) => StaticNamesGone(names)
  BY <1>7, StaticNamesStage
<1> HIDE DEF names
<1>9. names \in Sources
  BY <1>8 DEF Keeps
<1>10. /\ Keeps(names, whole, mapping) /\ whole.imports = names.imports
       /\ mapping.class # "Legacy" => ReferencesGone(whole)
  BY <1>9, ReferencesStage
<1> HIDE DEF whole
<1>11. whole \in Sources
  BY <1>10 DEF Keeps
<1>12. whole.imports \subseteq statics.imports /\ statics.imports \subseteq file.imports
       /\ ("class" \in file.imports => "class" \in whole.imports)
  BY <1>2, <1>4, <1>6, <1>8, <1>10
<1>13. file.imports \cap Static # {} => StaticCallsGone(whole)
  BY <1>2, <1>4, <1>6, <1>7, <1>8, <1>9, <1>10, GoneStays
<1>14. whole.imports \cap Static # {} /\ ~ JR!IsChain(mapping) => StaticNamesGone(whole)
  BY <1>8, <1>9, <1>10, <1>12, GoneStays
<1>15. mapping.class # "Legacy" => CallsGone(whole)
  BY <1>2, <1>3, <1>4, <1>5, <1>6, <1>7, <1>8, <1>9, <1>10, GoneStays
<1>16. mapping.class # "Legacy" /\ ~ JR!IsChain(mapping) => FieldsGone(whole)
  BY <1>4, <1>5, <1>6, <1>7, <1>8, <1>9, <1>10, GoneStays
<1>17. whole = [imports |-> whole.imports, lines |-> whole.lines]
       /\ whole.imports \in SUBSET JR!Imports
       /\ whole.lines \in Seq([kind : JR!Kinds, tokens : Line])
  BY <1>11, SourceLines DEF Sources
<1>18. /\ new = [imports |-> new.imports, lines |-> new.lines] /\ new.lines = whole.lines
       /\ new.imports \in {whole.imports, whole.imports \ {"class"}}
       /\ "class" \in whole.imports \ new.imports => ~ JR!Mentions(new, JR!OldClass)
       /\ JR!RemoveUnusedImport(new) = new
  BY <1>1, <1>17, UnusedImportGoes
<1>19. new \in Sources
  BY <1>17, <1>18 DEF Sources
<1>20. Keeps(whole, new, mapping)
  BY <1>18, <1>19 DEF Keeps, Free
<1>21. mapping.class # "Legacy" => ReferencesGone(new)
  BY <1>10, <1>18 DEF ReferencesGone, Free
<1>22. new.imports \cap Static # {} => whole.imports \cap Static # {}
  BY <1>18
<1>23. /\ file.imports \cap Static # {} => StaticCallsGone(new)
       /\ new.imports \cap Static # {} /\ ~ JR!IsChain(mapping) => StaticNamesGone(new)
       /\ mapping.class # "Legacy" => CallsGone(new)
       /\ mapping.class # "Legacy" /\ ~ JR!IsChain(mapping) => FieldsGone(new)
  BY <1>11, <1>13, <1>14, <1>15, <1>16, <1>20, <1>22, GoneStays
<1>24. Rewritten(file, new, mapping)
  BY <1>19, <1>21, <1>23 DEF Rewritten
<1> QED
  BY <1>12, <1>18, <1>24

\* Where the rewriting leaves nothing to replace, another one changes nothing.
LEMMA RewrittenStays ==
    ASSUME NEW file, NEW new, NEW mapping \in SymbolMapping,
           ~ mapping.constructor, mapping.class # "Legacy", Rewritten(file, new, mapping),
           new.imports \subseteq file.imports,
           JR!RemoveUnusedImport(new) = new
    PROVE  JR!Rewrite(new, mapping) = new
<1>1. /\ new \in Sources /\ CallsGone(new) /\ ReferencesGone(new)
      /\ JR!IsChain(mapping) \/ FieldsGone(new)
      /\ new.imports \cap Static = {} \/ StaticCallsGone(new)
      /\ new.imports \cap Static = {} \/ JR!IsChain(mapping) \/ StaticNamesGone(new)
  BY DEF Rewritten
<1>2. JR!RewriteCalls(new, mapping) = new
  BY <1>1, CallsStage
<1>3. JR!RewriteFields(new, mapping) = new
  BY <1>1, FieldsStage
<1>4. JR!RewriteStaticImportCalls(new, mapping) = new
  BY <1>1, StaticCallsStage
<1>5. JR!RewriteStaticImportFields(new, mapping) = new
  BY <1>1, StaticNamesStage
<1>6. JR!RewriteMethodReferences(new, mapping) = new
  BY <1>1, ReferencesStage
<1> QED
  BY <1>2, <1>3, <1>4, <1>5, <1>6 DEF JR!Rewrite

\* A file does not use what its lines are free of.
LEMMA FreeIsUnused ==
    ASSUME NEW file \in Sources, NEW kinds, NEW pattern, NEW bounded \in BOOLEAN,
           Free(file, kinds, pattern, bounded), NEW some \in SUBSET kinds
    PROVE  ~ HasUse(file, some, pattern)
BY DEF Free, Clear, Hit, HasUse, Lines

\* The sources the algorithm is applied to, and what it returns.
JavaInv ==
    algorithm = "java" =>
        /\ input.file \in Sources /\ input.mapping \in SymbolMapping
        /\ output = JR!Rewrite(input.file, input.mapping)

\* The invariant both theorems about Java rest on.
LEMMA JavaInvariant == Spec => []JavaInv
<1>1. Init => JavaInv
  BY DEF Init, JavaInv
<1>2. JavaInv /\ [Next]_vars => JavaInv'
  <2> SUFFICES ASSUME JavaInv, [Next]_vars PROVE JavaInv'
    OBVIOUS
  <2>1. CASE RewriteJava
    <3>1. PICK lines \in UpTo(2, JavaLines), imports \in SUBSET JR!Imports, mapping \in Mappings :
             LET file == [imports |-> imports, lines |-> lines]
             IN  Apply("java", [file |-> file, mapping |-> mapping], JR!Rewrite(file, mapping))
      BY <2>1 DEF RewriteJava
    <3> DEFINE file == [imports |-> imports, lines |-> lines]
    <3>2. input'.file = file /\ input'.mapping = mapping /\ output' = JR!Rewrite(file, mapping)
      BY <3>1 DEF Apply
    <3>3. mapping \in SymbolMapping
      BY AlgorithmsAssumption DEF AlgorithmsAssumption, SymbolMapping
    <3>4. lines \in Seq(JavaLines)
      <4>1. PICK n \in 0 .. 2 : lines \in [1 .. n -> JavaLines]
        BY DEF UpTo, BoundedSeq, SeqOf
      <4> QED
        BY <4>1
    <3>5. JavaLines \subseteq [kind : JR!Kinds, tokens : Line]
      <4>1. JavaLines \subseteq [kind : JR!Kinds, tokens : Seq(STRING)]
        BY AlgorithmsAssumption DEF AlgorithmsAssumption
      <4>2. Seq(STRING) \subseteq Line
        <5>1. STRING \subseteq Token
          BY DEF Token
        <5> QED
          BY <5>1, Widened DEF Line
      <4> QED
        BY <4>1, <4>2
    <3>6. file \in Sources
      <4>1. lines \in Seq([kind : JR!Kinds, tokens : Line])
        BY <3>4, <3>5, Widened
      <4> QED
        BY <4>1 DEF Sources
    <3> HIDE DEF file
    <3> QED
      BY <3>2, <3>3, <3>6 DEF JavaInv
  <2>2. CASE UNCHANGED vars
    BY <2>2 DEF vars, JavaInv
  <2>3. CASE algorithm' # "java"
    BY <2>3 DEF JavaInv
  <2> QED
    BY <2>1, <2>2, <2>3, StepsName DEF Next
<1> QED
  BY <1>1, <1>2, PTL DEF Spec

\* Whatever a source looks like, its rewriting takes the import of the class
\* only if nothing names the class any more, and the static import only if no
\* statement calls the member by its bare name, but for those the program takes
\* for declarations: the first half of RewritesAreSound.
THEOREM NeededImportsStay ==
    Spec => [](algorithm = "java" => ImportsStayNeeded(input.file, output))
<1>1. JavaInv => (algorithm = "java" => ImportsStayNeeded(input.file, output))
  <2> SUFFICES ASSUME JavaInv, algorithm = "java" PROVE ImportsStayNeeded(input.file, output)
    OBVIOUS
  <2> DEFINE file == input.file
             mapping == input.mapping
  <2>1. file \in Sources /\ mapping \in SymbolMapping /\ output = JR!Rewrite(file, mapping)
    BY DEF JavaInv
  <2> HIDE DEF file, mapping
  <2>2. /\ "class" \in file.imports \ output.imports => ~ JR!Mentions(output, JR!OldClass)
        /\ "static" \in file.imports \ output.imports =>
              ~ HasUse(output, Statements, <<"parse", "(">>)
    <3>1. CASE mapping.constructor
      <4> DEFINE once == JR!RewriteConstructors(file, mapping)
                 whole == JR!RewriteConstructorReferences(once, mapping)
      <4>1. file = [imports |-> file.imports, lines |-> file.lines]
        BY <2>1, SourceLines
      <4>2. once = [imports |-> file.imports, lines |-> once.lines]
        BY <4>1 DEF JR!RewriteConstructors, JR!OnLines
      <4> HIDE DEF once
      <4>3. whole = [imports |-> file.imports, lines |-> whole.lines]
        <5>1. \E lines : whole = [once EXCEPT !.lines = lines]
          BY ZenonT(30) DEF JR!RewriteConstructorReferences, JR!OnLines
        <5> HIDE DEF whole
        <5>2. PICK lines : whole = [once EXCEPT !.lines = lines]
          BY <5>1
        <5>3. whole = [imports |-> file.imports, lines |-> lines]
          BY <4>2, <5>2
        <5> QED
          BY <5>3
      <4>4. output = JR!RemoveUnusedImport(whole)
        BY <2>1, <3>1 DEF JR!Rewrite, once
      <4> HIDE DEF whole
      <4>5. whole.imports = file.imports
            /\ whole = [imports |-> whole.imports, lines |-> whole.lines]
        BY <4>3
      <4>6. /\ output.imports \in {whole.imports, whole.imports \ {"class"}}
            /\ "class" \in whole.imports \ output.imports => ~ JR!Mentions(output, JR!OldClass)
        BY <4>4, <4>5, UnusedImportGoes
      <4> QED
        BY <4>5, <4>6
    <3>2. CASE ~ mapping.constructor
      <4>1. /\ Rewritten(file, output, mapping)
            /\ "class" \in file.imports \ output.imports => ~ JR!Mentions(output, JR!OldClass)
        BY <2>1, <3>2, MembersRewritten
      <4>2. ASSUME "static" \in file.imports
            PROVE  ~ HasUse(output, Statements, <<"parse", "(">>)
        <5>1. Free(output, {"code", "comment", "field"}, StaticCall, TRUE) /\ output \in Sources
          BY <4>1, <4>2 DEF Rewritten, StaticCallsGone, Static
        <5>2. ~ HasUse(output, Statements, StaticCall)
          <6>1. Statements \in SUBSET {"code", "comment", "field"}
            BY DEF Statements
          <6> QED
            BY <5>1, <6>1, FreeIsUnused
        <5> QED
          BY <5>2 DEF StaticCall
      <4> QED
        BY <4>1, <4>2
    <3> QED
      BY <3>1, <3>2
  <2> QED
    BY <2>2 DEF ImportsStayNeeded, file
<1> QED
  BY <1>1, JavaInvariant, PTL

\* After a member is rewritten no statement uses the legacy one, but for those
\* the program takes for declarations, and another rewriting changes nothing,
\* unless the new class has the name of the old one.
MembersReplaced ==
    algorithm = "java" /\ ~ input.mapping.constructor /\ input.mapping.class # "Legacy" =>
        /\ NoLegacyUse(output, Statements, input.mapping, input.file.imports)
        /\ JR!Rewrite(output, input.mapping) = output

\* This holds of every source: the part of RewritesAreSound and RewriteSettles
\* about members, without the restriction to rewritable sources.
THEOREM MembersAreReplaced ==
    Spec => []MembersReplaced
<1>1. JavaInv => MembersReplaced
  <2> DEFINE file == input.file
             mapping == input.mapping
  <2> SUFFICES ASSUME JavaInv, algorithm = "java", ~ mapping.constructor, mapping.class # "Legacy"
               PROVE  /\ NoLegacyUse(output, Statements, mapping, file.imports)
                      /\ JR!Rewrite(output, mapping) = output
    BY DEF MembersReplaced
  <2>1. file \in Sources /\ mapping \in SymbolMapping /\ output = JR!Rewrite(file, mapping)
    BY DEF JavaInv
  <2> HIDE DEF file, mapping
  <2>2. /\ Rewritten(file, output, mapping) /\ output.imports \subseteq file.imports
        /\ JR!RemoveUnusedImport(output) = output
    BY <2>1, MembersRewritten
  <2>3. JR!Rewrite(output, mapping) = output
    BY <2>1, <2>2, RewrittenStays
  <2>4. output \in Sources
    BY <2>2 DEF Rewritten
  <2>5. ~ HasUse(output, Statements, SimpleCall)
    <3>1. Free(output, JR!Kinds, SimpleCall, FALSE) /\ Statements \in SUBSET JR!Kinds
      BY <2>2 DEF Rewritten, CallsGone, JR!Kinds, Statements
    <3> QED
      BY <2>4, <3>1, FreeIsUnused
  <2>6. ~ HasUse(output, Statements, SimpleReference)
    <3>1. Free(output, JR!Kinds, SimpleReference, FALSE) /\ Statements \in SUBSET JR!Kinds
      BY <2>2 DEF Rewritten, ReferencesGone, JR!Kinds, Statements
    <3> QED
      BY <2>4, <3>1, FreeIsUnused
  <2>7. JR!IsChain(mapping) \/ ~ HasUse(output, Statements, SimpleField)
    <3>1. JR!IsChain(mapping) \/ Free(output, {"code", "method", "field"}, SimpleField, TRUE)
      BY <2>2 DEF Rewritten, FieldsGone
    <3>2. Statements \in SUBSET {"code", "method", "field"}
      BY DEF Statements
    <3> QED
      BY <2>4, <3>1, <3>2, FreeIsUnused
  <2>8. file.imports \cap {"static", "wildcard"} = {} \/ ~ HasUse(output, Statements, StaticCall)
    <3>1. file.imports \cap {"static", "wildcard"} = {}
          \/ Free(output, {"code", "comment", "field"}, StaticCall, TRUE)
      BY <2>2 DEF Rewritten, StaticCallsGone, Static
    <3>2. Statements \in SUBSET {"code", "comment", "field"}
      BY DEF Statements
    <3> QED
      BY <2>4, <3>1, <3>2, FreeIsUnused
  <2>9. NoLegacyUse(output, Statements, mapping, file.imports)
    BY <2>5, <2>6, <2>7, <2>8
       DEF NoLegacyUse, SimpleCall, SimpleReference, SimpleField, StaticCall
  <2> QED
    BY <2>3, <2>9
<1> QED
  BY <1>1, JavaInvariant, PTL

=============================================================================
