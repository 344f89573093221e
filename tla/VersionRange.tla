---------------------------- MODULE VersionRange ----------------------------
(***************************************************************************)
(* Maven versions and affected ranges.  A version is the sequence of its   *)
(* pieces: a record of a number, or of a word.  Words the table does not   *)
(* know stand in the alphabetical order of the constant UnknownWords.      *)
(***************************************************************************)
EXTENDS Integers, SequencesExt, Ordering

CONSTANT UnknownWords

Number(n) == [number |-> n, word |-> ""]
Word(w)   == [number |-> 0, word |-> w]

QualifierOrder ==
    [snapshot |-> -5, alpha |-> -4, a |-> -4, beta |-> -3, b |-> -3, milestone |-> -2,
     m |-> -2, rc |-> -1, cr |-> -1, final |-> 0, ga |-> 0, release |-> 0, sp |-> 1]

IndexOf(word) == CHOOSE i \in DOMAIN UnknownWords : UnknownWords[i] = word

\* _normalize_parts: a known qualifier counts as a number; every unknown word
\* is below every number.
Part(piece) ==
    IF piece.word = "" THEN <<1, piece.number>>
    ELSE IF piece.word \in DOMAIN QualifierOrder THEN <<1, QualifierOrder[piece.word]>>
    ELSE <<0, IndexOf(piece.word)>>

\* A missing part counts as the number 0.
PartAt(version, i) == IF i <= Len(version) THEN Part(version[i]) ELSE <<1, 0>>

PartBelow(p, q) == p[1] < q[1] \/ (p[1] = q[1] /\ p[2] < q[2])

Differing(left, right) ==
    {i \in 1 .. Len(left) + Len(right) : PartAt(left, i) # PartAt(right, i)}

\* Deviation: the shorter of two versions with a common beginning is lower.
CompareVersionsByLength(left, right) ==
    LET common == {i \in Differing(left, right) : i <= Len(left) /\ i <= Len(right)}
    IN  IF common = {}
        THEN IF Len(left) = Len(right) THEN 0 ELSE IF Len(left) < Len(right) THEN -1 ELSE 1
        ELSE LET first == CHOOSE i \in common : \A j \in common : i <= j
             IN  IF PartBelow(PartAt(left, first), PartAt(right, first)) THEN -1 ELSE 1

\* The first differing part decides.
CompareVersions(left, right) ==
    IF Differing(left, right) = {} THEN 0
    ELSE LET first == CHOOSE i \in Differing(left, right) :
                        \A j \in Differing(left, right) : i <= j
         IN  IF PartBelow(PartAt(left, first), PartAt(right, first)) THEN -1 ELSE 1

-----------------------------------------------------------------------------
(***************************************************************************)
(* A range is a sequence of segments; a segment holds one bound or two,    *)
(* each a version or empty, between brackets of either kind.  A bare       *)
(* version is its own range.                                               *)
(***************************************************************************)

NoBound == <<>>
NoFix   == <<>>

Segment(open, bounds, close) == [open |-> open, bounds |-> bounds, close |-> close]

Above(version, bound, inclusive) ==
    \/ bound = NoBound
    \/ CompareVersions(version, bound) > 0
    \/ inclusive /\ CompareVersions(version, bound) = 0

Below(version, bound, inclusive) ==
    \/ bound = NoBound
    \/ CompareVersions(version, bound) < 0
    \/ inclusive /\ CompareVersions(version, bound) = 0

\* Deviation: both ends belong to the segment whatever its brackets say.
MatchesSegmentClosed(version, segment) ==
    LET last == Len(segment.bounds)
    IN  Above(version, segment.bounds[1], TRUE) /\ Below(version, segment.bounds[last], TRUE)

\* One bound stands for itself, in parentheses too; none, for every version.
MatchesSegment(version, segment) ==
    LET last == Len(segment.bounds)
    IN  /\ Above(version, segment.bounds[1], last = 1 \/ segment.open = "[")
        /\ Below(version, segment.bounds[last], last = 1 \/ segment.close = "]")

IsAffected(version, ranges) ==
    \E range \in ranges : \E i \in DOMAIN range : MatchesSegment(version, range[i])

IsFixVersion(version, current, ranges) ==
    CompareVersions(version, current) > 0 /\ ~ IsAffected(version, ranges)

\* Ascending; spellings that compare equal keep the order they came in,
\* which is that of a Python set.
Ascending(versions) ==
    LET Before(i, j) ==
          LET c == CompareVersions(versions[i], versions[j]) IN c < 0 \/ (c = 0 /\ i < j)
        places == DOMAIN versions
        order  == InOrder(places, {p \in places \X places : Before(p[1], p[2])})
    IN  [i \in places |-> versions[order[i]]]

FirstFix(versions, current, ranges) ==
    LET IsFix(v) == IsFixVersion(v, current, ranges)
        first == SelectInSeq(versions, IsFix)
    IN  IF first = 0 THEN NoFix ELSE versions[first]

PickLowestFixVersion(versions, current, ranges) ==
    FirstFix(Ascending(versions), current, ranges)

=============================================================================
