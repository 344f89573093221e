----------------------------- MODULE Algorithms -----------------------------
(***************************************************************************)
(* The pure algorithms of the program, each applied to every input of a    *)
(* bounded set and compared with what its result is for.                   *)
(***************************************************************************)
EXTENDS SequencesExt, Integers

CONSTANTS
    UnknownWords,  \* words of versions that the qualifier table lacks
    Versions, Segments, Candidates,
    Releases,      \* versions as OSV and Maven name them
    Declarations, TreeEntries, Licenses,
    JavaLines, Mappings,
    Symbols

VR  == INSTANCE VersionRange
VF  == INSTANCE VerificationRules
POM == INSTANCE PomEdits
DS  == INSTANCE DependencyScans
JR  == INSTANCE JavaRewrites
TP  == INSTANCE ToughPath

\* What a version string comes apart into.
Pieces == [number : Nat, word : {""} \cup DOMAIN VR!QualifierOrder \cup ToSet(UnknownWords)]

ASSUME AlgorithmsAssumption ==
    /\ UnknownWords \in Seq(STRING)
    /\ Versions \subseteq Seq(Pieces) \ {<<>>}
    /\ Candidates \subseteq Seq(Pieces) \ {<<>>}
    /\ Segments \subseteq [open : {"[", "("}, bounds : Seq(Seq(Pieces)) \ {<<>>}, close : {"]", ")"}]
    /\ Releases \subseteq Seq(Nat \cup {VF!Text}) \ {<<>>}
    /\ Declarations \subseteq [section : POM!Sections, package : STRING, version : STRING]
    /\ JavaLines \subseteq [kind : JR!Kinds, tokens : Seq(STRING)]
    \* A new class is no package; a new member is spelled with a dot, and its
    \* name is not the legacy class's.
    /\ Mappings \subseteq [class : STRING \ {"org.old."},
                           member : Seq(STRING \ (JR!OldNames \cup {"parse"})) \ {<<>>},
                           name : STRING \ JR!OldNames, constructor : BOOLEAN]
    /\ \A s \in Symbols : /\ IsFiniteSet(s.tokens)
                          /\ s.params \in Seq(STRING) /\ s.package \in Seq(STRING)

VARIABLES algorithm, input, output
vars == <<algorithm, input, output>>

Init == algorithm = "none" /\ input = <<>> /\ output = <<>>

Fresh == algorithm = "none"

Apply(name, in, out) == algorithm' = name /\ input' = in /\ output' = out

\* Sequences of one to n elements.
UpTo(n, S) == BoundedSeq(S, n) \ {<<>>}

Compare ==
    /\ Fresh
    /\ \E a, b, c \in Versions :
           Apply("compare", <<a, b, c>>,
                 [ab |-> VR!CompareVersions(a, b), bc |-> VR!CompareVersions(b, c),
                  ac |-> VR!CompareVersions(a, c), ba |-> VR!CompareVersions(b, a)])

MatchRange ==
    /\ Fresh
    /\ \E range \in UpTo(2, Segments) :
           Apply("range", range, {v \in Versions : VR!IsAffected(v, {range})})

\* Advisories write half-open segments.
PickFix ==
    /\ Fresh
    /\ \E versions \in [1 .. 3 -> Candidates], current \in Candidates,
          segment \in {s \in Segments : s.open = "[" /\ s.close = ")"} :
           Apply("fix", [versions |-> versions, current |-> current, ranges |-> {<<segment>>}],
                 VR!PickLowestFixVersion(versions, current, {<<segment>>}))

\* The events of a branch: the version that introduced the flaw and the one
\* that fixed it.
BranchRange(branch) == <<[kind |-> "introduced", version |-> branch[1]],
                         [kind |-> "fixed", version |-> branch[2]]>>

\* Of an advisory with these branches, for a ticket that names hint.
Advice(branches, hint) ==
    VF!RecommendedFix(<<[i \in DOMAIN branches |-> BranchRange(branches[i])]>>, hint)

\* OSV answers for the version in use, Maven is asked about the fix it
\* recommends, and both decide on the route.
VerifyAdvice ==
    /\ Fresh
    /\ \E branches \in UpTo(2, Releases \X (Releases \cup {VF!NoVersion})),
          hint \in Releases \cup {VF!NoVersion},
          current \in Releases, released, endOfLife \in BOOLEAN,
          entries \in SUBSET [direct : BOOLEAN] :
           LET target == Advice(branches, hint)
           IN  /\ target # VF!NoVersion
               /\ Apply("route", [branches |-> branches, current |-> current, target |-> target,
                                  released |-> released, entries |-> entries,
                                  endOfLife |-> endOfLife],
                        VF!RouteDecision(VF!MavenVerification(current, target,
                            IF released THEN {target} ELSE {}, entries, endOfLife)))

EditPom ==
    /\ Fresh
    /\ \E pom \in UpTo(3, Declarations), section \in {"direct", "managed"} :
           Apply("pom", [pom |-> pom, section |-> section],
                 IF section = "direct"
                 THEN POM!DirectDependencyUpdate(pom, "lib", "target")
                 ELSE POM!DependencyManagementOverride(pom, "lib", "target"))

InspectTree ==
    /\ Fresh
    /\ \E tree \in UpTo(3, TreeEntries) :
           LET versions == {e.version : e \in {d \in ToSet(tree) : d.package = "lib"}}
           IN  Apply("tree", versions,
                     [preflight |-> POM!Preflight(tree, "lib", "target"),
                      rescan    |-> DS!SecurityFailures(versions, "target")])

ScanLicenses ==
    /\ Fresh
    /\ \E first, second \in DS!Dependencies(Licenses), denied, allowed \in SUBSET Licenses :
           Apply("licenses", [tree |-> {first, second}, denied |-> denied, allowed |-> allowed],
                 DS!LicenseFailures(DS!LicenseFindings({first, second}, denied, allowed),
                                    denied \cup allowed # {}))

RewriteJava ==
    /\ Fresh
    /\ \E lines \in UpTo(2, JavaLines), imports \in SUBSET JR!Imports, mapping \in Mappings :
           LET file == [imports |-> imports, lines |-> lines]
           IN  Apply("java", [file |-> file, mapping |-> mapping], JR!Rewrite(file, mapping))

\* A removed method stands for any kind: the kinds are only compared.
MapSymbol ==
    /\ Fresh
    /\ \E legacy \in {s \in Symbols : s.kind = "method"}, api \in UpTo(2, Symbols),
          topK \in 1 .. 2, confidence \in {-1, 4000, 12000} :
           LET candidates == TP!MapSymbol(legacy, api, topK)
           IN  Apply("map", [legacy |-> legacy, api |-> api, topK |-> topK,
                             confidence |-> confidence],
                     [mapped |-> candidates, reconciled |-> TP!Reconcile(candidates, confidence)])

Next ==
    \/ Compare \/ MatchRange \/ PickFix \/ VerifyAdvice \/ EditPom
    \/ InspectTree \/ ScanLicenses \/ RewriteJava \/ MapSymbol

Spec == Init /\ [][Next]_vars

-----------------------------------------------------------------------------
(* Versions. *)

\* Comparing versions of any shape is an order: converse and transitive.
\* Trailing zeros do not count, and a release comes after its candidates.
VersionOrder ==
    algorithm = "compare" =>
        /\ output.ba = - output.ab
        /\ output.ab <= 0 /\ output.bc <= 0 => output.ac <= 0
        /\ output.ac = 0 /\ output.ab = 0 => output.bc = 0
        /\ input[2] = Append(input[1], VR!Number(0)) => output.ab = 0
        /\ input[2] = Append(input[1], VR!Word("rc")) => output.ab = 1

\* A segment affects an interval of versions, which its ends belong to as
\* their brackets say.
SegmentIsInterval(segment, affected) ==
    LET bounds == segment.bounds
        lower == bounds[1]
        upper == bounds[Len(bounds)]
    IN  /\ \A a, c \in affected : \A b \in Versions \ affected :
               VR!CompareVersions(a, b) > 0 \/ VR!CompareVersions(b, c) > 0
        /\ Len(bounds) = 2 /\ lower # upper /\ lower \in affected => segment.open = "["
        /\ Len(bounds) = 2 /\ lower # upper /\ upper \in affected => segment.close = "]"

\* Segments affect what any of them does, each an interval; and the version
\* picked out of a range is a fix, no fix is lower, and none is missed.
RangesAreIntervals ==
    /\ algorithm = "range" =>
           IF Len(input) = 1 THEN SegmentIsInterval(input[1], output)
           ELSE output = UNION {{v \in Versions : VR!IsAffected(v, {<<s>>})} : s \in ToSet(input)}
    /\ algorithm = "fix" =>
           LET fixes == {v \in ToSet(input.versions) :
                           VR!IsFixVersion(v, input.current, input.ranges)}
           IN  IF fixes = {} THEN output = VR!NoFix
               ELSE output \in fixes /\ \A v \in fixes : VR!CompareVersions(output, v) <= 0

-----------------------------------------------------------------------------
(* Verification. *)

Older(v, w) ==
    \E i \in 1 .. 3 : /\ VF!PartOf(v, i) < VF!PartOf(w, i)
                      /\ \A j \in 1 .. i - 1 : VF!PartOf(v, j) = VF!PartOf(w, j)

\* The branches that have a fix.
Fixed(branches) == {b \in ToSet(branches) : b[2] # VF!NoVersion}

Affects(branch, version) == ~ Older(version, branch[1]) /\ Older(version, branch[2])

\* No major version is in two branches.
OneBranchPerMajor(branches) ==
    \A b, c \in Fixed(branches) :
        /\ VF!PartOf(b[1], 1) <= VF!PartOf(b[2], 1)
        /\ \/ b = c
           \/ VF!PartOf(b[2], 1) < VF!PartOf(c[1], 1)
           \/ VF!PartOf(c[2], 1) < VF!PartOf(b[1], 1)

\* The fix recommended may be of another branch than the version in use, and
\* older; but then a human is asked: an unattended step goes up.  (Not so when
\* two branches share a major version.)
UnattendedStepsUpgrade ==
    algorithm = "route" /\ ~ VF!RequiresHumanApproval(output)
        /\ OneBranchPerMajor(input.branches)
        /\ (\E b \in Fixed(input.branches) : Affects(b, input.current))
    => Older(input.current, input.target)

\* A lane is entered without a human only for a version that is released, of
\* the same major version, of a package the build resolves, and by the way
\* the build declares it.
UnattendedRouteIsSafe ==
    algorithm = "route" /\ ~ VF!RequiresHumanApproval(output) =>
        /\ input.released /\ input.entries # {} /\ ~ input.endOfLife
        /\ VF!PartOf(input.current, 1) = VF!PartOf(input.target, 1)
        /\ output = "simple_update" <=> [direct |-> TRUE] \in input.entries

-----------------------------------------------------------------------------
(* The build. *)

\* The places of the package's declarations in a section, and of those with
\* a version of their own.
Declared(pom, section) == {i \in DOMAIN pom : pom[i].package = "lib" /\ pom[i].section = section}
Versioned(pom, section) == {i \in Declared(pom, section) : pom[i].version # POM!NoVersion}

\* What Maven builds with: the declared version, or else the managed one.
BuiltWith(pom) ==
    LET direct  == Versioned(pom, "direct")
        managed == Versioned(pom, "managed")
    IN  pom[Max(IF direct # {} THEN direct ELSE managed)].version

\* One declaration of the package is written, or added between the others.
WritesOne(pom, edited) ==
    \E i \in DOMAIN edited :
        /\ edited[i].package = "lib"
        /\ \A j \in DOMAIN pom : j < i => edited[j] = pom[j]
        /\ \/ /\ DOMAIN edited = DOMAIN pom /\ pom[i].package = "lib"
              /\ \A j \in DOMAIN pom : j > i => edited[j] = pom[j]
           \/ /\ Len(edited) = Len(pom) + 1
              /\ \A j \in DOMAIN pom : j >= i => edited[j + 1] = pom[j]

\* An edit changes what is built, and nothing of another package: a direct
\* update where one declaration outside profiles and plugins has a version, an
\* override where the pom does not declare a version of its own.
PomEditsTakeEffect ==
    algorithm = "pom" =>
        LET pom == input.pom
            versioned == UNION {Versioned(pom, section) : section \in POM!Sections}
        IN  IF output = POM!NotFound
            THEN input.section = "direct" /\ versioned = {}
            ELSE /\ WritesOne(pom, output)
                 /\ input.section = "direct" /\ Cardinality(versioned) = 1
                        /\ Versioned(pom, "nested") = {}
                    => BuiltWith(output) = "target"
                 /\ input.section = "managed" /\ Cardinality(Declared(pom, "managed")) <= 1
                        /\ Versioned(pom, "direct") = {}
                    => BuiltWith(output) = "target"

\* Preflight is content with one entry at the target; with the rescan of
\* validation behind it, every entry of the package is.
MixedTreeIsCaught ==
    algorithm = "tree" =>
        (output.preflight.passed /\ output.rescan = {} <=> input = {"target"})

\* With a list configured nothing passes that was not read and judged, and
\* nothing with a forbidden license is worth a retry.
LicensesFailClosed ==
    algorithm = "licenses" /\ input.denied \cup input.allowed # {} =>
        LET shipped == {d \in input.tree : d.scope # "test"}
            judged(d) == d.fetch = "read" /\ d.licenses # {}
            forbidden(d) == \/ d.licenses \cap input.denied # {}
                            \/ input.allowed # {} /\ d.licenses \cap input.allowed = {}
        IN  /\ output = {} <=> \A d \in shipped : judged(d) /\ ~ forbidden(d)
            /\ "license_unreachable" \in output =>
                   \A d \in shipped : judged(d) => ~ forbidden(d)

-----------------------------------------------------------------------------
(* Java sources. *)

Lines(file, kinds) ==
    {file.lines[i].tokens : i \in {j \in DOMAIN file.lines : file.lines[j].kind \in kinds}}

Has(file, kinds, pattern) ==
    \E line \in Lines(file, kinds) : \E i \in DOMAIN line : JR!MatchAt(line, i, pattern)

\* A use of a name, as opposed to its declaration.
HasUse(file, kinds, pattern) ==
    \E line \in Lines(file, kinds) : \E i \in DOMAIN line :
        /\ JR!MatchAt(line, i, pattern) /\ JR!OnBoundary(line, i)
        /\ i > 1 => line[i - 1] # "Object "

NestedConstructor == <<"new ", "Legacy", "(", "new ">>

Declaration == <<"Object ", "parse", "(">>

\* The sources the textual rewriting is made for.  Left out are a call or a
\* reference spelled with the package, a class whose name ends in the legacy
\* one's, and a constructor call inside another one; where the member may be
\* imported statically, a reference to it with its class as well, a statement
\* taken for the declaration of a method, and a method of its name that is
\* declared behind an annotation or while one name replaces another.  Their
\* rewriting is no longer Java.
Rewritable(file, mapping) ==
    /\ \A glue \in JR!Glue : ~ Has(file, JR!Kinds, <<glue, "Legacy", "::">>)
                             /\ ~ Has(file, JR!Kinds, <<glue, "Legacy", ".parse", "(">>)
    /\ ~ Has(file, JR!Kinds, NestedConstructor)
    /\ ~ mapping.constructor /\ file.imports \cap {"static", "wildcard"} # {} =>
           /\ ~ Has(file, {"code"}, <<"Legacy", "::", "parse">>)
           /\ ~ HasUse(file, {"method"}, <<"parse", "(">>)
           /\ ~ Has(file, {"comment"}, Declaration)
           /\ JR!IsChain(mapping) \/ ~ Has(file, {"method"}, Declaration)

Balanced(line) ==
    LET Count(t) == Cardinality({i \in DOMAIN line : line[i] = t}) IN Count("(") = Count(")")

\* No name runs into another one, and none that is declared is qualified.
WellFormed(file) ==
    \A line \in Lines(file, JR!Kinds) :
        /\ Balanced(line)
        /\ \A i \in 2 .. Len(line) :
               line[i - 1] \in JR!Glue \cup {"::", ")", "Object "} =>
                   line[i] \notin {"org.old.", "org.new."}

\* What the program does not take for a comment, and what it does not take for
\* the declaration of a method either.
Code       == {"code", "method", "field"}
Statements == {"code", "field"}

\* After the rewriting the lines use the legacy member or the unwrapped
\* constructor nowhere, except as a field that only a call chain replaces.
NoLegacyUse(file, kinds, mapping, imports) ==
    IF mapping.constructor
    THEN /\ ~ Has(file, kinds, <<"new ", "Legacy", "(", "x">>)
         /\ ~ Has(file, kinds, <<"Legacy", "::", "new">>)
    ELSE /\ ~ HasUse(file, kinds, JR!OldClass \o <<".parse", "(">>)
         /\ ~ HasUse(file, kinds, JR!OldClass \o <<"::", "parse">>)
         /\ JR!IsChain(mapping) \/ ~ HasUse(file, kinds, JR!OldClass \o <<".parse">>)
         /\ imports \cap {"static", "wildcard"} = {} \/ ~ HasUse(file, kinds, <<"parse", "(">>)

\* An import that goes is one the rest of the file does not need, but for the
\* statements taken for declarations.
ImportsStayNeeded(file, rewritten) ==
    /\ "class" \in file.imports \ rewritten.imports => ~ JR!Mentions(rewritten, JR!OldClass)
    /\ "static" \in file.imports \ rewritten.imports =>
           ~ HasUse(rewritten, Statements, <<"parse", "(">>)


\* Rewriting what was rewritten changes nothing, unless the replacement has
\* the name of the class it replaces.
RewriteSettles ==
    algorithm = "java" /\ Rewritable(input.file, input.mapping)
        /\ input.mapping.class # "Legacy"
    => JR!Rewrite(output, input.mapping) = output

-----------------------------------------------------------------------------
(* The ladder for complex migrations. *)

\* The candidates are symbols of the same kind, best first, and no better one
\* was dropped.  "An LLM cannot inflate trust": the model's opinion only
\* lowers a confidence, and never below zero.
CandidatesAreTrustworthy ==
    algorithm = "map" =>
        LET kept == output.mapped
            told == output.reconciled
        IN  /\ \A i \in DOMAIN kept : kept[i].symbol.kind = input.legacy.kind
            /\ \A i, j \in DOMAIN kept : i < j => kept[i].confidence >= kept[j].confidence
            /\ Len(kept) <= input.topK /\ Len(told) = Len(kept)
            /\ \A s \in ToSet(input.api) :
                   \/ s \in {kept[i].symbol : i \in DOMAIN kept}
                   \/ s.kind # input.legacy.kind
                   \/ TP!Confidence(input.legacy, s) <= 0
                   \/ Len(kept) = input.topK
                      /\ TP!Confidence(input.legacy, s) <= Last(kept).confidence
            /\ \A i \in DOMAIN kept :
                   /\ told[i].symbol = kept[i].symbol
                   /\ told[i].confidence \in 0 .. kept[i].confidence

=============================================================================
