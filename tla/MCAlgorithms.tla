---------------------------- MODULE MCAlgorithms ----------------------------
(* Inputs of the pure algorithms. *)
EXTENDS Algorithms

MCUnknownWords == <<"jre", "redhat">>

MCPieces   == {VR!Number(0), VR!Number(1), VR!Word("rc"), VR!Word("jre")}
MCVersions == UpTo(2, MCPieces)

MCBounds == {VR!NoBound, <<VR!Number(0)>>, <<VR!Number(1), VR!Word("rc")>>, <<VR!Number(1)>>}
MCSegments ==
    {VR!Segment(open, bounds, close) :
        open \in {"[", "("}, bounds \in UpTo(2, MCBounds), close \in {"]", ")"}}

MCCandidates ==
    {<<VR!Number(0), VR!Number(1)>>, <<VR!Number(1), VR!Word("rc")>>, <<VR!Number(1)>>,
     <<VR!Number(1), VR!Number(0)>>}

MCReleases == {<<1>>, <<1, 2>>, <<2, 0>>, <<2, 1>>, <<VF!Text, 9>>}

\* What is managed has a version.
MCDeclarations ==
    {d \in [section : POM!Sections, package : {"lib", "other"}, version : {"old", POM!NoVersion}] :
        d.section = "managed" => d.version # POM!NoVersion}

MCTreeEntries == [package : {"lib", "other"}, version : {"old", "target"}]

MCLicenses == {"MIT", "GPL-3.0"}

Line(kind, tokens) == [kind |-> kind, tokens |-> tokens]

MCUses ==
    {<<"Legacy", ".parse", "(", "x", ")">>, <<"org.old.", "Legacy", ".parse", "(", "x", ")">>,
     <<"My", "Legacy", ".parse", "(", "x", ")">>,
     <<"Legacy", ".parse", ";">>, <<"org.old.", "Legacy", ".parse", ";">>,
     <<"parse", "(", "parse", "(", "x", ")", ")">>, <<"parse", ";">>,
     <<"Legacy", "::", "parse">>, <<"org.old.", "Legacy", "::", "parse">>,
     <<"new ", "Legacy", "(", "x", ")">>, <<"new ", "org.old.", "Legacy", "(", "x", ")">>,
     <<"new ", "Legacy", "(", ")">>,
     <<"new ", "Legacy", "(", "new ", "Legacy", "(", "x", ")", ")">>,
     <<"Legacy", "::", "new">>}

MCJavaLines ==
    {Line("code", use) : use \in MCUses}
    \cup {Line("comment", <<"Legacy">>), Line("comment", <<"Legacy", ".parse", "(", ")">>),
          Line("comment", <<"parse", "(", "x", ")">>),
          Line("comment", <<"Object ", "parse", "(", "x", ")">>),
          Line("method", <<"Object ", "parse", "(", "x", ")">>),
          Line("method", <<"else return ", "parse", "(", "x", ")">>),
          Line("field", <<"Object ", "parse", " = ", "parse", "(", "x", ")">>)}

MCMappings ==
    {[class |-> class, member |-> <<".read">>, name |-> "read", constructor |-> FALSE] :
        class \in {"Reader", "Legacy"}}
    \cup {[class |-> "Builder", member |-> <<".create()", ".parse">>, name |-> "parse",
           constructor |-> FALSE],
          [class |-> "Factory", member |-> <<".create">>, name |-> "create",
           constructor |-> TRUE]}

MCSymbols ==
    [kind : {"method", "field"}, tokens : {{"parse"}, {"parse", "string"}},
     params : {<<>>, <<"int">>}, package : {<<"org">>, <<"org", "json">>}]

=============================================================================
