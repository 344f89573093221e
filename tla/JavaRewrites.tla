---------------------------- MODULE JavaRewrites ----------------------------
(***************************************************************************)
(* The rewriting of one Java source in the complex lane: one symbol        *)
(* mapping, applied in the order of _apply_complex_symbol_rewrites.        *)
(*                                                                         *)
(* A line is the sequence of its tokens and what the program takes it for, *)
(* which goes by how the line starts: a comment (annotations count as      *)
(* one), the declaration of a method or of a field of the member's name,   *)
(* or code.  A statement such as "else return parse(x)" is taken for the   *)
(* declaration of a method, and a declaration behind an annotation for a   *)
(* comment.                                                                *)
(*                                                                         *)
(* A name is spelled in tokens that touch: the package "org.old.", the     *)
(* class "Legacy", the member ".parse", or "parse" in a declaration, in a  *)
(* reference or when imported statically.  Glue touches the token after    *)
(* it.  Imports are the ones of the legacy symbol.                         *)
(***************************************************************************)
EXTENDS SequencesExt, Integers

Imports == {"class", "static", "wildcard"}
Kinds   == {"code", "comment", "method", "field"}

\* The tokens a name continues.
Glue == {"My", "org.old.", "org.new."}

\* The names in front of the legacy member.
OldNames == {"org.old.", "Legacy"}

OldClass == <<"Legacy">>
OldQualified == <<"org.old.", "Legacy">>

\* A mapping names the replacement: its class, its member (several tokens when
\* it is a call chain), the name the member ends in, and whether it replaces a
\* constructor.
NewClass(mapping)  == <<"org.new.", mapping.class>>
NewMember(mapping) == NewClass(mapping) \o mapping.member
IsChain(mapping)   == Len(mapping.member) > 1

MatchAt(line, i, pattern) ==
    i + Len(pattern) - 1 <= Len(line) /\ SubSeq(line, i, i + Len(pattern) - 1) = pattern

OnBoundary(line, i) == i = 1 \/ line[i - 1] \notin Glue

\* Every occurrence from left to right, at a word boundary or anywhere.
Replaced(line, pattern, replacement, bounded) ==
    LET from[i \in 1 .. Len(line) + Len(pattern)] ==
          IF i > Len(line) THEN <<>>
          ELSE IF MatchAt(line, i, pattern) /\ (bounded => OnBoundary(line, i))
          THEN replacement \o from[i + Len(pattern)]
          ELSE <<line[i]>> \o from[i + 1]
    IN  from[1]

OnLines(file, kinds, Edit(_)) ==
    [file EXCEPT !.lines = [i \in DOMAIN @ |->
        IF @[i].kind \in kinds THEN [kind |-> @[i].kind, tokens |-> Edit(@[i].tokens)]
        ELSE @[i]]]

-----------------------------------------------------------------------------
(* Constructor calls. *)

\* _find_matching_parenthesis, or 0.
MatchingParenthesis(line, open) ==
    LET depth[i \in open - 1 .. Len(line)] ==
          IF i < open THEN 0
          ELSE depth[i - 1] + (IF line[i] = "(" THEN 1 ELSE IF line[i] = ")" THEN -1 ELSE 0)
        closing == {i \in open .. Len(line) : depth[i] = 0}
    IN  IF closing = {} THEN 0 ELSE CHOOSE i \in closing : \A j \in closing : i <= j

FactoryCall(mapping) == NewClass(mapping) \o <<mapping.member[1], "(">>

\* Deviation: arguments that are wrapped already are wrapped again.
WrapConstructorsAgain(line, mapping, class) ==
    LET pattern == <<"new ">> \o class \o <<"(">>
        wrap(text, i) ==
          LET open  == i + Len(pattern) - 1
              close == MatchingParenthesis(line, open)
          IN  IF MatchAt(line, i, pattern) /\ close > 0
              THEN [done |-> text.done \o SubSeq(line, text.cursor, open) \o FactoryCall(mapping)
                             \o SubSeq(line, open + 1, close - 1) \o <<")">>,
                    cursor |-> close]
              ELSE text
        end == FoldLeftDomain(wrap, [done |-> <<>>, cursor |-> 1], line)
    IN  end.done \o SubSeq(line, end.cursor, Len(line))

\* _rewrite_java_constructor_calls: the matches are those of the line as it
\* was; an inner call is copied with its outer one's arguments and then
\* appended once more.
WrapConstructors(line, mapping, class) ==
    LET pattern == <<"new ">> \o class \o <<"(">>
        wrap(text, i) ==
          LET open  == i + Len(pattern) - 1
              close == MatchingParenthesis(line, open)
          IN  IF /\ MatchAt(line, i, pattern) /\ close > 0
                 /\ ~ MatchAt(line, open + 1, FactoryCall(mapping))
              THEN [done |-> text.done \o SubSeq(line, text.cursor, open) \o FactoryCall(mapping)
                             \o SubSeq(line, open + 1, close - 1) \o <<")">>,
                    cursor |-> close]
              ELSE text
        end == FoldLeftDomain(wrap, [done |-> <<>>, cursor |-> 1], line)
    IN  end.done \o SubSeq(line, end.cursor, Len(line))

RewriteConstructors(file, mapping) ==
    LET Edit(line) == WrapConstructors(WrapConstructors(line, mapping, OldClass),
                                       mapping, OldQualified)
    IN  OnLines(file, Kinds, Edit)

\* Legacy::new becomes a lambda.
RewriteConstructorReferences(file, mapping) ==
    LET lambda == <<"x -> ", "new ">> \o OldQualified \o <<"(">> \o FactoryCall(mapping)
                  \o <<"x", ")", ")">>
        Edit(line) == Replaced(Replaced(line, OldClass \o <<"::", "new">>, lambda, FALSE),
                               OldQualified \o <<"::", "new">>, lambda, FALSE)
    IN  OnLines(file, Kinds, Edit)

-----------------------------------------------------------------------------
(* Members. *)

\* str.replace, the simple spelling first, in the whole text.
RewriteCalls(file, mapping) ==
    LET call == NewMember(mapping) \o <<"(">>
        Edit(line) == Replaced(Replaced(line, OldClass \o <<".parse", "(">>, call, FALSE),
                               OldQualified \o <<".parse", "(">>, call, FALSE)
    IN  OnLines(file, Kinds, Edit)

RewriteFields(file, mapping) ==
    LET Edit(line) == Replaced(Replaced(line, OldClass \o <<".parse">>, NewMember(mapping), TRUE),
                               OldQualified \o <<".parse">>, NewMember(mapping), TRUE)
    IN  IF IsChain(mapping) THEN file ELSE OnLines(file, {"code", "method", "field"}, Edit)

\* The import of the member goes when any line changed.
WithoutStaticImport(file, rewritten) ==
    IF rewritten = file THEN file ELSE [rewritten EXCEPT !.imports = @ \ {"static"}]

\* Comments are edited, and a declaration that is taken for one.
RewriteStaticImportCalls(file, mapping) ==
    LET Edit(line) == Replaced(line, <<"parse", "(">>, NewMember(mapping) \o <<"(">>, TRUE)
    IN  IF file.imports \cap {"static", "wildcard"} = {} THEN file
        ELSE WithoutStaticImport(file, OnLines(file, {"code", "comment", "field"}, Edit))

\* Only fields and comments are passed over: a method of the member's name is
\* declared under the new name if an import is still there.
RewriteStaticImportFields(file, mapping) ==
    LET Edit(line) == Replaced(line, <<"parse">>, NewMember(mapping), TRUE)
    IN  IF file.imports \cap {"static", "wildcard"} = {} \/ IsChain(mapping) THEN file
        ELSE WithoutStaticImport(file, OnLines(file, {"code", "method"}, Edit))


RewriteMethodReferences(file, mapping) ==
    LET reference == NewClass(mapping) \o Front(mapping.member) \o <<"::", mapping.name>>
        Edit(line) == Replaced(Replaced(line, OldClass \o <<"::", "parse">>, reference, FALSE),
                               OldQualified \o <<"::", "parse">>, reference, FALSE)
    IN  OnLines(file, Kinds, Edit)

-----------------------------------------------------------------------------

Mentions(file, pattern) ==
    \E k \in DOMAIN file.lines : \E i \in DOMAIN file.lines[k].tokens :
        /\ MatchAt(file.lines[k].tokens, i, pattern)
        /\ OnBoundary(file.lines[k].tokens, i)

\* The class import goes when nothing names the class any more.
RemoveUnusedImport(file) ==
    IF Mentions(file, OldClass) THEN file ELSE [file EXCEPT !.imports = @ \ {"class"}]

\* _apply_complex_symbol_rewrites for a mapping of a constructor or a member.
Rewrite(file, mapping) ==
    RemoveUnusedImport(
        IF mapping.constructor
        THEN RewriteConstructorReferences(RewriteConstructors(file, mapping), mapping)
        ELSE LET calls   == RewriteCalls(file, mapping)
                 fields  == RewriteFields(calls, mapping)
                 statics == RewriteStaticImportCalls(fields, mapping)
                 names   == RewriteStaticImportFields(statics, mapping)
             IN  RewriteMethodReferences(names, mapping))

=============================================================================
