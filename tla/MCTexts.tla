------------------------------ MODULE MCTexts -------------------------------
(***************************************************************************)
(* The modules on texts for TLC: every text up to a bound is reached by    *)
(* writing it token by token, a URI from one of a few beginnings, so that  *)
(* those with a version are among them.                                    *)
(***************************************************************************)
EXTENDS AllowlistText

CONSTANT Nil

DN == INSTANCE SubjectDN

Req == INSTANCE RequestText

Alphabet ==
    [subject |-> {DN!Comma, DN!Backslash, "a", "b"},
     pattern |-> {"/", ".", "$", "USER", "x", "1"},
     uri     |-> {"/", "?", ".", "1", "containers", "create", "archive"},
     options |-> {",", " ", "bind", "r"}]

Kinds == DOMAIN Alphabet

Beginnings(k) ==
    IF k # "uri" THEN {<<>>}
    ELSE {<<>>, <<"v">>, <<"/", "v", "1", "/">>, <<"/", "volumes">>,
          <<"v", "1", ".", "1", "/", "volumes">>, <<"/", "containers", "/", "1", "/", "exec">>}

(* How many tokens are written. *)
Bound == [subject |-> 7, pattern |-> 6, uri |-> 5, options |-> 6]

VARIABLES kind, text, room

Init ==
    /\ kind \in Kinds
    /\ text \in Beginnings(kind)
    /\ room = Bound[kind]

Next ==
    /\ room > 0
    /\ room' = room - 1
    /\ \E t \in Alphabet[kind] : text' = Append(text, t)
    /\ UNCHANGED kind

Spec == Init /\ [][Next]_<<kind, text, room>>

-----------------------------------------------------------------------------
(* Values as a directory gives them, one of them unsafe, one two dots and one
   empty; a name that begins like another one; canonical paths, some of which
   share a beginning. *)
Vars ==
    [n \in {<<"USER">>, <<"USER", "x">>, <<"x">>} |->
        IF n = <<"USER">> THEN {<<"ann">>, <<"ann", "x">>, <<".", ".">>}
        ELSE IF n = <<"x">> THEN {<<"x", "/", "1">>}
        ELSE {<<"1">>, <<>>}]

CanonicalPaths ==
    {<<"/">>, <<"/", "ann">>, <<"/", "ann", "x">>, <<"/", "1">>, <<"/", "1", "x">>,
     <<"/", "x", "/", "ann">>, <<"/", "x", "ann">>, <<"/", "ann", "/", "1">>}

(* Every subject is turned around RDN by RDN (identity.go:9-60). *)
SubjectsMoveWhole == kind = "subject" => DN!MovesRDNsWhole(text)

(* Every pattern reads component by component (mounts.go:470-637). *)
PatternsReadByComponent ==
    kind = "pattern" => \A path \in CanonicalPaths : ReadsByComponent(text, Vars, path)

(* Every URI is taken for the endpoint it names (mounts.go:200-274). *)
URIsNameEndpoints == kind = "uri" => Req!NamesEndpoint(text)

(* Every option list is read option by option (mounts.go:177-190). *)
OptionsAreFound == kind = "options" => Req!FindsBindOption(text)
=============================================================================
