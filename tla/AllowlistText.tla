--------------------------- MODULE AllowlistText ----------------------------
(***************************************************************************)
(* internal/rules/mounts.go: what an allowlist pattern, a text, allows:    *)
(* placeholderNames, Expand, NewMatcher and Allowed, with the cleaning of  *)
(* path/filepath.  RuleChain has the same on sequences of path components  *)
(* (PathComponents); here is why it may.                                   *)
(*                                                                         *)
(* A text is a sequence of tokens: a slash, a dot, a dollar sign, the      *)
(* words and digits a name is made of, and any other character.  A word    *)
(* of several letters is a token when nothing splits it.                   *)
(***************************************************************************)
EXTENDS Integers, SequencesExt

CONSTANTS
    Letters,  \* words of letters and underscores
    Digits

ASSUME TokensAssumption == (Letters \cup Digits) \cap {"/", ".", "$"} = {}

-----------------------------------------------------------------------------
(* filepath.Clean: empty and dot components go, and ".." takes the component
   before it away. *)
Dot == <<".">>
DotDot == <<".", ".">>

Components(text) ==
    LET Piece(parts, t) ==
            IF t = "/" THEN Append(parts, <<>>)
                       ELSE Append(Front(parts), Append(Last(parts), t))
    IN  FoldLeft(Piece, <<<<>>>>, text)

Rooted(text) == text # <<>> /\ text[1] = "/"

CleanComponents(text) ==
    LET Step(out, c) ==
            CASE c \in {<<>>, Dot} -> out
              [] c = DotDot /\ out # <<>> /\ Last(out) # DotDot -> Front(out)
              [] c = DotDot /\ out = <<>> /\ Rooted(text) -> out
              [] OTHER -> Append(out, c)
    IN  FoldLeft(Step, <<>>, Components(text))

WithSlashes(comps) == FlattenSeq([i \in DOMAIN comps |-> <<"/">> \o comps[i]])

Clean(text) ==
    LET out == WithSlashes(CleanComponents(text))
    IN  CASE Rooted(text) -> IF out = <<>> THEN <<"/">> ELSE out
          [] ~Rooted(text) -> IF out = <<>> THEN Dot ELSE Tail(out)

-----------------------------------------------------------------------------
(* placeholderPattern: the last position of the name that begins after the
   dollar sign at i; names are as long as they can be. *)
NameEnd(p, i) ==
    LET word == Letters \cup Digits
    IN  Max({j \in (i + 1)..Len(p) : Range(SubSeq(p, i + 1, j)) \subseteq word})

IsPlaceholder(p, i) == p[i] = "$" /\ i < Len(p) /\ p[i + 1] \in Letters

NameAt(p, i) == SubSeq(p, i + 1, NameEnd(p, i))

PlaceholdersAt(p) == {i \in DOMAIN p : IsPlaceholder(p, i)}

placeholderNames(p) == {NameAt(p, i) : i \in PlaceholdersAt(p)}

isSafeVarValue(v) == "/" \notin Range(v)

(* substitute: the text of each placeholder gives way to its value. *)
substitute(p, f) ==
    LET Covers(i, k) == i <= k /\ k <= NameEnd(p, i)
        At(k) == IF k \in PlaceholdersAt(p) THEN f[NameAt(p, k)]
                 ELSE IF \E i \in PlaceholdersAt(p) : Covers(i, k) THEN <<>>
                 ELSE <<p[k]>>
    IN  FlattenSeq([k \in DOMAIN p |-> At(k)])

(* Expand; vars gives every name a set of values, empty for most names. *)
Combos(p, vars) ==
    LET Values(n) == IF n \in DOMAIN vars THEN vars[n] ELSE {}
        Usable(n) == {v \in Values(n) : isSafeVarValue(v)}
    IN  {f \in [placeholderNames(p) -> UNION {Usable(n) : n \in placeholderNames(p)}] :
            \A n \in DOMAIN f : f[n] \in Usable(n)}

Expand(p, vars) == {substitute(p, f) : f \in Combos(p, vars)}

(* NewMatcher.  Clean leaves no trailing slash but the root's. *)
normalizePrefix(p) == Clean(p)

(* Mutant: a prefix of the text is enough. *)
AllowedByText(prefix, path) == IsPrefix(prefix, path)

(* Matcher.Allowed, for one prefix. *)
Allowed(prefix, path) ==
    LET boundary == IF prefix = <<"/">> THEN prefix ELSE Append(prefix, "/")
    IN  path = prefix \/ IsPrefix(boundary, path)

(* resolveMatcher and Allowed, for one pattern of the list. *)
PatternAllows(pattern, vars, path) ==
    \E p \in Expand(pattern, vars) : Allowed(normalizePrefix(p), path)

-----------------------------------------------------------------------------
Comp == INSTANCE PathComponents

(* A pattern reads component by component, whatever its text and the values of
   its variables, those that are empty or dots included: it allows a path when
   its own components, each filled in, are a prefix that allows the path's.
   So no value reaches beyond its component before the result is cleaned, a
   placeholder that has no value drops the pattern, even from a component that
   cleaning takes away, and a component is never matched by a part of one (the
   comments on Expand, placeholderPattern and Allowed, mounts.go:470-487,
   608-620). *)
ReadsByComponent(pattern, vars, path) ==
    LET parts == Components(pattern)
        InParts(f) == [k \in DOMAIN parts |-> substitute(parts[k], f)]
    IN  PatternAllows(pattern, vars, path) <=>
            Comp!Allowed({InParts(f) : f \in Combos(pattern, vars)}, CleanComponents(path))
=============================================================================
