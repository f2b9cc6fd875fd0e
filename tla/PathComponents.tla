--------------------------- MODULE PathComponents ---------------------------
(***************************************************************************)
(* internal/rules/mounts.go: NewMatcher and Matcher.Allowed, on what lies  *)
(* between the slashes of a path.  The components of an absolute path are  *)
(* an empty one, before its first slash, and those that follow; a          *)
(* canonical path is given by the latter alone.  AllowlistText has the     *)
(* same on texts.                                                          *)
(***************************************************************************)
EXTENDS Integers, SequencesExt

Dot == <<".">>

DotDot == <<".", ".">>

Rooted(q) == Len(q) > 1 /\ q[1] = <<>>

(* filepath.Clean, below the root: empty and dot components go, and ".." takes
   the one before it away, if there is one. *)
CleanStep(out, c) ==
    IF c \in {<<>>, Dot} THEN out
    ELSE IF c = DotDot THEN Front(out)
    ELSE Append(out, c)

normalizePrefix(q) ==
    LET clean[k \in 0..Len(q)] == IF k = 0 THEN <<>> ELSE CleanStep(clean[k - 1], q[k])
    IN  clean[Len(q)]

(* Matcher.Allowed: a prefix that ends where a component ends; a relative one
   is the beginning of no canonical path. *)
Allowed(prefixes, path) ==
    \E q \in prefixes : Rooted(q) /\ IsPrefix(normalizePrefix(q), path)
=============================================================================
