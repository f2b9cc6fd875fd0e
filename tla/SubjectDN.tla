----------------------------- MODULE SubjectDN ------------------------------
(***************************************************************************)
(* internal/datasources/ldap/identity.go: normalizeSubjectDN, which turns  *)
(* the subject of a client certificate around before it becomes part of    *)
(* an LDAP filter.                                                         *)
(*                                                                         *)
(* A text is a sequence of characters: a comma, a backslash, or any other, *)
(* all of which the code treats alike.                                     *)
(***************************************************************************)
EXTENDS Integers, SequencesExt

Comma == "comma"
Backslash == "backslash"

(* Mutant: a character after a backslash is escaped, even if that backslash is
   itself an escaped one. *)
ScanLastBackslash(scan, c) ==
    IF c = Comma /\ ~scan.escaped
    THEN [parts |-> Append(scan.parts, scan.current), current |-> <<>>, escaped |-> FALSE]
    ELSE [scan EXCEPT !.current = Append(@, c), !.escaped = (c = Backslash)]

(* splitOnUnescapedCommas, the body of the loop. *)
Scan(scan, c) ==
    IF c = Comma /\ ~scan.escaped
    THEN [parts |-> Append(scan.parts, scan.current), current |-> <<>>, escaped |-> FALSE]
    ELSE [scan EXCEPT !.current = Append(@, c),
                      !.escaped = (c = Backslash /\ ~scan.escaped)]

splitOnUnescapedCommas(s) ==
    LET scan == FoldLeft(Scan, [parts |-> <<>>, current |-> <<>>, escaped |-> FALSE], s)
    IN  Append(scan.parts, scan.current)

(* strings.Join with a comma. *)
JoinWithCommas(parts) ==
    Tail(FlattenSeq([i \in DOMAIN parts |-> <<Comma>> \o parts[i]]))

normalizeSubjectDN(s) == JoinWithCommas(Reverse(splitOnUnescapedCommas(s)))

-----------------------------------------------------------------------------
(* RFC 2253, without a scan: a comma separates unless the backslashes just
   before it are odd in number. *)
BackslashesBefore(s, i) ==
    {k \in 1..(i - 1) : \A j \in k..(i - 1) : s[j] = Backslash}

Separators(s) ==
    {i \in DOMAIN s : s[i] = Comma /\ Cardinality(BackslashesBefore(s, i)) % 2 = 0}

(* Every RDN moves as one unit, to where it comes in the opposite order, and
   nothing is lost, added or split (the comments at identity.go:9-20 and
   30-33): the character i of an RDN that lies between the separators p and q
   goes to the place with the same offset in the mirrored interval. *)
MovesRDNsWhole(s) ==
    LET n == Len(s) + 1
        out == normalizeSubjectDN(s)
        ends == Separators(s) \cup {0, n}
    IN  /\ Len(out) = Len(s)
        /\ \A i \in Separators(s) : out[n - i] = Comma
        /\ \A p, q \in ends :
            p < q /\ (p + 1)..(q - 1) \cap ends = {} =>
                \A i \in (p + 1)..(q - 1) : out[(n - q) + (i - p)] = s[i]
=============================================================================
