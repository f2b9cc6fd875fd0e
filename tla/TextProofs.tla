----------------------------- MODULE TextProofs -----------------------------
(***************************************************************************)
(* Proofs about the text functions, for texts of any length over any       *)
(* tokens: the options of a volume, the subject of a certificate, URIs,    *)
(* and the patterns of the allowlist.                                      *)
(* Split and splitOnUnescapedCommas come down to the same thing, cuts of   *)
(* the text at some positions, with the parts between them.  What a fold   *)
(* or a recursive function computes is found by supposing a least position *)
(* at which it would not.                                                  *)
(* For the patterns: cutting at the slashes (Components), filling in the   *)
(* placeholders (substitute) and putting the slashes back (WithSlashes) go *)
(* across a slash (Join), so each may be done component by component; and  *)
(* cleaning, a fold over the components filled in, is the recursive        *)
(* function of PathComponents.                                             *)
(***************************************************************************)
EXTENDS MCTexts, FiniteSetTheorems, SequenceTheorems, WellFoundedInduction, TLAPS

-----------------------------------------------------------------------------
(* Least and greatest positions. *)

LEMMA Least ==
    ASSUME NEW T \in SUBSET Nat, T # {}
    PROVE  Min(T) \in T /\ \A n \in T : Min(T) <= n
<1>. DEFINE R == OpToRel(<, Nat)
<1>1. IsWellFoundedOn(R, Nat)
  BY NatLessThanWellFounded
<1>2. \A m, n \in Nat : <<m, n>> \in R <=> m < n
  BY DEF OpToRel
<1>. HIDE DEF R
<1>3. PICK m \in T : \A n \in T : ~(<<n, m>> \in R)
  BY <1>1, WFMin
<1>4. m \in Nat /\ \A n \in T : n \in Nat /\ ~(n < m)
  BY <1>2, <1>3
<1>5. \A n \in T : m <= n
  BY <1>4
<1>. QED BY <1>3, <1>5 DEF Min

HasMax(T) == T # {} => \E m \in T : \A n \in T : n <= m

LEMMA MaxIs ==
    ASSUME NEW T \in SUBSET Nat, NEW m \in T, \A n \in T : n <= m
    PROVE  Max(T) = m
<1>1. \A x \in T : (\A n \in T : x >= n) => x = m
  OBVIOUS
<1>2. \A n \in T : m >= n
  OBVIOUS
<1>. QED BY <1>1, <1>2 DEF Max

LEMMA MaxIn ==
    ASSUME NEW T \in SUBSET Nat, HasMax(T), T # {}
    PROVE  Max(T) \in T
  BY MaxIs DEF HasMax

LEMMA IntervalMax ==
    ASSUME NEW n \in Nat
    PROVE  \A s \in SUBSET (1..n) : HasMax(s)
<1>. DEFINE T == {m \in Nat : \E s \in SUBSET (1..m) : ~HasMax(s)}
<1>. SUFFICES ASSUME T # {} PROVE FALSE
  OBVIOUS
<1>1. PICK m \in T : \A k \in T : m <= k
  BY Least
<1>2. PICK s \in SUBSET (1..m) : ~HasMax(s)
  OBVIOUS
<1>3. CASE m \in s
  <2>1. \A k \in s : k <= m
    OBVIOUS
  <2>. QED BY <1>2, <1>3, <2>1 DEF HasMax
<1>4. CASE m \notin s /\ m # 0
  <2>1. s \in SUBSET (1..(m - 1)) /\ m - 1 \in Nat
    BY <1>4
  <2>2. m - 1 \in T
    BY <1>2, <2>1
  <2>. QED BY <1>1, <2>2
<1>5. CASE m = 0
  <2>1. 1..0 = {}
    OBVIOUS
  <2>2. s = {}
    BY <1>5, <2>1
  <2>. QED BY <1>2, <2>2 DEF HasMax
<1>. QED BY <1>3, <1>4, <1>5

LEMMA LastPosition ==
    ASSUME NEW n \in Nat, NEW s \in SUBSET (1..(n + 1))
    PROVE  /\ n + 1 \in s => Max(s) = n + 1 /\ s \ {Max(s)} \in SUBSET (1..n)
           /\ n + 1 \notin s => s \in SUBSET (1..n)
           /\ s # {} => Max(s) \in s
<1>1. s \in SUBSET Nat
  OBVIOUS
<1>2. \A k \in s : k <= n + 1
  OBVIOUS
<1>3. n + 1 \in s => Max(s) = n + 1
  BY <1>1, <1>2, MaxIs
<1>4. s # {} => Max(s) \in s
  BY <1>1, IntervalMax, MaxIn
<1>5. s \ {n + 1} \in SUBSET (1..n)
  OBVIOUS
<1>6. n + 1 \notin s => s = s \ {n + 1}
  OBVIOUS
<1>. QED BY <1>3, <1>4, <1>5, <1>6

-----------------------------------------------------------------------------
(* The functions that a fold over a text goes through. *)

(* Split with one token of the text more, which is a separator or is not. *)
NextParts(parts, t, separates) ==
    IF separates THEN Append(parts, <<>>)
                 ELSE Append(Front(parts), Append(Last(parts), t))

(* CleanComponents with one component more. *)
CleanStep(rooted, out, c) ==
    IF c \in {<<>>, Dot} THEN out
    ELSE IF c = DotDot /\ out # <<>> /\ Last(out) # DotDot THEN Front(out)
    ELSE IF c = DotDot /\ out = <<>> /\ rooted THEN out
    ELSE Append(out, c)

(* One step of a fold: the scan of a subject, the cleaning of a rooted or a
   relative path, or the split at a token. *)
NotSplits == {"subject", "rooted", "relative"}

Step(what, acc, t) ==
    IF what = "subject" THEN DN!Scan(acc, t)
    ELSE IF what \in NotSplits THEN CleanStep(what = "rooted", acc, t)
    ELSE NextParts(acc, t, t = what)

(* The function of FoldLeft, on the sets of the first n positions. *)
Iterates(g, what, base, add, n) ==
    g = [s \in SUBSET (1..n) |->
            IF s = {} THEN base ELSE Step(what, g[s \ {Max(s)}], add[Max(s)])]

LEMMA IteratesExists ==
    ASSUME NEW what, NEW base, NEW add, NEW n \in Nat
    PROVE  \E g : Iterates(g, what, base, add, n)
<1>. DEFINE T == {m \in Nat : ~\E g : Iterates(g, what, base, add, m)}
<1>. SUFFICES ASSUME T # {} PROVE FALSE
  OBVIOUS
<1>1. PICK m \in T : \A k \in T : m <= k
  BY Least
<1>2. CASE m = 0
  <2>. DEFINE g == [s \in SUBSET (1..0) |-> base]
  <2>0. 1..0 = {}
    OBVIOUS
  <2>1. \A s \in SUBSET (1..0) : s = {}
    BY <2>0
  <2>2. Iterates(g, what, base, add, 0)
    BY <2>1 DEF Iterates
  <2>. QED BY <1>2, <2>2
<1>3. CASE m # 0
  <2>. DEFINE k == m - 1
  <2>1. k \in Nat /\ k + 1 = m /\ k \notin T
    BY <1>1, <1>3
  <2>. HIDE DEF k
  <2>2. PICK g : Iterates(g, what, base, add, k)
    BY <2>1
  <2>. DEFINE F(h, s) == IF s = {} THEN base ELSE Step(what, h[s \ {Max(s)}], add[Max(s)])
              h == [s \in SUBSET (1..(k + 1)) |->
                       IF k + 1 \in s THEN Step(what, g[s \ {k + 1}], add[k + 1]) ELSE g[s]]
  <2>3. \A s \in SUBSET (1..k) : g[s] = F(g, s) /\ h[s] = g[s]
    <3>1. \A s \in SUBSET (1..k) : g[s] = F(g, s)
      BY <2>2 DEF Iterates
    <3>2. \A s \in SUBSET (1..k) : s \in SUBSET (1..(k + 1)) /\ k + 1 \notin s
      BY <2>1
    <3>3. \A s \in SUBSET (1..k) : h[s] = g[s]
      BY <3>2
    <3>. QED BY <3>1, <3>3
  <2>4. ASSUME NEW s \in SUBSET (1..(k + 1))
        PROVE  h[s] = F(h, s)
    <3>1. CASE k + 1 \in s
      <4>1. Max(s) = k + 1 /\ s \ {Max(s)} \in SUBSET (1..k)
        BY <2>1, <3>1, LastPosition
      <4>2. h[s \ {Max(s)}] = g[s \ {k + 1}]
        BY <2>3, <4>1
      <4>. QED BY <3>1, <4>1, <4>2
    <3>2. CASE k + 1 \notin s
      <4>1. s \in SUBSET (1..k) /\ (s # {} => Max(s) \in s)
        BY <2>1, <3>2, LastPosition
      <4>2. s \ {Max(s)} \in SUBSET (1..k)
        BY <4>1
      <4>3. h[s] = g[s] /\ h[s \ {Max(s)}] = g[s \ {Max(s)}] /\ g[s] = F(g, s)
        BY <2>3, <4>1, <4>2
      <4>. HIDE DEF h
      <4>. QED BY <4>3
    <3>. QED BY <3>1, <3>2
  <2>5. h = [s \in SUBSET (1..(k + 1)) |-> F(h, s)]
    BY <2>4
  <2>6. Iterates(h, what, base, add, k + 1)
    BY <2>5 DEF Iterates
  <2>. QED BY <2>1, <2>6
<1>. QED BY <1>2, <1>3

(* What is reached token by token. *)
Reaches(f, what, base, add) ==
    /\ f[0] = base
    /\ \A k \in 1..Len(add) : f[k] = Step(what, f[k - 1], add[k])

LEMMA IteratesReaches ==
    ASSUME NEW what, NEW base, NEW add, Len(add) \in Nat,
           NEW h, Iterates(h, what, base, add, Len(add))
    PROVE  LET f == [k \in 0..Len(add) |-> h[1..k]]
           IN  Reaches(f, what, base, add) /\ f[Len(add)] = h[1..Len(add)]
<1>. DEFINE f == [k \in 0..Len(add) |-> h[1..k]]
<1>1. \A s \in SUBSET (1..Len(add)) :
          h[s] = IF s = {} THEN base ELSE Step(what, h[s \ {Max(s)}], add[Max(s)])
  BY DEF Iterates
<1>2. f[0] = base
  <2>1. 1..0 = {} /\ {} \in SUBSET (1..Len(add))
    OBVIOUS
  <2>2. h[1..0] = base
    BY <1>1, <2>1
  <2>. QED BY <2>2
<1>3. ASSUME NEW k \in 1..Len(add)
      PROVE  f[k] = Step(what, f[k - 1], add[k])
  <2>1. k \in 1..k /\ 1..k \in SUBSET Nat /\ \A j \in 1..k : j <= k
    OBVIOUS
  <2>2. Max(1..k) = k
    BY <2>1, MaxIs
  <2>3. (1..k) \ {k} = 1..(k - 1)
    OBVIOUS
  <2>4. 1..k # {} /\ 1..k \in SUBSET (1..Len(add))
    OBVIOUS
  <2>5. h[1..k] = Step(what, h[1..(k - 1)], add[k])
    BY <1>1, <2>2, <2>3, <2>4
  <2>6. f[k] = h[1..k] /\ f[k - 1] = h[1..(k - 1)]
    OBVIOUS
  <2>. QED BY <2>5, <2>6
<1>4. f[Len(add)] = h[1..Len(add)]
  OBVIOUS
<1>. QED BY <1>2, <1>3, <1>4 DEF Reaches

LEMMA SplitReaches ==
    ASSUME NEW c, c \notin NotSplits, NEW add, DOMAIN add = 1..Len(add), Len(add) \in Nat
    PROVE  \E f : Reaches(f, c, <<<<>>>>, add) /\ Req!Split(add, c) = f[Len(add)]
<1>. DEFINE NP(x, t) == NextParts(x, t, t = c)
            W(h) == h = [s \in SUBSET DOMAIN add |->
                            IF s = {} THEN <<<<>>>> ELSE NP(h[s \ {Max(s)}], add[Max(s)])]
            C == CHOOSE h : W(h)
<1>1. Req!Split(add, c) = C[DOMAIN add]
  BY DEF Req!Split, Req!FoldLeft, Req!MapThenFoldSet, Req!Max, Max, NextParts, Req!Front, Req!Last, Front, Last
<1>2. ASSUME NEW h
      PROVE  W(h) <=> Iterates(h, c, <<<<>>>>, add, Len(add))
  <2>1. \A x, t : Step(c, x, t) = NP(x, t)
    BY DEF Step, NotSplits
  <2>. HIDE DEF NP
  <2>2. [s \in SUBSET DOMAIN add |->
            IF s = {} THEN <<<<>>>> ELSE NP(h[s \ {Max(s)}], add[Max(s)])]
        = [s \in SUBSET (1..Len(add)) |->
            IF s = {} THEN <<<<>>>> ELSE Step(c, h[s \ {Max(s)}], add[Max(s)])]
    BY <2>1
  <2>. QED BY <2>2 DEF Iterates
<1>. HIDE DEF W
<1>3. \E h : W(h)
  BY <1>2, IteratesExists
<1>4. W(C)
  BY <1>3
<1>. QED BY <1>1, <1>2, <1>4, IteratesReaches

-----------------------------------------------------------------------------
(* A text cut at some positions. *)

(* What lies between two positions. *)
Between(s, p, q) == SubSeq(s, p + 1, q - 1)

(* The parts are what lies between the cuts e[0] = 0 < e[1] < ... , the last of
   which is m; the cuts between are the positions at that are less than m. *)
CutBy(e, parts, s, at, m) ==
    /\ parts # <<>>
    /\ e \in [0..Len(parts) -> 0..m]
    /\ e[0] = 0 /\ e[Len(parts)] = m
    /\ \A i, j \in 0..Len(parts) : i < j => e[i] < e[j]
    /\ \A i \in 1..(Len(parts) - 1) : e[i] \in at
    /\ \A p \in at : 0 < p /\ p < m => \E i \in 1..(Len(parts) - 1) : e[i] = p
    /\ \A i \in 1..Len(parts) : parts[i] = Between(s, e[i - 1], e[i])

LEMMA BetweenFacts ==
    ASSUME NEW S, NEW s \in Seq(S), NEW p \in Nat, NEW q \in Nat, p < q, q <= Len(s) + 1
    PROVE  /\ Between(s, p, q) \in Seq(S)
           /\ Len(Between(s, p, q)) = q - p - 1
           /\ \A i \in 1..(q - p - 1) : Between(s, p, q)[i] = s[p + i]
<1>1. \A j \in (p + 1)..(q - 1) : s[j] \in S
  BY ElementOfSeq
<1>2. p + 1 \in Int /\ q - 1 \in Int
  OBVIOUS
<1>3. /\ SubSeq(s, p + 1, q - 1) \in Seq(S)
      /\ Len(SubSeq(s, p + 1, q - 1)) =
            IF p + 1 <= q - 1 THEN q - 1 - (p + 1) + 1 ELSE 0
      /\ \A i \in 1..(q - 1 - (p + 1) + 1) : SubSeq(s, p + 1, q - 1)[i] = s[p + 1 + i - 1]
  BY <1>1, <1>2, SubSeqProperties
<1>. HIDE DEF Between
<1>4. Between(s, p, q) = SubSeq(s, p + 1, q - 1)
  BY DEF Between
<1>5. (IF p + 1 <= q - 1 THEN q - 1 - (p + 1) + 1 ELSE 0) = q - p - 1
  OBVIOUS
<1>6. q - 1 - (p + 1) + 1 = q - p - 1 /\ \A i \in 1..(q - p - 1) : p + 1 + i - 1 = p + i
  OBVIOUS
<1>. QED BY <1>3, <1>4, <1>5, <1>6

LEMMA BetweenMore ==
    ASSUME NEW S, NEW s \in Seq(S), NEW p \in Nat, NEW q \in Nat, p < q, q <= Len(s)
    PROVE  Between(s, p, q + 1) = Append(Between(s, p, q), s[q])
<1>. DEFINE a == Between(s, p, q)
            b == Between(s, p, q + 1)
<1>1. /\ a \in Seq(S) /\ Len(a) = q - p - 1
      /\ \A i \in 1..(q - p - 1) : a[i] = s[p + i]
  BY BetweenFacts
<1>2. /\ b \in Seq(S) /\ Len(b) = q - p
      /\ \A i \in 1..(q - p) : b[i] = s[p + i]
  <2>. DEFINE r == q + 1
  <2>1. r \in Nat /\ p < r /\ r <= Len(s) + 1 /\ r - p - 1 = q - p
    OBVIOUS
  <2>2. b = Between(s, p, r)
    OBVIOUS
  <2>. HIDE DEF r, b
  <2>3. /\ Between(s, p, r) \in Seq(S)
        /\ Len(Between(s, p, r)) = r - p - 1
        /\ \A i \in 1..(r - p - 1) : Between(s, p, r)[i] = s[p + i]
    BY <2>1, BetweenFacts
  <2>. QED BY <2>1, <2>2, <2>3
<1>3. s[q] \in S /\ p + (q - p) = q
  BY ElementOfSeq
<1>. HIDE DEF a, b
<1>4. /\ Append(a, s[q]) \in Seq(S) /\ Len(Append(a, s[q])) = q - p
      /\ \A i \in 1..(q - p - 1) : Append(a, s[q])[i] = a[i]
      /\ Append(a, s[q])[q - p] = s[q]
  BY <1>1, <1>3, AppendProperties
<1>5. \A i \in 1..(q - p) : b[i] = Append(a, s[q])[i]
  <2>1. \A i \in 1..(q - p) : i \in 1..(q - p - 1) \/ i = q - p
    OBVIOUS
  <2>. QED BY <1>1, <1>2, <1>3, <1>4, <2>1
<1>6. b = Append(a, s[q])
  BY <1>2, <1>4, <1>5, SeqEqual
<1>. QED BY <1>6 DEF a, b

LEMMA LastPart ==
    ASSUME NEW T, NEW parts \in Seq(T), parts # <<>>, NEW part \in T
    PROVE  /\ Append(Front(parts), part) \in Seq(T)
           /\ Append(Front(parts), part) # <<>>
           /\ Len(Append(Front(parts), part)) = Len(parts)
           /\ \A i \in 1..(Len(parts) - 1) : Append(Front(parts), part)[i] = parts[i]
           /\ Append(Front(parts), part)[Len(parts)] = part
<1>1. Len(parts) \in Nat \ {0}
  BY EmptySeq
<1>2. /\ Front(parts) \in Seq(T) /\ Len(Front(parts)) = Len(parts) - 1
      /\ \A i \in 1..(Len(parts) - 1) : Front(parts)[i] = parts[i]
  <2>1. \A i \in 1..(Len(parts) - 1) : parts[i] \in T
    BY <1>1, ElementOfSeq
  <2>. DEFINE k == Len(parts) - 1
  <2>2. k \in Nat /\ k = Len(parts) - 1
    BY <1>1
  <2>. HIDE DEF k
  <2>3. /\ SubSeq(parts, 1, k) \in Seq(T)
        /\ Len(SubSeq(parts, 1, k)) = IF 1 <= k THEN k - 1 + 1 ELSE 0
        /\ \A i \in 1..(k - 1 + 1) : SubSeq(parts, 1, k)[i] = parts[1 + i - 1]
    BY <2>1, <2>2, SubSeqProperties
  <2>4. /\ (IF 1 <= k THEN k - 1 + 1 ELSE 0) = k /\ k - 1 + 1 = k
        /\ \A i \in 1..k : 1 + i - 1 = i
    BY <2>2
  <2>5. Front(parts) = SubSeq(parts, 1, k)
    BY <2>2 DEF Front
  <2>. QED BY <2>2, <2>3, <2>4, <2>5
<1>. HIDE DEF Front
<1>. QED BY <1>1, <1>2, AppendProperties

LEMMA NextCut ==
    ASSUME NEW S, NEW s \in Seq(S), NEW at \in SUBSET Int, NEW m \in 1..Len(s),
           NEW parts \in Seq(Seq(S)), NEW e, CutBy(e, parts, s, at, m)
    PROVE  LET more == NextParts(parts, s[m], m \in at)
           IN  more \in Seq(Seq(S)) /\ \E d : CutBy(d, more, s, at, m + 1)
<1>. DEFINE n == Len(parts)
            more == NextParts(parts, s[m], m \in at)
<1>1. /\ parts # <<>> /\ e \in [0..n -> 0..m] /\ e[0] = 0 /\ e[n] = m
      /\ \A i, j \in 0..n : i < j => e[i] < e[j]
      /\ \A i \in 1..(n - 1) : e[i] \in at
      /\ \A p \in at : 0 < p /\ p < m => \E i \in 1..(n - 1) : e[i] = p
      /\ \A i \in 1..n : parts[i] = Between(s, e[i - 1], e[i])
  BY DEF CutBy
<1>2. n \in Nat \ {0} /\ s[m] \in S /\ m \in Nat \ {0} /\ m <= Len(s) /\ Len(s) \in Nat
  BY <1>1, EmptySeq, ElementOfSeq
<1>. DEFINE T == Seq(S)
<1>3. /\ n \in 1..n /\ n - 1 \in 0..n /\ n \in 0..n
      /\ e[n - 1] \in Nat /\ e[n - 1] < m /\ parts[n] = Between(s, e[n - 1], m)
  <2>1. n \in 1..n /\ n - 1 \in 0..n /\ n \in 0..n /\ n - 1 < n
    BY <1>2
  <2>. HIDE DEF n
  <2>2. e[n - 1] \in 0..m /\ e[n - 1] < e[n] /\ parts[n] = Between(s, e[n - 1], e[n])
    BY <1>1, <2>1
  <2>. QED BY <1>1, <1>2, <2>1, <2>2
<1>4. <<>> \in T /\ parts \in Seq(T)
  OBVIOUS
<1>5. CASE m \in at
  <2>1. more = Append(parts, <<>>)
    BY <1>5 DEF NextParts
  <2>2. /\ more \in Seq(Seq(S)) /\ more # <<>> /\ Len(more) = n + 1
        /\ (\A i \in 1..n : more[i] = parts[i]) /\ more[n + 1] = <<>>
    <3>. HIDE DEF T, more
    <3>1. /\ Append(parts, <<>>) \in Seq(T) /\ Append(parts, <<>>) # <<>>
          /\ Len(Append(parts, <<>>)) = n + 1
          /\ \A i \in 1..n : Append(parts, <<>>)[i] = parts[i]
          /\ Append(parts, <<>>)[n + 1] = <<>>
      BY <1>4, AppendProperties
    <3>. QED BY <2>1, <3>1 DEF T
  <2>. DEFINE d == [i \in 0..(n + 1) |-> IF i = n + 1 THEN m + 1 ELSE e[i]]
  <2>. HIDE DEF n, more
  <2>3. /\ d[n + 1] = m + 1
        /\ \A i \in 0..n : i \in 0..(n + 1) /\ i # n + 1 /\ d[i] = e[i] /\ d[i] \in 0..m
    BY <1>1, <1>2
  <2>4. d \in [0..(n + 1) -> 0..(m + 1)]
    BY <1>1, <1>2
  <2>. HIDE DEF d
  <2>5. \A i \in 0..(n + 1) : i = n + 1 \/ i \in 0..n
    BY <1>2
  <2>6. ASSUME NEW i \in 0..(n + 1), NEW j \in 0..(n + 1), i < j
        PROVE  d[i] < d[j]
    <3>1. i \in 0..n
      BY <1>2, <2>6
    <3>2. CASE j = n + 1
      BY <1>2, <2>3, <3>1, <3>2
    <3>3. CASE j \in 0..n
      BY <1>1, <2>3, <2>6, <3>1, <3>3
    <3>. QED BY <2>5, <3>2, <3>3
  <2>7. ASSUME NEW i \in 1..n
        PROVE  d[i] \in at
    <3>1. CASE i = n
      BY <1>1, <1>3, <1>5, <2>3, <3>1
    <3>2. CASE i # n
      <4>1. i \in 1..(n - 1) /\ i \in 0..n
        BY <1>2, <3>2
      <4>. QED BY <1>1, <2>3, <4>1
    <3>. QED BY <3>1, <3>2
  <2>8. ASSUME NEW p \in at, 0 < p, p < m + 1
        PROVE  \E i \in 1..n : d[i] = p
    <3>1. CASE p = m
      BY <1>1, <1>3, <2>3, <3>1
    <3>2. CASE p # m
      <4>1. p < m
        BY <1>2, <2>8, <3>2
      <4>2. PICK i \in 1..(n - 1) : e[i] = p
        BY <1>1, <2>8, <4>1
      <4>3. i \in 1..n /\ i \in 0..n
        BY <1>2
      <4>. QED BY <2>3, <4>2, <4>3
    <3>. QED BY <3>1, <3>2
  <2>9. ASSUME NEW i \in 1..(n + 1)
        PROVE  more[i] = Between(s, d[i - 1], d[i])
    <3>1. CASE i = n + 1
      <4>1. i - 1 = n /\ d[i - 1] = m /\ d[i] = m + 1
        BY <1>1, <1>2, <1>3, <2>3, <3>1
      <4>2. Between(s, m, m + 1) = <<>>
        BY <1>2, SubSeqEmpty DEF Between
      <4>. QED BY <2>2, <3>1, <4>1, <4>2
    <3>2. CASE i # n + 1
      <4>1. i \in 1..n /\ i - 1 \in 0..n /\ i \in 0..n
        BY <1>2, <3>2
      <4>2. more[i] = parts[i] /\ d[i] = e[i] /\ d[i - 1] = e[i - 1]
        BY <2>2, <2>3, <4>1
      <4>3. parts[i] = Between(s, e[i - 1], e[i])
        BY <1>1, <4>1
      <4>. QED BY <4>2, <4>3
    <3>. QED BY <3>1, <3>2
  <2>10. CutBy(d, more, s, at, m + 1)
    <3>1. 0 \in 0..n
      BY <1>2
    <3>2. d[0] = 0
      BY <1>1, <2>3, <3>1
    <3>. DEFINE l == n + 1
    <3>3. /\ more # <<>> /\ Len(more) = l /\ l - 1 = n
          /\ d \in [0..l -> 0..(m + 1)] /\ d[0] = 0 /\ d[l] = m + 1
          /\ \A i, j \in 0..l : i < j => d[i] < d[j]
          /\ \A i \in 1..l : more[i] = Between(s, d[i - 1], d[i])
      <4>1. l = n + 1
        OBVIOUS
      <4>. HIDE DEF l
      <4>2. \A i, j \in 0..l : i < j => d[i] < d[j]
        BY <2>6, <4>1
      <4>3. \A i \in 1..l : more[i] = Between(s, d[i - 1], d[i])
        BY <2>9, <4>1
      <4>4. d \in [0..l -> 0..(m + 1)] /\ d[l] = m + 1
        BY <2>3, <2>4, <4>1
      <4>5. more # <<>> /\ Len(more) = l
        BY <2>2, <4>1
      <4>6. l - 1 = n
        BY <1>2, <4>1
      <4>. QED BY <3>2, <4>2, <4>3, <4>4, <4>5, <4>6
    <3>. HIDE DEF l
    <3>. QED BY <3>3, <2>7, <2>8 DEF CutBy
  <2>. QED BY <2>2, <2>10 DEF more
<1>6. CASE m \notin at
  <2>. DEFINE part == Append(Last(parts), s[m])
  <2>1. more = Append(Front(parts), part) /\ Last(parts) = parts[n]
    BY <1>6 DEF NextParts, Last
  <2>2. part = Between(s, e[n - 1], m + 1) /\ part \in Seq(S)
    <3>1. part = Append(Between(s, e[n - 1], m), s[m])
      BY <1>3, <2>1
    <3>. DEFINE p == e[n - 1]
    <3>2. p \in Nat /\ m \in Nat /\ p < m /\ m <= Len(s)
      BY <1>2, <1>3
    <3>. HIDE DEF p
    <3>3. Between(s, p, m + 1) = Append(Between(s, p, m), s[m])
      BY <3>2, BetweenMore
    <3>4. Between(s, p, m) \in Seq(S)
      <4>1. m <= Len(s) + 1
        BY <1>2
      <4>. QED BY <3>2, <4>1, BetweenFacts
    <3>5. Append(Between(s, p, m), s[m]) \in Seq(S)
      BY <1>2, <3>4, AppendProperties
    <3>. QED BY <3>1, <3>3, <3>5 DEF p
  <2>. HIDE DEF part
  <2>3. /\ more \in Seq(Seq(S)) /\ more # <<>> /\ Len(more) = n
        /\ (\A i \in 1..(n - 1) : more[i] = parts[i]) /\ more[n] = part
    <3>1. part \in T /\ parts # <<>>
      BY <1>1, <2>2
    <3>. HIDE DEF T, more, n
    <3>2. /\ Append(Front(parts), part) \in Seq(T) /\ Append(Front(parts), part) # <<>>
          /\ Len(Append(Front(parts), part)) = Len(parts)
          /\ \A i \in 1..(Len(parts) - 1) : Append(Front(parts), part)[i] = parts[i]
          /\ Append(Front(parts), part)[Len(parts)] = part
      BY <1>4, <3>1, LastPart
    <3>3. n = Len(parts)
      BY DEF n
    <3>. QED BY <2>1, <3>2, <3>3 DEF T
  <2>. DEFINE d == [i \in 0..n |-> IF i = n THEN m + 1 ELSE e[i]]
  <2>. HIDE DEF n, more
  <2>4. /\ d[n] = m + 1
        /\ \A i \in 0..n : i # n => d[i] = e[i] /\ d[i] \in 0..m
    BY <1>1, <1>2, <1>3
  <2>5. d \in [0..n -> 0..(m + 1)]
    BY <1>1, <1>2
  <2>. HIDE DEF d
  <2>6. ASSUME NEW i \in 0..n, NEW j \in 0..n, i < j
        PROVE  d[i] < d[j]
    <3>1. i # n
      BY <1>2, <2>6
    <3>2. CASE j = n
      BY <1>2, <2>4, <3>1, <3>2
    <3>3. CASE j # n
      BY <1>1, <2>4, <2>6, <3>1, <3>3
    <3>. QED BY <3>2, <3>3
  <2>7. ASSUME NEW i \in 1..(n - 1)
        PROVE  i \in 0..n /\ d[i] = e[i] /\ d[i] \in at
    <3>1. i \in 0..n /\ i # n
      BY <1>2
    <3>. QED BY <1>1, <2>4, <3>1
  <2>8. ASSUME NEW p \in at, 0 < p, p < m + 1
        PROVE  \E i \in 1..(n - 1) : d[i] = p
    <3>1. p < m
      BY <1>2, <1>6, <2>8
    <3>2. PICK i \in 1..(n - 1) : e[i] = p
      BY <1>1, <2>8, <3>1
    <3>. QED BY <2>7, <3>2
  <2>9. ASSUME NEW i \in 1..n
        PROVE  more[i] = Between(s, d[i - 1], d[i])
    <3>1. CASE i = n
      <4>1. n - 1 # n /\ d[i - 1] = e[n - 1] /\ d[i] = m + 1
        BY <1>2, <1>3, <2>4, <3>1
      <4>. QED BY <2>2, <2>3, <3>1, <4>1
    <3>2. CASE i # n
      <4>1. i \in 1..(n - 1) /\ i - 1 \in 0..n /\ i \in 0..n /\ i - 1 # n
        BY <1>2, <3>2
      <4>2. more[i] = parts[i] /\ d[i] = e[i] /\ d[i - 1] = e[i - 1]
        BY <2>3, <2>4, <3>2, <4>1
      <4>3. parts[i] = Between(s, e[i - 1], e[i])
        BY <1>1
      <4>. QED BY <4>2, <4>3
    <3>. QED BY <3>1, <3>2
  <2>10. CutBy(d, more, s, at, m + 1)
    <3>1. 0 \in 0..n /\ 0 # n
      BY <1>2
    <3>2. d[0] = 0
      BY <1>1, <2>4, <3>1
    <3>. QED BY <3>2, <2>3, <2>4, <2>5, <2>6, <2>7, <2>8, <2>9 DEF CutBy
  <2>. QED BY <2>3, <2>10 DEF more
<1>. QED BY <1>5, <1>6

LEMMA CutAll ==
    ASSUME NEW S, NEW s \in Seq(S), NEW at \in SUBSET Int, NEW g, g[0] = <<<<>>>>,
           \A k \in 1..Len(s) : g[k] = NextParts(g[k - 1], s[k], k \in at)
    PROVE  g[Len(s)] \in Seq(Seq(S)) /\ \E e : CutBy(e, g[Len(s)], s, at, Len(s) + 1)
<1>. DEFINE P(k) == g[k] \in Seq(Seq(S)) /\ \E e : CutBy(e, g[k], s, at, k + 1)
<1>1. Len(s) \in Nat
  OBVIOUS
<1>2. P(0)
  <2>. DEFINE e == [i \in 0..1 |-> i]
              one == <<<<>>>>
  <2>1. <<>> \in Seq(S)
    OBVIOUS
  <2>2. one \in Seq(Seq(S)) /\ Len(one) = 1 /\ one # <<>> /\ one[1] = <<>>
    BY <2>1
  <2>3. e \in [0..1 -> 0..1] /\ e[0] = 0 /\ e[1] = 1
        /\ \A i, j \in 0..1 : i < j => e[i] < e[j]
    OBVIOUS
  <2>. HIDE DEF e, one
  <2>4. ASSUME NEW i \in 1..1
        PROVE  one[i] = Between(s, e[i - 1], e[i])
    <3>1. Between(s, 0, 1) = <<>>
      BY SubSeqEmpty DEF Between
    <3>2. i = 1 /\ i - 1 = 0
      OBVIOUS
    <3>. QED BY <2>2, <2>3, <3>1, <3>2
  <2>5. CutBy(e, one, s, at, 1)
    <3>1. 1..(1 - 1) = {} /\ \A p \in at : ~(0 < p /\ p < 1)
      OBVIOUS
    <3>. QED BY <2>2, <2>3, <2>4, <3>1 DEF CutBy
  <2>. QED BY <2>2, <2>5 DEF one
<1>3. ASSUME NEW k \in 1..Len(s), P(k - 1)
      PROVE  P(k)
  <2>1. k - 1 + 1 = k
    BY <1>1
  <2>. DEFINE before == g[k - 1]
  <2>2. PICK e : CutBy(e, before, s, at, k)
    BY <1>3, <2>1
  <2>3. g[k] = NextParts(before, s[k], k \in at) /\ before \in Seq(Seq(S))
    BY <1>3
  <2>. HIDE DEF before
  <2>. QED BY <2>2, <2>3, NextCut
<1>. HIDE DEF P
<1>4. ASSUME NEW n \in 0..Len(s), ~P(n) PROVE FALSE
  <2>. DEFINE T == {k \in 0..Len(s) : ~P(k)}
  <2>1. T \in SUBSET Nat /\ T # {}
    BY <1>1, <1>4
  <2>2. PICK m \in T : \A k \in T : m <= k
    BY <2>1, Least
  <2>3. m # 0
    BY <1>2
  <2>4. m \in 1..Len(s) /\ m - 1 \in 0..Len(s) /\ m - 1 \notin T
    BY <1>1, <2>2, <2>3
  <2>. QED BY <1>3, <2>4
<1>. QED BY <1>1, <1>4 DEF P

(* The cuts of a text are its ends and the positions cut at. *)
Cuts(e, parts, s, at, m) ==
    /\ Len(parts) \in Nat \ {0}
    /\ \A i \in 0..Len(parts) : e[i] \in 0..m
    /\ \A i, j \in 0..Len(parts) : i < j => e[i] < e[j]
    /\ \A i \in 1..Len(parts) :
          /\ e[i - 1] \in 0..m /\ e[i] \in 0..m /\ e[i - 1] < e[i]
          /\ e[i - 1] = 0 \/ e[i - 1] \in at
          /\ e[i] = m \/ e[i] \in at
          /\ parts[i] = Between(s, e[i - 1], e[i])
    /\ \A p \in at \cup {0, m} : 0 <= p /\ p <= m => \E i \in 0..Len(parts) : e[i] = p

LEMMA CutFacts ==
    ASSUME NEW S, NEW s, NEW parts \in Seq(S), NEW at \in SUBSET Int, NEW m \in Nat, NEW e,
           CutBy(e, parts, s, at, m)
    PROVE  Cuts(e, parts, s, at, m)
<1>. DEFINE n == Len(parts)
<1>1. /\ parts # <<>> /\ e \in [0..n -> 0..m] /\ e[0] = 0 /\ e[n] = m
      /\ \A i, j \in 0..n : i < j => e[i] < e[j]
      /\ \A i \in 1..(n - 1) : e[i] \in at
      /\ \A p \in at : 0 < p /\ p < m => \E i \in 1..(n - 1) : e[i] = p
      /\ \A i \in 1..n : parts[i] = Between(s, e[i - 1], e[i])
  BY DEF CutBy
<1>2. n \in Nat \ {0}
  BY <1>1, EmptySeq
<1>. HIDE DEF n
<1>3. ASSUME NEW i \in 1..n
      PROVE  /\ e[i - 1] \in 0..m /\ e[i] \in 0..m /\ e[i - 1] < e[i]
             /\ e[i - 1] = 0 \/ e[i - 1] \in at
             /\ e[i] = m \/ e[i] \in at
             /\ parts[i] = Between(s, e[i - 1], e[i])
  <2>1. i - 1 \in 0..n /\ i \in 0..n /\ i - 1 < i
    BY <1>2
  <2>2. i - 1 = 0 \/ i - 1 \in 1..(n - 1)
    BY <1>2
  <2>3. i = n \/ i \in 1..(n - 1)
    BY <1>2
  <2>. QED BY <1>1, <2>1, <2>2, <2>3
<1>4. ASSUME NEW p \in at \cup {0, m}, 0 <= p, p <= m
      PROVE  \E i \in 0..n : e[i] = p
  <2>1. 0 \in 0..n /\ n \in 0..n /\ \A i \in 1..(n - 1) : i \in 0..n
    BY <1>2
  <2>2. CASE p = 0 \/ p = m
    BY <1>1, <2>1, <2>2
  <2>3. CASE p # 0 /\ p # m
    <3>1. p \in at /\ 0 < p /\ p < m
      BY <1>4, <2>3
    <3>. QED BY <1>1, <2>1, <3>1
  <2>. QED BY <2>2, <2>3
<1>5. \A i \in 0..n : e[i] \in 0..m
  BY <1>1
<1>. QED BY <1>1, <1>2, <1>3, <1>4, <1>5 DEF n, Cuts

(* Two cuts without another between them bound a part. *)
LEMMA Consecutive ==
    ASSUME NEW s, NEW parts, NEW at \in SUBSET Int, NEW m \in Nat, NEW e,
           Cuts(e, parts, s, at, m),
           NEW p \in (at \cup {0}) \cap Nat, NEW q \in (at \cup {m}) \cap Nat, p < q, q <= m,
           \A r \in at : ~(p < r /\ r < q)
    PROVE  \E i \in 1..Len(parts) : e[i - 1] = p /\ e[i] = q
<1>. DEFINE n == Len(parts)
<1>1. /\ n \in Nat \ {0}
      /\ \A i \in 0..n : e[i] \in 0..m
      /\ \A i, j \in 0..n : i < j => e[i] < e[j]
      /\ \A i \in 1..n : e[i] = m \/ e[i] \in at
  BY DEF Cuts
<1>2. (\E i \in 0..n : e[i] = p) /\ \E i \in 0..n : e[i] = q
  <2>1. p \in at \cup {0, m} /\ 0 <= p /\ p <= m /\ q \in at \cup {0, m} /\ 0 <= q /\ q <= m
    OBVIOUS
  <2>. QED BY <2>1 DEF Cuts
<1>. HIDE DEF n
<1>3. PICK i \in 0..n : e[i] = p
  BY <1>2
<1>4. PICK j \in 0..n : e[j] = q
  BY <1>2
<1>5. i < j
  <2>1. CASE j < i
    BY <1>1, <1>3, <1>4, <2>1
  <2>2. CASE i = j
    BY <1>3, <1>4, <2>2
  <2>. QED BY <2>1, <2>2
<1>6. j = i + 1
  <2>. SUFFICES ASSUME i + 1 < j PROVE FALSE
    BY <1>5
  <2>. DEFINE k == i + 1
  <2>1. k \in 0..n /\ k \in 1..n /\ i < k /\ k < j
    BY <1>1
  <2>. HIDE DEF k
  <2>2. e[k] \in 0..m /\ p < e[k] /\ e[k] < q
    BY <1>1, <1>3, <1>4, <2>1
  <2>3. e[k] \in at /\ e[k] \in Nat
    BY <1>1, <2>1, <2>2
  <2>. QED BY <2>2, <2>3
<1>7. j \in 1..n /\ j - 1 = i
  BY <1>6
<1>. QED BY <1>3, <1>4, <1>7 DEF n

(* strings.Split cuts at each separator and nowhere else. *)
LEMMA SplitCuts ==
    ASSUME NEW S, NEW s \in Seq(S), NEW c, c \notin NotSplits
    PROVE  LET at == {i \in 1..Len(s) : s[i] = c}
           IN  /\ Req!Split(s, c) \in Seq(Seq(S))
               /\ \E e : Cuts(e, Req!Split(s, c), s, at, Len(s) + 1)
<1>. DEFINE at == {i \in 1..Len(s) : s[i] = c}
<1>1. DOMAIN s = 1..Len(s) /\ Len(s) \in Nat /\ Len(s) + 1 \in Nat
  OBVIOUS
<1>2. PICK f : Reaches(f, c, <<<<>>>>, s) /\ Req!Split(s, c) = f[Len(s)]
  BY <1>1, SplitReaches
<1>3. ASSUME NEW k \in 1..Len(s)
      PROVE  f[k] = NextParts(f[k - 1], s[k], k \in at)
  <2>1. (s[k] = c) = (k \in at)
    BY <1>1
  <2>2. f[k] = NextParts(f[k - 1], s[k], s[k] = c)
    BY <1>2 DEF Reaches, Step, NotSplits
  <2>. QED BY <2>1, <2>2
<1>4. f[0] = <<<<>>>> /\ at \in SUBSET Int
  BY <1>1, <1>2 DEF Reaches
<1>5. f[Len(s)] \in Seq(Seq(S)) /\ \E e : CutBy(e, f[Len(s)], s, at, Len(s) + 1)
  BY <1>3, <1>4, CutAll
<1>6. PICK e : CutBy(e, f[Len(s)], s, at, Len(s) + 1)
  BY <1>5
<1>. DEFINE parts == f[Len(s)]
            T == Seq(S)
            m == Len(s) + 1
<1>7. parts \in Seq(T) /\ at \in SUBSET Int /\ m \in Nat /\ CutBy(e, parts, s, at, m)
  BY <1>1, <1>5, <1>6
<1>. HIDE DEF parts, at, T, m
<1>8. Cuts(e, parts, s, at, m)
  BY <1>7, CutFacts
<1>. QED BY <1>2, <1>5, <1>8 DEF parts, m, at

-----------------------------------------------------------------------------
(* strings.Trim. *)

LEMMA GreatestOf ==
    ASSUME NEW n \in Nat, NEW T \in SUBSET (1..n), T # {}
    PROVE  Max(T) \in T /\ \A k \in T : k <= Max(T)
<1>1. T \in SUBSET Nat /\ HasMax(T)
  BY IntervalMax
<1>2. PICK g \in T : \A k \in T : k <= g
  BY <1>1 DEF HasMax
<1>3. Max(T) = g
  BY <1>1, <1>2, MaxIs
<1>. QED BY <1>2, <1>3

LEMMA TrimFacts ==
    ASSUME NEW S, NEW t \in Seq(S), NEW c
    PROVE  \/ Req!Trim(t, c) = <<>> /\ \A k \in 1..Len(t) : t[k] = c
           \/ \E a, b \in 1..Len(t) :
                /\ a <= b /\ t[a] # c /\ t[b] # c
                /\ \A k \in 1..Len(t) : k < a \/ b < k => t[k] = c
                /\ Req!Trim(t, c) = SubSeq(t, a, b)
<1>. DEFINE kept == {i \in DOMAIN t : t[i] # c}
            n == Len(t)
<1>1. DOMAIN t = 1..n /\ n \in Nat
  OBVIOUS
<1>2. Req!Trim(t, c) = IF kept = {} THEN <<>> ELSE SubSeq(t, Min(kept), Max(kept))
  BY DEF Req!Trim, Req!Min, Req!Max, Min, Max
<1>3. kept \in SUBSET (1..n) /\ kept \in SUBSET Nat
  BY <1>1
<1>4. \A k \in 1..n : k \in kept <=> t[k] # c
  BY <1>1
<1>. HIDE DEF kept, n
<1>5. CASE kept = {}
  BY <1>2, <1>4, <1>5 DEF n
<1>6. CASE kept # {}
  <2>1. Min(kept) \in kept /\ \A k \in kept : Min(kept) <= k
    BY <1>3, <1>6, Least
  <2>2. Max(kept) \in kept /\ \A k \in kept : k <= Max(kept)
    BY <1>1, <1>3, <1>6, GreatestOf
  <2>. DEFINE a == Min(kept)
              b == Max(kept)
  <2>3. a \in 1..n /\ b \in 1..n /\ a <= b /\ t[a] # c /\ t[b] # c
    BY <1>3, <1>4, <2>1, <2>2
  <2>4. \A k \in 1..n : k < a \/ b < k => t[k] = c
    <3>. HIDE DEF a, b
    <3>1. a \in Nat /\ b \in Nat
      BY <2>3
    <3>2. \A k \in kept : a <= k /\ k <= b
      BY <2>1, <2>2 DEF a, b
    <3>. QED BY <1>4, <2>3, <3>1, <3>2
  <2>5. Req!Trim(t, c) = SubSeq(t, a, b)
    BY <1>2, <1>6
  <2>. HIDE DEF a, b
  <2>. QED BY <2>3, <2>4, <2>5 DEF n
<1>. QED BY <1>5, <1>6

(* One word, with nothing but blanks around it. *)
IsWord(t, word, blank) ==
    \E x \in 1..Len(t) : t[x] = word /\ \A y \in 1..Len(t) : y # x => t[y] = blank

(* One word is left when everything else is trimmed. *)
LEMMA TrimsToWord ==
    ASSUME NEW S, NEW t \in Seq(S), NEW c, NEW w, w # c
    PROVE  Req!Trim(t, c) = <<w>> <=> IsWord(t, w, c)
<1>. DEFINE n == Len(t)
<1>1. n \in Nat
  OBVIOUS
<1>. HIDE DEF n
<1>2. CASE Req!Trim(t, c) = <<>> /\ \A k \in 1..n : t[k] = c
  <2>1. <<w>> # <<>>
    OBVIOUS
  <2>. QED BY <1>2, <2>1 DEF n, IsWord
<1>3. ASSUME NEW a \in 1..n, NEW b \in 1..n, a <= b, t[a] # c, t[b] # c,
             \A k \in 1..n : k < a \/ b < k => t[k] = c,
             Req!Trim(t, c) = SubSeq(t, a, b)
      PROVE  Req!Trim(t, c) = <<w>> <=>
                 \E x \in 1..n : t[x] = w /\ \A y \in 1..n : y # x => t[y] = c
  <2>1. /\ SubSeq(t, a, b) \in Seq(S) /\ Len(SubSeq(t, a, b)) = b - a + 1
        /\ \A i \in 1..(b - a + 1) : SubSeq(t, a, b)[i] = t[a + i - 1]
    <3>1. a \in Int /\ b \in Int /\ a <= b /\ \A i \in a..b : t[i] \in S
      BY <1>1, <1>3, ElementOfSeq DEF n
    <3>. QED BY <3>1, SubSeqProperties
  <2>2. ASSUME Req!Trim(t, c) = <<w>>
        PROVE  \E x \in 1..n : t[x] = w /\ \A y \in 1..n : y # x => t[y] = c
    <3>1. Len(SubSeq(t, a, b)) = 1 /\ SubSeq(t, a, b)[1] = w
      BY <1>3, <2>2
    <3>2. a = b /\ t[a] = w
      BY <1>1, <1>3, <2>1, <3>1
    <3>3. \A y \in 1..n : y # a => t[y] = c
      BY <1>1, <1>3, <3>2
    <3>. QED BY <3>2, <3>3
  <2>3. ASSUME NEW x \in 1..n, t[x] = w, \A y \in 1..n : y # x => t[y] = c
        PROVE  Req!Trim(t, c) = <<w>>
    <3>1. a = x /\ b = x
      BY <1>3, <2>3
    <3>2. SubSeq(t, a, b) \in Seq(S) /\ Len(SubSeq(t, a, b)) = 1 /\ SubSeq(t, a, b)[1] = w
      BY <1>1, <2>1, <2>3, <3>1
    <3>. DEFINE u == SubSeq(t, a, b)
    <3>. HIDE DEF u
    <3>3. u \in Seq(S) /\ Len(u) = 1 /\ u[1] = w
      BY <3>2 DEF u
    <3>4. u = <<w>>
      BY <3>3
    <3>. QED BY <1>3, <3>4 DEF u
  <2>. QED BY <2>2, <2>3
<1>. QED BY <1>2, <1>3, TrimFacts DEF n, IsWord

-----------------------------------------------------------------------------
(* Options. *)

(* A word stands at i, with nothing but blanks up to the separators around it. *)
StandsAlone(o, word, sep, blank, i) ==
    /\ o[i] = word
    /\ \E p \in 0..(i - 1) :
        (p = 0 \/ o[p] = sep) /\ \A k \in (p + 1)..(i - 1) : o[k] = blank
    /\ \E q \in (i + 1)..(Len(o) + 1) :
        (q = Len(o) + 1 \/ o[q] = sep) /\ \A k \in (i + 1)..(q - 1) : o[k] = blank

LEMMA PartAlone ==
    ASSUME NEW S, NEW o \in Seq(S), NEW t, NEW word, NEW sep, NEW blank, NEW p \in Nat, NEW q \in Nat,
           p < q, q <= Len(o) + 1, p = 0 \/ o[p] = sep, q = Len(o) + 1 \/ o[q] = sep,
           Len(t) = q - p - 1, \A x \in 1..(q - p - 1) : t[x] = o[p + x], IsWord(t, word, blank)
    PROVE  \E j \in 1..Len(o) : StandsAlone(o, word, sep, blank, j)
<1>. DEFINE n == Len(o)
<1>1. n \in Nat
  OBVIOUS
<1>. HIDE DEF n
<1>2. PICK x \in 1..(q - p - 1) : t[x] = word /\ \A y \in 1..(q - p - 1) : y # x => t[y] = blank
  BY DEF IsWord
<1>. DEFINE j == p + x
<1>3. x \in Int /\ 1 <= x /\ x <= q - p - 1 /\ j = p + x
  OBVIOUS
<1>. HIDE DEF j
<1>4. j \in Int /\ 1 <= j /\ p < j /\ j < q /\ j <= n
  BY <1>1, <1>3 DEF n
<1>5. o[j] = word
  BY <1>2, <1>3
<1>6. ASSUME NEW k \in Int, p < k, k < q, k # j
      PROVE  o[k] = blank
  <2>. DEFINE y == k - p
  <2>1. y \in 1..(q - p - 1) /\ y # x /\ p + y = k
    BY <1>3, <1>6
  <2>. HIDE DEF y
  <2>. QED BY <1>2, <2>1
<1>7. p \in 0..(j - 1) /\ \A k \in (p + 1)..(j - 1) : o[k] = blank
  BY <1>4, <1>6
<1>8. q \in (j + 1)..(n + 1) /\ \A k \in (j + 1)..(q - 1) : o[k] = blank
  BY <1>1, <1>4, <1>6 DEF n
<1>9. j \in 1..n
  BY <1>1, <1>4
<1>. QED BY <1>5, <1>7, <1>8, <1>9 DEF StandsAlone, n

LEMMA AlonePart ==
    ASSUME NEW S, NEW o \in Seq(S), NEW t, NEW word, NEW sep, NEW blank, NEW p \in Nat, NEW q \in Nat, NEW j \in Nat,
           p < j, j < q, o[j] = word,
           \A k \in (p + 1)..(j - 1) : o[k] = blank, \A k \in (j + 1)..(q - 1) : o[k] = blank,
           Len(t) = q - p - 1, \A x \in 1..(q - p - 1) : t[x] = o[p + x]
    PROVE  IsWord(t, word, blank)
<1>. DEFINE x == j - p
<1>1. x \in 1..(q - p - 1) /\ p + x = j
  OBVIOUS
<1>. HIDE DEF x
<1>2. t[x] = word
  BY <1>1
<1>3. ASSUME NEW y \in 1..(q - p - 1), y # x
      PROVE  t[y] = blank
  <2>. DEFINE k == p + y
  <2>1. k \in (p + 1)..(j - 1) \/ k \in (j + 1)..(q - 1)
    BY <1>1, <1>3
  <2>. HIDE DEF k
  <2>2. o[k] = blank
    BY <2>1
  <2>. QED BY <2>2 DEF k
<1>. QED BY <1>1, <1>2, <1>3 DEF IsWord

LEMMA NothingBetween ==
    ASSUME NEW o, NEW word, NEW sep, NEW blank, sep # word, sep # blank,
           NEW p \in Nat, NEW q \in Nat, NEW j \in Nat, p < j, j < q, o[j] = word,
           \A k \in (p + 1)..(j - 1) : o[k] = blank, \A k \in (j + 1)..(q - 1) : o[k] = blank,
           NEW r \in Nat, o[r] = sep
    PROVE  ~(p < r /\ r < q)
<1>. SUFFICES ASSUME p < r, r < q PROVE FALSE
  OBVIOUS
<1>1. r \in (p + 1)..(j - 1) \/ r = j \/ r \in (j + 1)..(q - 1)
  OBVIOUS
<1>. QED BY <1>1

(* A part of a text and the text between two cuts. *)
LEMMA PartFacts ==
    ASSUME NEW S, NEW s \in Seq(S), NEW parts, NEW at, NEW e,
           Cuts(e, parts, s, at, Len(s) + 1), NEW i \in 1..Len(parts)
    PROVE  LET p == e[i - 1]
               q == e[i]
           IN  /\ p \in Nat /\ q \in Nat /\ p < q /\ q <= Len(s) + 1
               /\ p = 0 \/ p \in at
               /\ q = Len(s) + 1 \/ q \in at
               /\ parts[i] = Between(s, p, q)
               /\ Len(parts[i]) = q - p - 1
               /\ \A x \in 1..(q - p - 1) : parts[i][x] = s[p + x]
<1>. DEFINE p == e[i - 1]
            q == e[i]
<1>1. /\ p \in 0..(Len(s) + 1) /\ q \in 0..(Len(s) + 1) /\ p < q
      /\ p = 0 \/ p \in at
      /\ q = Len(s) + 1 \/ q \in at
      /\ parts[i] = Between(s, p, q)
  BY DEF Cuts
<1>. HIDE DEF p, q
<1>2. p \in Nat /\ q \in Nat /\ p < q /\ q <= Len(s) + 1
  BY <1>1
<1>3. /\ Len(Between(s, p, q)) = q - p - 1
      /\ \A x \in 1..(q - p - 1) : Between(s, p, q)[x] = s[p + x]
  BY <1>2, BetweenFacts
<1>. QED BY <1>1, <1>2, <1>3 DEF p, q

(* A part that trims to a word is one that stands alone. *)
LEMMA TrimmedParts ==
    ASSUME NEW S, NEW o \in Seq(S), NEW word, NEW sep, NEW blank,
           sep \notin NotSplits, sep # word, sep # blank, word # blank
    PROVE  (\E part \in Range(Req!Split(o, sep)) : Req!Trim(part, blank) = <<word>>) <=>
               \E j \in DOMAIN o : StandsAlone(o, word, sep, blank, j)
<1>. DEFINE parts == Req!Split(o, sep)
            at == {i \in 1..Len(o) : o[i] = sep}
<1>1. parts \in Seq(Seq(S)) /\ \E e : Cuts(e, parts, o, at, Len(o) + 1)
  BY SplitCuts
<1>2. PICK e : Cuts(e, parts, o, at, Len(o) + 1)
  BY <1>1
<1>3. DOMAIN parts = 1..Len(parts) /\ \A i \in 1..Len(parts) : parts[i] \in Seq(S)
  <2>. DEFINE T == Seq(S)
  <2>1. parts \in Seq(T)
    BY <1>1
  <2>. HIDE DEF T, parts
  <2>2. DOMAIN parts = 1..Len(parts) /\ \A i \in 1..Len(parts) : parts[i] \in T
    BY <2>1
  <2>. QED BY <2>2 DEF T
<1>4. /\ Len(o) \in Nat /\ Len(o) + 1 \in Nat /\ DOMAIN o = 1..Len(o)
      /\ at \in SUBSET Int /\ \A i : i \in at <=> i \in 1..Len(o) /\ o[i] = sep
  OBVIOUS
<1>. HIDE DEF parts, at
<1>5. (\E part \in Range(parts) : Req!Trim(part, blank) = <<word>>) <=>
          \E i \in 1..Len(parts) : IsWord(parts[i], word, blank)
  <2>1. ASSUME NEW i \in 1..Len(parts)
        PROVE  Req!Trim(parts[i], blank) = <<word>> <=> IsWord(parts[i], word, blank)
    <3>. DEFINE t == parts[i]
    <3>1. t \in Seq(S)
      BY <1>3
    <3>. HIDE DEF t
    <3>2. Req!Trim(t, blank) = <<word>> <=> IsWord(t, word, blank)
      BY <3>1, TrimsToWord
    <3>. QED BY <3>2 DEF t
  <2>. QED BY <1>3, <2>1 DEF Range
<1>6. ASSUME NEW i \in 1..Len(parts), IsWord(parts[i], word, blank)
      PROVE  \E j \in 1..Len(o) : StandsAlone(o, word, sep, blank, j)
  <2>. DEFINE p == e[i - 1]
              q == e[i]
              t == parts[i]
  <2>1. /\ p \in Nat /\ q \in Nat /\ p < q /\ q <= Len(o) + 1
        /\ p = 0 \/ p \in at
        /\ q = Len(o) + 1 \/ q \in at
        /\ Len(t) = q - p - 1
        /\ \A x \in 1..(q - p - 1) : t[x] = o[p + x]
    BY <1>2, PartFacts
  <2>2. IsWord(t, word, blank)
    BY <1>6
  <2>. HIDE DEF p, q, t
  <2>3. (p = 0 \/ o[p] = sep) /\ (q = Len(o) + 1 \/ o[q] = sep)
    BY <1>4, <2>1
  <2>. QED BY <2>1, <2>2, <2>3, PartAlone
<1>7. ASSUME NEW j \in 1..Len(o), StandsAlone(o, word, sep, blank, j)
      PROVE  \E i \in 1..Len(parts) : IsWord(parts[i], word, blank)
  <2>1. o[j] = word /\ j \in Nat /\ j <= Len(o) /\ j >= 1
    BY <1>4, <1>7 DEF StandsAlone
  <2>2. PICK p \in 0..(j - 1) :
            (p = 0 \/ o[p] = sep) /\ \A k \in (p + 1)..(j - 1) : o[k] = blank
    BY <1>7 DEF StandsAlone
  <2>3. PICK q \in (j + 1)..(Len(o) + 1) :
            (q = Len(o) + 1 \/ o[q] = sep) /\ \A k \in (j + 1)..(q - 1) : o[k] = blank
    BY <1>7 DEF StandsAlone
  <2>4. p \in Nat /\ q \in Nat /\ p < j /\ j < q /\ q <= Len(o) + 1 /\ p < q
    BY <1>4, <2>1, <2>2, <2>3
  <2>5. p \in at \cup {0}
    <3>1. p # 0 => p \in 1..Len(o)
      BY <1>4, <2>1, <2>4
    <3>. QED BY <1>4, <2>2, <3>1
  <2>6. q \in at \cup {Len(o) + 1}
    <3>1. q # Len(o) + 1 => q \in 1..Len(o)
      BY <1>4, <2>1, <2>4
    <3>. QED BY <1>4, <2>3, <3>1
  <2>7. \A r \in at : ~(p < r /\ r < q)
    <3>1. \A r \in at : r \in Nat /\ o[r] = sep
      BY <1>4
    <3>. QED BY <2>1, <2>2, <2>3, <2>4, <3>1, NothingBetween
  <2>8. PICK i \in 1..Len(parts) : e[i - 1] = p /\ e[i] = q
    <3>. DEFINE m == Len(o) + 1
    <3>1. Cuts(e, parts, o, at, m) /\ m \in Nat /\ at \in SUBSET Int
      BY <1>2, <1>4
    <3>2. p \in (at \cup {0}) \cap Nat /\ q \in (at \cup {m}) \cap Nat /\ p < q /\ q <= m
      BY <2>4, <2>5, <2>6
    <3>. HIDE DEF m
    <3>. QED BY <2>7, <3>1, <3>2, Consecutive
  <2>9. Len(parts[i]) = q - p - 1 /\ \A x \in 1..(q - p - 1) : parts[i][x] = o[p + x]
    <3>. DEFINE a == e[i - 1]
                b == e[i]
    <3>1. /\ Len(parts[i]) = b - a - 1
          /\ \A x \in 1..(b - a - 1) : parts[i][x] = o[a + x]
      BY <1>2, PartFacts
    <3>2. a = p /\ b = q
      BY <2>8
    <3>. HIDE DEF a, b
    <3>. QED BY <3>1, <3>2
  <2>10. IsWord(parts[i], word, blank)
    <3>. DEFINE t == parts[i]
    <3>1. Len(t) = q - p - 1 /\ \A x \in 1..(q - p - 1) : t[x] = o[p + x]
      BY <2>9
    <3>. HIDE DEF t
    <3>2. IsWord(t, word, blank)
      BY <2>1, <2>2, <2>3, <2>4, <3>1, AlonePart
    <3>. QED BY <3>2 DEF t
  <2>. QED BY <2>10
<1>. QED BY <1>4, <1>5, <1>6, <1>7 DEF parts

(* HasBindOption finds "bind" wherever it stands as an option of its own, and
   nothing else (VolumeBindDevice, mounts.go:157-190), in option lists of any
   length. *)
THEOREM EveryOptionRead ==
    ASSUME NEW S, NEW o \in Seq(S)
    PROVE  Req!FindsBindOption(o)
<1>1. "," \notin NotSplits /\ "," # "bind" /\ "," # " " /\ "bind" # " "
  BY DEF NotSplits
<1>2. (\E part \in Range(Req!Split(o, ",")) : Req!Trim(part, " ") = <<"bind">>) <=>
          \E j \in DOMAIN o : StandsAlone(o, "bind", ",", " ", j)
  BY <1>1, TrimmedParts, ZenonT(60)
<1>. QED BY <1>2, ZenonT(60) DEF Req!FindsBindOption, Req!HasBindOption, Req!Range, Range, StandsAlone

(* The texts of MCTexts are sequences. *)
Tokens ==
    {"/", "v", ".", "1", "volumes", "containers", "exec"} \cup UNION {Alphabet[k] : k \in Kinds}

TextInv == text \in Seq(Tokens)

LEMMA TextAlways == Spec => []TextInv
<1>1. \A k \in Kinds : Beginnings(k) \in SUBSET Seq(Tokens) /\ Alphabet[k] \in SUBSET Tokens
  <2>1. ASSUME NEW k \in Kinds
        PROVE  Beginnings(k) \in SUBSET Seq(Tokens)
    <3>1. /\ "/" \in Tokens /\ "v" \in Tokens /\ "." \in Tokens /\ "1" \in Tokens
          /\ "volumes" \in Tokens /\ "containers" \in Tokens /\ "exec" \in Tokens
      BY Zenon DEF Tokens
    <3>2. <<>> \in Seq(Tokens) /\ \A a \in Tokens : <<a>> \in Seq(Tokens)
      OBVIOUS
    <3>3. \A a, b \in Tokens : <<a, b>> \in Seq(Tokens)
      OBVIOUS
    <3>4. \A a, b, c, d \in Tokens : <<a, b, c, d>> \in Seq(Tokens)
      OBVIOUS
    <3>5. \A a, b, c, d, e, f \in Tokens : <<a, b, c, d, e, f>> \in Seq(Tokens)
      OBVIOUS
    <3>6. <<"v">> \in Seq(Tokens) /\ <<"/", "volumes">> \in Seq(Tokens)
      BY <3>1, <3>2, <3>3, Zenon
    <3>7. <<"/", "v", "1", "/">> \in Seq(Tokens)
      BY <3>1, <3>4, Zenon
    <3>8. /\ <<"v", "1", ".", "1", "/", "volumes">> \in Seq(Tokens)
          /\ <<"/", "containers", "/", "1", "/", "exec">> \in Seq(Tokens)
      BY <3>1, <3>5, Zenon
    <3>. QED BY <3>2, <3>6, <3>7, <3>8, Zenon DEF Beginnings
  <2>2. ASSUME NEW k \in Kinds
        PROVE  Alphabet[k] \in SUBSET Tokens
    BY DEF Tokens
  <2>. QED BY <2>1, <2>2
<1>2. Init => TextInv /\ kind \in Kinds
  BY <1>1 DEF Init, TextInv
<1>3. TextInv /\ kind \in Kinds /\ [Next]_<<kind, text, room>> => (TextInv /\ kind \in Kinds)'
  <2>. SUFFICES ASSUME TextInv, kind \in Kinds, [Next]_<<kind, text, room>>
                PROVE  (TextInv /\ kind \in Kinds)'
    OBVIOUS
  <2>1. CASE Next
    <3>1. PICK t \in Alphabet[kind] : text' = Append(text, t)
      BY <2>1 DEF Next
    <3>2. t \in Tokens /\ text \in Seq(Tokens)
      BY <1>1 DEF TextInv
    <3>3. Append(text, t) \in Seq(Tokens)
      BY <3>2
    <3>. QED BY <2>1, <3>1, <3>3 DEF Next, TextInv
  <2>2. CASE UNCHANGED <<kind, text, room>>
    BY <2>2 DEF TextInv
  <2>. QED BY <2>1, <2>2
<1>. QED BY <1>2, <1>3, PTL DEF Spec

(* The same of the texts of the run. *)
THEOREM OptionsFound == Spec => []OptionsAreFound
<1>1. TextInv => OptionsAreFound
  BY EveryOptionRead DEF TextInv, OptionsAreFound
<1>. QED BY <1>1, TextAlways, PTL

-----------------------------------------------------------------------------
(* Subjects. *)

Start == [parts |-> <<>>, current |-> <<>>, escaped |-> FALSE]

LEMMA ScanReaches ==
    ASSUME NEW add, DOMAIN add = 1..Len(add), Len(add) \in Nat
    PROVE  \E f : /\ Reaches(f, "subject", Start, add)
                  /\ DN!splitOnUnescapedCommas(add)
                        = Append(f[Len(add)].parts, f[Len(add)].current)
<1>. DEFINE W(h) == h = [s \in SUBSET DOMAIN add |->
                            IF s = {} THEN Start ELSE DN!Scan(h[s \ {Max(s)}], add[Max(s)])]
            C == CHOOSE h : W(h)
            F(h) == Append(h[DOMAIN add].parts, h[DOMAIN add].current)
<1>. HIDE DEF DN!Scan
<1>1. DN!splitOnUnescapedCommas(add) = F(C)
  BY DEF DN!splitOnUnescapedCommas, DN!FoldLeft, DN!MapThenFoldSet, DN!Max, Max, Start
<1>2. ASSUME NEW h
      PROVE  W(h) <=> Iterates(h, "subject", Start, add, Len(add))
  <2>1. \A x, t : Step("subject", x, t) = DN!Scan(x, t)
    BY DEF Step
  <2>2. [s \in SUBSET DOMAIN add |->
            IF s = {} THEN Start ELSE DN!Scan(h[s \ {Max(s)}], add[Max(s)])]
        = [s \in SUBSET (1..Len(add)) |->
            IF s = {} THEN Start ELSE Step("subject", h[s \ {Max(s)}], add[Max(s)])]
    BY <2>1
  <2>. QED BY <2>2 DEF Iterates
<1>. HIDE DEF W
<1>3. \E h : W(h)
  BY <1>2, IteratesExists
<1>4. W(C)
  BY <1>3
<1>5. PICK f : Reaches(f, "subject", Start, add) /\ f[Len(add)] = C[1..Len(add)]
  BY <1>2, <1>4, IteratesReaches
<1>. QED BY <1>1, <1>5

(* The backslashes just before a place, one token later. *)
LEMMA BackslashesNext ==
    ASSUME NEW s, NEW i \in Nat \ {0}
    PROVE  LET b == DN!BackslashesBefore(s, i)
               c == DN!BackslashesBefore(s, i + 1)
           IN  /\ b \in SUBSET (1..(i - 1))
               /\ s[i] = DN!Backslash => c = b \cup {i}
               /\ s[i] # DN!Backslash => c = {}
<1>. DEFINE B == DN!Backslash
            b == {k \in 1..(i - 1) : \A j \in k..(i - 1) : s[j] = B}
            c == {k \in 1..i : \A j \in k..i : s[j] = B}
<1>1. DN!BackslashesBefore(s, i) = b
  BY DEF DN!BackslashesBefore
<1>2. DN!BackslashesBefore(s, i + 1) = c
  <2>1. i + 1 - 1 = i
    OBVIOUS
  <2>2. i + 1 \in Nat /\ (i + 1) - 1 = i
    OBVIOUS
  <2>. QED BY <2>2 DEF DN!BackslashesBefore
<1>. HIDE DEF B
<1>3. ASSUME s[i] = B
      PROVE  c = b \cup {i}
  <2>1. \A k \in 1..i : k = i \/ k \in 1..(i - 1)
    OBVIOUS
  <2>2. \A k \in 1..(i - 1) : k \in 1..i /\ k..i = (k..(i - 1)) \cup {i}
    OBVIOUS
  <2>3. i \in 1..i /\ i..i = {i}
    OBVIOUS
  <2>. QED BY <1>3, <2>1, <2>2, <2>3
<1>4. ASSUME s[i] # B
      PROVE  c = {}
  <2>1. \A k \in 1..i : i \in k..i
    OBVIOUS
  <2>. QED BY <1>4, <2>1
<1>. QED BY <1>1, <1>2, <1>3, <1>4 DEF B

Odd(n) == n % 2 = 1

(* Whether a token is escaped, of the texts the scan goes through. *)
EscapedAt(s, i) == Odd(Cardinality(DN!BackslashesBefore(s, i)))

LEMMA EscapedNext ==
    ASSUME NEW s, NEW i \in Nat \ {0}
    PROVE  /\ EscapedAt(s, i + 1) <=> (s[i] = DN!Backslash /\ ~EscapedAt(s, i))
           /\ DN!Cardinality(DN!BackslashesBefore(s, i)) % 2 = 0 <=> ~EscapedAt(s, i)
<1>. DEFINE b == DN!BackslashesBefore(s, i)
            c == DN!BackslashesBefore(s, i + 1)
<1>1. /\ b \in SUBSET (1..(i - 1))
      /\ s[i] = DN!Backslash => c = b \cup {i}
      /\ s[i] # DN!Backslash => c = {}
  BY BackslashesNext
<1>2. DN!Cardinality(b) = Cardinality(b)
  BY DEF DN!Cardinality, Cardinality
<1>. HIDE DEF b, c
<1>3. IsFiniteSet(b) /\ Cardinality(b) \in Nat /\ i \notin b
  <2>1. IsFiniteSet(1..(i - 1))
    BY FS_Interval
  <2>2. IsFiniteSet(b)
    BY <1>1, <2>1, FS_Subset
  <2>3. i \notin 1..(i - 1)
    OBVIOUS
  <2>. QED BY <1>1, <2>2, <2>3, FS_CardinalityType
<1>4. CASE s[i] = DN!Backslash
  <2>1. Cardinality(c) = Cardinality(b) + 1
    BY <1>1, <1>3, <1>4, FS_AddElement
  <2>. DEFINE n == Cardinality(b)
  <2>2. n \in Nat /\ Cardinality(c) = n + 1
    BY <1>3, <2>1
  <2>. HIDE DEF n
  <2>3. (n + 1) % 2 = 1 <=> ~(n % 2 = 1)
    BY <2>2
  <2>4. n % 2 = 0 <=> ~(n % 2 = 1)
    BY <2>2
  <2>5. Odd(Cardinality(c)) <=> ~Odd(n)
    BY <2>2, <2>3 DEF Odd
  <2>6. DN!Cardinality(b) % 2 = 0 <=> ~Odd(n)
    BY <1>2, <2>4 DEF Odd, n
  <2>. QED BY <1>4, <2>5, <2>6 DEF EscapedAt, b, c, n
<1>5. CASE s[i] # DN!Backslash
  <2>1. Cardinality(c) = 0
    BY <1>1, <1>5, FS_EmptySet
  <2>. DEFINE n == Cardinality(b)
  <2>2. n \in Nat
    BY <1>3
  <2>. HIDE DEF n
  <2>3. n % 2 = 0 <=> ~(n % 2 = 1)
    BY <2>2
  <2>4. ~Odd(Cardinality(c))
    BY <2>1 DEF Odd
  <2>5. DN!Cardinality(b) % 2 = 0 <=> ~Odd(n)
    BY <1>2, <2>3 DEF Odd, n
  <2>. QED BY <1>5, <2>4, <2>5 DEF EscapedAt, b, c, n
<1>. QED BY <1>4, <1>5

(* splitOnUnescapedCommas after k tokens. *)
Scanned(S, s, f, k) ==
    /\ f[k] \in [parts : Seq(Seq(S)), current : Seq(S), escaped : BOOLEAN]
    /\ f[k].escaped <=> EscapedAt(s, k + 1)

LEMMA SeparatorIs ==
    ASSUME NEW S, NEW s \in Seq(S), NEW k \in 1..Len(s)
    PROVE  k \in DN!Separators(s) <=> s[k] = DN!Comma /\ ~EscapedAt(s, k)
<1>1. k \in DOMAIN s /\ k \in Nat \ {0}
  OBVIOUS
<1>2. k \in DN!Separators(s) <=>
          s[k] = DN!Comma /\ DN!Cardinality(DN!BackslashesBefore(s, k)) % 2 = 0
  BY <1>1 DEF DN!Separators
<1>. QED BY <1>1, <1>2, EscapedNext

LEMMA AppendParts ==
    ASSUME NEW T, NEW parts \in Seq(T), NEW part \in T
    PROVE  /\ Front(Append(parts, part)) = parts
           /\ Last(Append(parts, part)) = part
<1>. DEFINE all == Append(parts, part)
            n == Len(parts)
<1>1. /\ all \in Seq(T) /\ Len(all) = n + 1 /\ n \in Nat
      /\ (\A i \in 1..n : all[i] = parts[i]) /\ all[n + 1] = part
  BY AppendProperties
<1>2. Last(all) = part
  <2>. HIDE DEF all, n
  <2>. QED BY <1>1 DEF Last
<1>. HIDE DEF all
<1>3. \A i \in 1..n : all[i] \in T /\ 1 + i - 1 = i
  BY <1>1, ElementOfSeq
<1>. DEFINE front == SubSeq(all, 1, n)
<1>4. front \in Seq(T) /\ Len(front) = n /\ \A i \in 1..n : front[i] = parts[i]
  <2>. HIDE DEF n
  <2>1. /\ SubSeq(all, 1, n) \in Seq(T)
        /\ Len(SubSeq(all, 1, n)) = IF 1 <= n THEN n - 1 + 1 ELSE 0
        /\ \A i \in 1..(n - 1 + 1) : SubSeq(all, 1, n)[i] = all[1 + i - 1]
    BY <1>1, <1>3, SubSeqProperties
  <2>2. (IF 1 <= n THEN n - 1 + 1 ELSE 0) = n /\ n - 1 + 1 = n
    BY <1>1
  <2>. QED BY <1>1, <1>3, <2>1, <2>2
<1>5. Front(all) = front
  <2>1. Len(all) - 1 = n
    BY <1>1
  <2>. QED BY <2>1 DEF Front
<1>. HIDE DEF front
<1>6. front = parts
  BY <1>4, SeqEqual
<1>. QED BY <1>2, <1>5, <1>6 DEF all

LEMMA ScanNext ==
    ASSUME NEW S, NEW s \in Seq(S), NEW k \in 1..Len(s), NEW f,
           Scanned(S, s, f, k - 1), f[k] = DN!Scan(f[k - 1], s[k])
    PROVE  /\ Scanned(S, s, f, k)
           /\ Append(f[k].parts, f[k].current) =
                 NextParts(Append(f[k - 1].parts, f[k - 1].current), s[k], k \in DN!Separators(s))
<1>. DEFINE T == Seq(S)
            b == f[k - 1]
            a == f[k]
            e == EscapedAt(s, k)
            d == EscapedAt(s, k + 1)
            R == [parts : Seq(T), current : T, escaped : BOOLEAN]
<1>1. b \in R /\ (b.escaped <=> e) /\ k \in Nat \ {0} /\ s[k] \in S
  <2>1. (k - 1) + 1 = k /\ k \in Nat \ {0}
    OBVIOUS
  <2>. QED BY <2>1, ElementOfSeq DEF Scanned
<1>2. (d <=> s[k] = DN!Backslash /\ ~e) /\ (k \in DN!Separators(s) <=> s[k] = DN!Comma /\ ~e)
  BY <1>1, EscapedNext, SeparatorIs
<1>3. DN!Comma # DN!Backslash
  BY DEF DN!Comma, DN!Backslash
<1>. HIDE DEF b, a, d, e, T
<1>4. a = DN!Scan(b, s[k])
  BY DEF a, b
<1>5. CASE k \in DN!Separators(s)
  <2>1. a = [parts |-> Append(b.parts, b.current), current |-> <<>>, escaped |-> FALSE]
    BY <1>1, <1>2, <1>4, <1>5 DEF DN!Scan
  <2>2. a.parts = Append(b.parts, b.current) /\ a.current = <<>> /\ a.escaped = FALSE /\ ~d
    BY <1>2, <1>3, <1>5, <2>1
  <2>3. Append(b.parts, b.current) \in Seq(T) /\ <<>> \in T
    <3>1. <<>> \in T
      BY DEF T
    <3>. QED BY <1>1, <3>1, AppendProperties
  <2>4. Scanned(S, s, f, k)
    <3>1. a \in R
      BY <2>1, <2>3
    <3>. QED BY <2>2, <3>1 DEF Scanned, a, d, T
  <2>5. Append(a.parts, a.current) = NextParts(Append(b.parts, b.current), s[k], k \in DN!Separators(s))
    BY <1>5, <2>2 DEF NextParts
  <2>. QED BY <2>4, <2>5 DEF a, b
<1>6. CASE k \notin DN!Separators(s)
  <2>. DEFINE now == Append(b.current, s[k])
              flag == s[k] = DN!Backslash /\ ~b.escaped
  <2>1. a = [b EXCEPT !.current = now, !.escaped = flag]
    BY <1>1, <1>2, <1>4, <1>6 DEF DN!Scan
  <2>3. now \in T
    BY <1>1, AppendProperties DEF T
  <2>7. flag \in BOOLEAN /\ (flag <=> d)
    BY <1>1, <1>2
  <2>. HIDE DEF now, flag
  <2>8. a \in R /\ a.parts = b.parts /\ a.current = now /\ (a.escaped <=> flag)
    BY <1>1, <2>1, <2>3, <2>7
  <2>2. a.parts = b.parts /\ a.current = Append(b.current, s[k])
    BY <2>8 DEF now
  <2>4. Scanned(S, s, f, k)
    BY <2>7, <2>8 DEF Scanned, a, d, T
  <2>5. /\ Front(Append(b.parts, b.current)) = b.parts
        /\ Last(Append(b.parts, b.current)) = b.current
    BY <1>1, AppendParts
  <2>6. Append(a.parts, a.current) = NextParts(Append(b.parts, b.current), s[k], k \in DN!Separators(s))
    BY <1>6, <2>2, <2>5 DEF NextParts
  <2>. QED BY <2>4, <2>6 DEF a, b
<1>. QED BY <1>5, <1>6

(* splitOnUnescapedCommas cuts at the commas that separate. *)
LEMMA SubjectCuts ==
    ASSUME NEW S, NEW s \in Seq(S)
    PROVE  /\ DN!splitOnUnescapedCommas(s) \in Seq(Seq(S))
           /\ \E e : Cuts(e, DN!splitOnUnescapedCommas(s), s, DN!Separators(s), Len(s) + 1)
<1>1. DOMAIN s = 1..Len(s) /\ Len(s) \in Nat
  OBVIOUS
<1>2. PICK f : /\ Reaches(f, "subject", Start, s)
               /\ DN!splitOnUnescapedCommas(s) = Append(f[Len(s)].parts, f[Len(s)].current)
  BY <1>1, ScanReaches
<1>. DEFINE at == DN!Separators(s)
            g == [k \in 0..Len(s) |-> Append(f[k].parts, f[k].current)]
            P(k) == Scanned(S, s, f, k)
<1>3. P(0)
  <2>1. f[0] = Start
    BY <1>2 DEF Reaches
  <2>2. <<>> \in Seq(Seq(S)) /\ <<>> \in Seq(S)
    OBVIOUS
  <2>3. ~EscapedAt(s, 1)
    <3>1. DN!BackslashesBefore(s, 1) = {}
      <4>1. 1..(1 - 1) = {}
        OBVIOUS
      <4>. QED BY <4>1 DEF DN!BackslashesBefore
    <3>2. Cardinality({}) = 0
      BY FS_EmptySet
    <3>3. ~Odd(0)
      BY DEF Odd
    <3>. QED BY <3>1, <3>2, <3>3 DEF EscapedAt
  <2>4. f[0] \in [parts : Seq(Seq(S)), current : Seq(S), escaped : BOOLEAN]
    BY <2>1, <2>2 DEF Start
  <2>5. 0 + 1 = 1 /\ ~f[0].escaped
    BY <2>1 DEF Start
  <2>. QED BY <2>3, <2>4, <2>5 DEF Scanned
<1>4. ASSUME NEW k \in 1..Len(s), P(k - 1)
      PROVE  P(k) /\ g[k] = NextParts(g[k - 1], s[k], k \in at)
  <2>1. f[k] = DN!Scan(f[k - 1], s[k])
    BY <1>2 DEF Reaches, Step
  <2>2. /\ Scanned(S, s, f, k)
        /\ Append(f[k].parts, f[k].current) =
               NextParts(Append(f[k - 1].parts, f[k - 1].current), s[k], k \in at)
    BY <1>4, <2>1, ScanNext
  <2>3. k \in 0..Len(s) /\ k - 1 \in 0..Len(s)
    BY <1>1
  <2>. QED BY <2>2, <2>3
<1>. HIDE DEF P, at
<1>5. ASSUME NEW n \in 0..Len(s), ~P(n) PROVE FALSE
  <2>. DEFINE T == {k \in 0..Len(s) : ~P(k)}
  <2>1. T \in SUBSET Nat /\ T # {}
    BY <1>1, <1>5
  <2>2. PICK m \in T : \A k \in T : m <= k
    BY <2>1, Least
  <2>3. m # 0
    BY <1>3
  <2>4. m \in 1..Len(s) /\ m - 1 \in 0..Len(s) /\ m - 1 \notin T
    BY <1>1, <2>2, <2>3
  <2>. QED BY <1>4, <2>4
<1>6. \A k \in 1..Len(s) : g[k] = NextParts(g[k - 1], s[k], k \in at)
  <2>1. \A k \in 1..Len(s) : k - 1 \in 0..Len(s)
    BY <1>1
  <2>. QED BY <1>4, <1>5, <2>1
<1>7. g[0] = <<<<>>>>
  <2>1. f[0] = Start /\ 0 \in 0..Len(s)
    BY <1>1, <1>2 DEF Reaches
  <2>2. f[0].parts = <<>> /\ f[0].current = <<>>
    BY <2>1 DEF Start
  <2>3. Append(<<>>, <<>>) = <<<<>>>>
    OBVIOUS
  <2>4. g[0] = Append(f[0].parts, f[0].current)
    BY <2>1
  <2>. QED BY <2>2, <2>3, <2>4
<1>8. at \in SUBSET Int
  BY <1>1 DEF at, DN!Separators
<1>. DEFINE parts == g[Len(s)]
            T == Seq(S)
            m == Len(s) + 1
<1>9. parts = DN!splitOnUnescapedCommas(s)
  <2>1. Len(s) \in 0..Len(s)
    BY <1>1
  <2>. QED BY <1>2, <2>1
<1>. HIDE DEF g
<1>10. parts \in Seq(Seq(S)) /\ \E e : CutBy(e, parts, s, at, Len(s) + 1)
  BY <1>6, <1>7, <1>8, CutAll
<1>11. PICK e : CutBy(e, parts, s, at, m)
  BY <1>10
<1>12. parts \in Seq(T) /\ m \in Nat
  BY <1>1, <1>10
<1>. HIDE DEF parts, T, m
<1>13. Cuts(e, parts, s, at, m)
  BY <1>8, <1>11, <1>12, CutFacts
<1>. QED BY <1>9, <1>12, <1>13 DEF T, m, at

(* FlattenSeq puts its sequences one after the other. *)
Flattens(g, q, n) ==
    g = [i \in 1..n |-> IF i = 1 THEN q[i] ELSE g[i - 1] \o q[i]]

LEMMA FlattensExists ==
    ASSUME NEW q, NEW n \in Nat
    PROVE  \E g : Flattens(g, q, n)
<1>. DEFINE T == {m \in Nat : ~\E g : Flattens(g, q, m)}
<1>. SUFFICES ASSUME T # {} PROVE FALSE
  OBVIOUS
<1>1. PICK m \in T : \A k \in T : m <= k
  BY Least
<1>2. CASE m = 0
  <2>. DEFINE g == [i \in 1..0 |-> q[i]]
  <2>1. \A i \in 1..0 : FALSE
    OBVIOUS
  <2>2. Flattens(g, q, 0)
    BY <2>1 DEF Flattens
  <2>. QED BY <1>2, <2>2
<1>3. CASE m # 0
  <2>. DEFINE k == m - 1
  <2>1. k \in Nat /\ k + 1 = m /\ k \notin T
    BY <1>1, <1>3
  <2>. HIDE DEF k
  <2>2. PICK g : Flattens(g, q, k)
    BY <2>1
  <2>. DEFINE F(h, i) == IF i = 1 THEN q[i] ELSE h[i - 1] \o q[i]
              h == [i \in 1..(k + 1) |-> IF i = k + 1 THEN F(g, i) ELSE g[i]]
  <2>3. \A i \in 1..k : g[i] = F(g, i) /\ h[i] = g[i]
    <3>1. \A i \in 1..k : g[i] = F(g, i)
      BY <2>2 DEF Flattens
    <3>2. \A i \in 1..k : i \in 1..(k + 1) /\ i # k + 1
      BY <2>1
    <3>. QED BY <3>1, <3>2
  <2>4. ASSUME NEW i \in 1..(k + 1)
        PROVE  h[i] = F(h, i)
    <3>1. i = 1 \/ i - 1 \in 1..k
      BY <2>1
    <3>2. F(h, i) = F(g, i)
      <4>1. i = 1 \/ h[i - 1] = g[i - 1]
        BY <2>3, <3>1
      <4>. HIDE DEF h
      <4>. QED BY <4>1
    <3>3. h[i] = F(g, i)
      <4>1. CASE i = k + 1
        BY <4>1
      <4>2. CASE i # k + 1
        <5>1. i \in 1..k
          BY <2>1, <4>2
        <5>. QED BY <2>3, <5>1
      <4>. QED BY <4>1, <4>2
    <3>. QED BY <3>2, <3>3
  <2>5. h = [i \in 1..(k + 1) |-> F(h, i)]
    BY <2>4
  <2>6. Flattens(h, q, k + 1)
    BY <2>5 DEF Flattens
  <2>. QED BY <2>1, <2>6
<1>. QED BY <1>2, <1>3

LEMMA FlattenReaches ==
    ASSUME NEW q, Len(q) \in Nat \ {0}
    PROVE  \E g : Flattens(g, q, Len(q)) /\ DN!FlattenSeq(q) = g[Len(q)]
<1>. DEFINE C == CHOOSE g : Flattens(g, q, Len(q))
<1>1. DN!FlattenSeq(q) = C[Len(q)]
  BY DEF DN!FlattenSeq, Flattens
<1>2. Flattens(C, q, Len(q))
  BY FlattensExists
<1>. QED BY <1>1, <1>2

(* Where each sequence lies, if d[i] is where the first i of them end. *)
Placed(g, q, d, k) ==
    \A i \in 1..k : \A x \in 1..Len(q[i]) :
        d[i - 1] + x \in 1..d[k] /\ g[d[i - 1] + x] = q[i][x]

LEMMA FlattenPlaces ==
    ASSUME NEW S, NEW q \in Seq(Seq(S)), Len(q) # 0, NEW d,
           \A i \in 0..Len(q) : d[i] \in Nat, d[0] = 0,
           \A i \in 1..Len(q) : Len(q[i]) = d[i] - d[i - 1]
    PROVE  /\ DN!FlattenSeq(q) \in Seq(S) /\ Len(DN!FlattenSeq(q)) = d[Len(q)]
           /\ Placed(DN!FlattenSeq(q), q, d, Len(q))
<1>. DEFINE T == Seq(S)
            N == Len(q)
<1>1. N \in Nat \ {0} /\ q \in Seq(T)
  OBVIOUS
<1>2. \A i \in 1..N : q[i] \in T
  <2>. HIDE DEF T
  <2>. QED BY <1>1, ElementOfSeq
<1>3. PICK g : Flattens(g, q, N) /\ DN!FlattenSeq(q) = g[N]
  BY <1>1, FlattenReaches
<1>4. \A i \in 1..N : g[i] = IF i = 1 THEN q[i] ELSE g[i - 1] \o q[i]
  BY <1>3 DEF Flattens
<1>5. \A i \in 0..N : d[i] \in Nat
  OBVIOUS
<1>6. \A i \in 1..N : Len(q[i]) = d[i] - d[i - 1]
  OBVIOUS
<1>. DEFINE P(k) == g[k] \in T /\ Len(g[k]) = d[k] /\ Placed(g[k], q, d, k)
<1>. HIDE DEF N
<1>7. P(1)
  <2>1. 1 \in 1..N /\ 1 \in 0..N /\ 1 - 1 = 0 /\ \A i \in 1..1 : i = 1
    BY <1>1
  <2>2. g[1] = q[1] /\ g[1] \in T /\ Len(q[1]) = d[1] /\ d[1] \in Nat
    BY <1>2, <1>4, <1>5, <1>6, <2>1
  <2>3. Placed(g[1], q, d, 1)
    <3>1. ASSUME NEW x \in 1..Len(q[1])
          PROVE  d[1 - 1] + x \in 1..d[1] /\ g[1][d[1 - 1] + x] = q[1][x]
      BY <2>1, <2>2
    <3>. QED BY <2>1, <3>1 DEF Placed
  <2>. QED BY <2>2, <2>3
<1>8. ASSUME NEW k \in 2..N, P(k - 1) PROVE P(k)
  <2>. DEFINE j == k - 1
              a == g[j]
              b == q[k]
              l == d[j]
              r == d[k]
  <2>1. j \in 1..N /\ j \in 0..N /\ k \in 1..N /\ k \in 0..N /\ k # 1
    BY <1>1
  <2>2. a \in T /\ b \in T /\ Len(a) = l /\ l \in Nat /\ r \in Nat /\ Len(b) = r - l
    BY <1>2, <1>5, <1>6, <1>8, <2>1
  <2>3. g[k] = a \o b
    BY <1>4, <2>1
  <2>4. Placed(a, q, d, j)
    BY <1>8
  <2>9. Len(b) \in Nat
    BY <2>2
  <2>. HIDE DEF a, b, l, r, P
  <2>5. /\ a \o b \in Seq(S) /\ Len(a \o b) = Len(a) + Len(b)
        /\ \A i \in 1..(Len(a) + Len(b)) :
              (a \o b)[i] = IF i <= Len(a) THEN a[i] ELSE b[i - Len(a)]
    BY <2>2, ConcatProperties
  <2>6. Len(a \o b) = r /\ l <= r
    BY <2>2, <2>5, <2>9
  <2>7. ASSUME NEW i \in 1..k, NEW x \in 1..Len(q[i])
        PROVE  d[i - 1] + x \in 1..r /\ (a \o b)[d[i - 1] + x] = q[i][x]
    <3>1. CASE i = k
      <4>1. x \in 1..Len(b) /\ d[i - 1] = l /\ q[i] = b
        BY <3>1 DEF b, l
      <4>. DEFINE y == l + x
      <4>2. y \in 1..(Len(a) + Len(b)) /\ ~(y <= Len(a)) /\ y - Len(a) = x /\ y \in 1..r
        BY <2>2, <2>9, <4>1
      <4>. HIDE DEF y
      <4>3. (a \o b)[y] = b[x]
        BY <2>5, <4>2
      <4>. QED BY <4>1, <4>2, <4>3 DEF y
    <3>2. CASE i # k
      <4>1. i \in 1..j
        BY <2>1, <3>2
      <4>. DEFINE y == d[i - 1] + x
      <4>2. y \in 1..l /\ a[y] = q[i][x]
        BY <2>4, <4>1 DEF Placed, l
      <4>. HIDE DEF y
      <4>3. y \in 1..(Len(a) + Len(b)) /\ y <= Len(a) /\ y \in 1..r
        BY <2>2, <2>6, <2>9, <4>2
      <4>4. (a \o b)[y] = a[y]
        BY <2>5, <4>3
      <4>. QED BY <4>2, <4>3, <4>4 DEF y
    <3>. QED BY <3>1, <3>2
  <2>8. Placed(a \o b, q, d, k)
    BY <2>7 DEF Placed, r
  <2>. QED BY <2>3, <2>5, <2>6, <2>8 DEF P, r
<1>. HIDE DEF P
<1>9. P(N)
  <2>. DEFINE U == {k \in 1..N : ~P(k)}
  <2>. SUFFICES ASSUME ~P(N) PROVE FALSE
    OBVIOUS
  <2>1. U \in SUBSET Nat /\ U # {}
    BY <1>1
  <2>2. PICK m \in U : \A k \in U : m <= k
    BY <2>1, Least
  <2>3. m # 1
    BY <1>7, <2>2
  <2>4. m \in 2..N /\ m - 1 \in 1..N /\ m - 1 \notin U
    BY <1>1, <2>2, <2>3
  <2>. QED BY <1>8, <2>2, <2>4
<1>. QED BY <1>3, <1>9 DEF P, N

(* The ends of the cuts. *)
LEMMA CutEnds ==
    ASSUME NEW e, NEW parts, NEW s, NEW at, NEW m \in Nat, Cuts(e, parts, s, at, m)
    PROVE  e[0] = 0 /\ e[Len(parts)] = m
<1>. DEFINE n == Len(parts)
<1>1. /\ n \in Nat \ {0}
      /\ \A i \in 0..n : e[i] \in 0..m
      /\ \A i, j \in 0..n : i < j => e[i] < e[j]
      /\ \A p \in at \cup {0, m} : 0 <= p /\ p <= m => \E i \in 0..n : e[i] = p
  BY DEF Cuts
<1>. HIDE DEF n
<1>2. 0 \in 0..n /\ n \in 0..n /\ \A i \in 0..n : i = 0 \/ 0 < i
  BY <1>1
<1>3. \A i \in 0..n : i = n \/ i < n
  BY <1>1
<1>4. (\E i \in 0..n : e[i] = 0) /\ \E i \in 0..n : e[i] = m
  BY <1>1
<1>5. e[0] = 0
  BY <1>1, <1>2, <1>4
<1>6. e[n] = m
  BY <1>1, <1>2, <1>3, <1>4
<1>. QED BY <1>5, <1>6 DEF n

(* JoinWithCommas of the reversed parts: the part between the cuts p and q
   starts n - q characters into the result, after the comma before it if it is
   not the first. *)
Mirrored(out, parts, e, n) ==
    \A i \in 1..Len(parts) :
        /\ e[i] < n => out[n - e[i]] = DN!Comma
        /\ \A x \in 1..Len(parts[i]) : out[(n - e[i]) + x] = parts[i][x]

LEMMA JoinMirrors ==
    ASSUME NEW S, DN!Comma \in S, NEW s \in Seq(S), NEW parts \in Seq(Seq(S)), NEW at, NEW e,
           Cuts(e, parts, s, at, Len(s) + 1)
    PROVE  LET out == DN!JoinWithCommas(DN!Reverse(parts))
           IN  Len(out) = Len(s) /\ Mirrored(out, parts, e, Len(s) + 1)
<1>. DEFINE T == Seq(S)
            n == Len(s) + 1
            N == Len(parts)
            comma == <<DN!Comma>>
            turned == DN!Reverse(parts)
            q == [i \in DOMAIN turned |-> comma \o turned[i]]
            d == [i \in 0..N |-> n - e[N - i]]
            flat == DN!FlattenSeq(q)
            out == DN!JoinWithCommas(turned)
<1>1. N \in Nat \ {0} /\ n \in Nat \ {0} /\ Len(s) = n - 1
  BY DEF Cuts
<1>2. e[0] = 0 /\ e[N] = n
  BY <1>1, CutEnds
<1>3. \A i \in 0..N : e[i] \in 0..n
  BY DEF Cuts
<1>4. \A i \in 1..N : /\ parts[i] \in T /\ Len(parts[i]) = e[i] - e[i - 1] - 1
                      /\ e[i] \in 0..n /\ e[i - 1] \in 0..n /\ e[i - 1] < e[i]
  <2>. SUFFICES ASSUME NEW i \in 1..N
                PROVE  /\ parts[i] \in T /\ Len(parts[i]) = e[i] - e[i - 1] - 1
                       /\ e[i] \in 0..n /\ e[i - 1] \in 0..n /\ e[i - 1] < e[i]
    OBVIOUS
  <2>1. parts[i] \in T
    <3>. HIDE DEF T
    <3>. QED BY ElementOfSeq DEF T
  <2>2. Len(parts[i]) = e[i] - e[i - 1] - 1
    BY PartFacts
  <2>. QED BY <2>1, <2>2 DEF Cuts
<1>. HIDE DEF n, N
<1>5. \A i \in 1..N : (N - i) + 1 \in 1..N /\ N - ((N - i) + 1) = i - 1
  BY <1>1
<1>6. /\ DOMAIN turned = 1..N
      /\ \A i \in 1..N : turned[i] = parts[(N - i) + 1]
  BY DEF DN!Reverse, N
<1>. HIDE DEF turned
<1>7. comma \in T /\ Len(comma) = 1 /\ comma[1] = DN!Comma
  OBVIOUS
<1>. HIDE DEF comma
<1>8. ASSUME NEW p \in T
      PROVE  /\ comma \o p \in T /\ Len(comma \o p) = Len(p) + 1
             /\ (comma \o p)[1] = DN!Comma
             /\ \A x \in 1..Len(p) : (comma \o p)[x + 1] = p[x]
  <2>1. /\ comma \o p \in Seq(S) /\ Len(comma \o p) = Len(comma) + Len(p)
        /\ \A i \in 1..(Len(comma) + Len(p)) :
              (comma \o p)[i] = IF i <= Len(comma) THEN comma[i] ELSE p[i - Len(comma)]
    BY <1>7, ConcatProperties
  <2>2. Len(p) \in Nat
    OBVIOUS
  <2>. DEFINE a == comma \o p
              l == Len(p)
  <2>3. /\ l \in Nat /\ Len(a) = 1 + l
        /\ \A i \in 1..(1 + l) : a[i] = IF i <= 1 THEN comma[i] ELSE p[i - 1]
    BY <1>7, <2>1, <2>2
  <2>. HIDE DEF a, l
  <2>4. Len(a) = l + 1 /\ 1 \in 1..(1 + l) /\ a[1] = comma[1]
    BY <2>3
  <2>5. \A x \in 1..l : x + 1 \in 1..(1 + l) /\ ~(x + 1 <= 1) /\ (x + 1) - 1 = x
    BY <2>3
  <2>6. \A x \in 1..l : a[x + 1] = p[x]
    BY <2>3, <2>5
  <2>. QED BY <1>7, <2>1, <2>4, <2>6 DEF a, l
<1>9. ASSUME NEW i \in 1..N
      PROVE  q[i] = comma \o parts[(N - i) + 1] /\ parts[(N - i) + 1] \in T /\ q[i] \in T
  BY <1>4, <1>5, <1>6, <1>8
<1>10. DOMAIN q = 1..N
  BY <1>6
<1>. HIDE DEF q
<1>11. q \in Seq(T) /\ Len(q) = N
  <2>1. q = [i \in DOMAIN q |-> q[i]]
    BY DEF q
  <2>2. q \in [1..N -> T]
    BY <1>9, <1>10, <2>1
  <2>. HIDE DEF T
  <2>. QED BY <1>1, <2>2
<1>12. /\ \A i \in 0..N : d[i] \in Nat
       /\ d[0] = 0 /\ d[N] = n
  <2>1. \A i \in 0..N : N - i \in 0..N
    BY <1>1
  <2>2. 0 \in 0..N /\ N \in 0..N /\ N - 0 = N /\ N - N = 0
    BY <1>1
  <2>. QED BY <1>1, <1>2, <1>3, <2>1, <2>2
<1>13. \A i \in 1..N : /\ d[i] = n - e[N - i] /\ d[i - 1] = n - e[(N - i) + 1]
  <2>1. \A i \in 1..N : i \in 0..N /\ i - 1 \in 0..N /\ N - (i - 1) = (N - i) + 1
    BY <1>1
  <2>. QED BY <2>1
<1>. HIDE DEF d
<1>14. ASSUME NEW i \in 1..N
       PROVE  Len(q[i]) = d[i] - d[i - 1]
  <2>. DEFINE j == (N - i) + 1
  <2>1. j \in 1..N /\ j - 1 = N - i
    BY <1>1
  <2>2. d[i] = n - e[j - 1] /\ d[i - 1] = n - e[j]
    BY <1>13, <2>1
  <2>3. Len(q[i]) = Len(parts[j]) + 1
    BY <1>8, <1>9
  <2>. HIDE DEF j
  <2>4. Len(parts[j]) = e[j] - e[j - 1] - 1 /\ e[j] \in 0..n /\ e[j - 1] \in 0..n
    BY <1>4, <2>1
  <2>. QED BY <1>1, <2>2, <2>3, <2>4, SMTT(30)
<1>15. flat \in Seq(S) /\ Len(flat) = n /\ Placed(flat, q, d, N)
  <2>1. N # 0
    BY <1>1
  <2>. QED BY <1>11, <1>12, <1>14, <2>1, FlattenPlaces DEF T
<1>16. out = Tail(flat)
  BY DEF DN!JoinWithCommas, q, comma
<1>. HIDE DEF flat, out
<1>17. Len(out) = n - 1 /\ \A y \in 1..(n - 1) : out[y] = flat[y + 1]
  <2>1. flat # <<>>
    BY <1>1, <1>15
  <2>. QED BY <1>15, <1>16, <2>1, HeadTailProperties
<1>18. ASSUME NEW i \in 1..N
       PROVE  /\ e[i] < n => out[n - e[i]] = DN!Comma
              /\ \A x \in 1..Len(parts[i]) : out[(n - e[i]) + x] = parts[i][x]
  <2>. DEFINE j == (N - i) + 1
  <2>1. j \in 1..N /\ (N - j) + 1 = i
    BY <1>1
  <2>2. d[j - 1] = n - e[i]
    BY <1>13, <2>1
  <2>3. q[j] = comma \o parts[i] /\ parts[i] \in T
    BY <1>9, <2>1
  <2>. HIDE DEF j
  <2>. DEFINE p == parts[i]
              b == n - e[i]
  <2>4. /\ Len(q[j]) = Len(p) + 1 /\ q[j][1] = DN!Comma
        /\ \A x \in 1..Len(p) : q[j][x + 1] = p[x]
    BY <1>8, <2>3
  <2>5. \A x \in 1..Len(q[j]) : b + x \in 1..n /\ flat[b + x] = q[j][x]
    BY <1>12, <1>15, <2>1, <2>2 DEF Placed
  <2>6. b \in Nat /\ (e[i] < n => b # 0) /\ b <= n
    BY <1>1, <1>4
  <2>7. Len(p) \in Nat
    BY <2>3
  <2>. HIDE DEF p, b
  <2>8. b # 0 => out[b] = DN!Comma
    <3>. SUFFICES ASSUME b # 0 PROVE out[b] = DN!Comma
      OBVIOUS
    <3>1. 1 \in 1..Len(q[j])
      BY <2>4, <2>7
    <3>2. b + 1 \in 1..n
      BY <2>5, <3>1
    <3>3. b \in 1..(n - 1)
      BY <1>1, <2>6, <3>2
    <3>. QED BY <1>17, <2>4, <2>5, <3>1, <3>3
  <2>9. ASSUME NEW x \in 1..Len(p)
        PROVE  out[b + x] = p[x]
    <3>1. x + 1 \in 1..Len(q[j]) /\ b + (x + 1) = (b + x) + 1
      BY <2>4, <2>6, <2>7
    <3>2. b + (x + 1) \in 1..n /\ flat[b + (x + 1)] = p[x]
      BY <2>4, <2>5, <3>1
    <3>3. b + x \in 1..(n - 1)
      BY <1>1, <2>6, <2>7, <3>2
    <3>4. out[b + x] = flat[(b + x) + 1]
      BY <1>17, <3>3
    <3>. QED BY <3>1, <3>2, <3>4
  <2>. QED BY <2>6, <2>8, <2>9 DEF p, b
<1>. QED BY <1>1, <1>17, <1>18 DEF Mirrored, n, N, out, turned

(* normalizeSubjectDN moves every RDN as one unit and loses, adds and splits
   nothing, whatever the subject (identity.go:9-60). *)
THEOREM EverySubjectMovesWhole ==
    ASSUME NEW S, NEW s \in Seq(S)
    PROVE  DN!MovesRDNsWhole(s)
<1>. DEFINE U == S \cup {DN!Comma}
            n == Len(s) + 1
            at == DN!Separators(s)
            parts == DN!splitOnUnescapedCommas(s)
            out == DN!normalizeSubjectDN(s)
            ends == at \cup {0, n}
<1>1. s \in Seq(U) /\ DN!Comma \in U /\ Len(s) \in Nat /\ n \in Nat /\ DOMAIN s = 1..Len(s)
  OBVIOUS
<1>2. at \in SUBSET Int /\ \A i \in at : i \in Nat /\ 0 < i /\ i < n
  BY <1>1 DEF DN!Separators
<1>. HIDE DEF U, at, parts
<1>3. parts \in Seq(Seq(U)) /\ \E e : Cuts(e, parts, s, at, Len(s) + 1)
  BY <1>1, SubjectCuts DEF parts, at
<1>4. PICK e : Cuts(e, parts, s, at, Len(s) + 1)
  BY <1>3
<1>5. Len(out) = Len(s) /\ Mirrored(out, parts, e, n)
  <2>1. out = DN!JoinWithCommas(DN!Reverse(parts))
    BY DEF DN!normalizeSubjectDN, parts
  <2>. QED BY <1>1, <1>3, <1>4, <2>1, JoinMirrors
<1>. HIDE DEF out
<1>6. ASSUME NEW i \in at
      PROVE  out[n - i] = DN!Comma
  <2>1. PICK k \in 0..Len(parts) : e[k] = i
    BY <1>2, <1>4 DEF Cuts
  <2>2. e[0] = 0 /\ Len(parts) \in Nat
    BY <1>1, <1>4, CutEnds DEF Cuts
  <2>3. k \in 1..Len(parts)
    BY <1>2, <2>1, <2>2
  <2>. QED BY <1>2, <1>5, <2>1, <2>3 DEF Mirrored
<1>7. ASSUME NEW p \in ends, NEW q \in ends, p < q, (p + 1)..(q - 1) \cap ends = {},
             NEW i \in (p + 1)..(q - 1)
      PROVE  out[(n - q) + (i - p)] = s[i]
  <2>1. p \in Nat /\ q \in Nat /\ q <= n
    BY <1>1, <1>2
  <2>2. p \in (at \cup {0}) \cap Nat /\ q \in (at \cup {n}) \cap Nat
    BY <1>7, <2>1
  <2>3. \A r \in at : ~(p < r /\ r < q)
    <3>1. ASSUME NEW r \in at, p < r, r < q PROVE FALSE
      <4>1. r \in (p + 1)..(q - 1)
        BY <1>2, <2>1, <3>1
      <4>. QED BY <1>7, <4>1
    <3>. QED BY <3>1
  <2>. HIDE DEF n, ends
  <2>4. PICK k \in 1..Len(parts) : e[k - 1] = p /\ e[k] = q
    <3>1. Cuts(e, parts, s, at, n)
      BY <1>4 DEF n
    <3>. QED BY <1>1, <1>2, <1>7, <2>1, <2>2, <2>3, <3>1, Consecutive
  <2>. DEFINE x == i - p
  <2>5. x \in 1..(q - p - 1) /\ p + x = i
    BY <2>1
  <2>. HIDE DEF x
  <2>6. /\ Len(parts[k]) = q - p - 1
        /\ \A y \in 1..(q - p - 1) : parts[k][y] = s[p + y]
    <3>. DEFINE a == e[k - 1]
                b == e[k]
    <3>1. /\ Len(parts[k]) = b - a - 1
          /\ \A y \in 1..(b - a - 1) : parts[k][y] = s[a + y]
      <4>. HIDE DEF ends
      <4>. QED BY <1>4, PartFacts
    <3>2. a = p /\ b = q
      BY <2>4
    <3>. HIDE DEF a, b
    <3>. QED BY <3>1, <3>2
  <2>7. out[(n - q) + x] = parts[k][x]
    BY <1>5, <2>4, <2>5, <2>6 DEF Mirrored
  <2>. QED BY <2>5, <2>6, <2>7 DEF x
<1>. QED BY <1>5, <1>6, <1>7 DEF DN!MovesRDNsWhole, out, at

(* The same of the texts of the run. *)
THEOREM SubjectsMove == Spec => []SubjectsMoveWhole
<1>1. TextInv => SubjectsMoveWhole
  BY EverySubjectMovesWhole DEF TextInv, SubjectsMoveWhole
<1>. QED BY <1>1, TextAlways, PTL

-----------------------------------------------------------------------------
(* URIs. *)

LEMMA CutsIncrease ==
    ASSUME NEW e, NEW parts, NEW s, NEW at, NEW m \in Nat, Cuts(e, parts, s, at, m),
           NEW i \in 0..Len(parts), NEW j \in 0..Len(parts), e[i] = e[j]
    PROVE  i = j
<1>. DEFINE n == Len(parts)
<1>1. n \in Nat /\ (\A k \in 0..n : e[k] \in 0..m) /\ \A k, l \in 0..n : k < l => e[k] < e[l]
  BY DEF Cuts
<1>2. i \in 0..n /\ j \in 0..n
  OBVIOUS
<1>. HIDE DEF n
<1>3. ~(i < j) /\ ~(j < i)
  BY <1>1, <1>2
<1>. QED BY <1>1, <1>2, <1>3

(* A position is a cut or lies inside a part. *)
LEMMA InsidePart ==
    ASSUME NEW e, NEW parts, NEW s, NEW at, NEW m \in Nat, Cuts(e, parts, s, at, m),
           NEW k \in 1..(m - 1), k \notin at
    PROVE  \E i \in 1..Len(parts) : e[i - 1] < k /\ k < e[i]
<1>. DEFINE n == Len(parts)
            T == {i \in 0..n : k < e[i]}
<1>1. /\ n \in Nat \ {0} /\ (\A i \in 0..n : e[i] \in 0..m)
      /\ \A i \in 1..n : e[i - 1] = 0 \/ e[i - 1] \in at
  BY DEF Cuts
<1>2. e[0] = 0 /\ e[n] = m
  BY CutEnds
<1>. HIDE DEF n
<1>3. n \in T /\ T \in SUBSET Nat
  BY <1>1, <1>2
<1>4. PICK i \in T : \A j \in T : i <= j
  BY <1>3, Least
<1>5. i \in 1..n /\ i - 1 \in 0..n /\ i - 1 \notin T
  BY <1>1, <1>2, <1>4
<1>6. e[i - 1] <= k /\ e[i - 1] # k /\ e[i - 1] \in 0..m
  BY <1>1, <1>5
<1>7. e[i - 1] < k
  BY <1>6
<1>. QED BY <1>4, <1>5, <1>7 DEF n

(* No cut lies inside a part. *)
LEMMA NoCutInside ==
    ASSUME NEW e, NEW parts, NEW s, NEW at, NEW m \in Nat, Cuts(e, parts, s, at, m),
           NEW i \in 1..Len(parts), NEW k \in Nat, e[i - 1] < k, k < e[i]
    PROVE  k \notin at
<1>. DEFINE n == Len(parts)
<1>1. /\ n \in Nat \ {0} /\ (\A j \in 0..n : e[j] \in 0..m)
      /\ \A j, l \in 0..n : j < l => e[j] < e[l]
      /\ \A p \in at \cup {0, m} : 0 <= p /\ p <= m => \E j \in 0..n : e[j] = p
  BY DEF Cuts
<1>2. i \in 1..n
  OBVIOUS
<1>. HIDE DEF n
<1>3. i \in 0..n /\ i - 1 \in 0..n /\ e[i] \in 0..m
  BY <1>1, <1>2
<1>. SUFFICES ASSUME k \in at PROVE FALSE
  OBVIOUS
<1>4. 0 <= k /\ k <= m
  BY <1>3
<1>5. PICK j \in 0..n : e[j] = k
  BY <1>1, <1>4
<1>6. j = i - 1 \/ j = i \/ j < i - 1 \/ i < j
  BY <1>1, <1>2
<1>. QED BY <1>1, <1>3, <1>5, <1>6, SMTT(30)

(* Parts that are not empty and have nothing but digits. *)
Dotted(t, dot, D) ==
    /\ Len(t) >= 1 /\ t[1] \in D /\ t[Len(t)] \in D
    /\ \A i \in 1..Len(t) : t[i] \in D \cup {dot}
    /\ \A i \in 1..(Len(t) - 1) : t[i] = dot => t[i + 1] \in D

LEMMA DottedParts ==
    ASSUME NEW S, NEW t \in Seq(S), NEW dot, NEW D, dot \notin D, dot \notin NotSplits
    PROVE  (\A part \in Range(Req!Split(t, dot)) : part # <<>> /\ Range(part) \subseteq D)
              <=> Dotted(t, dot, D)
<1>. DEFINE parts == Req!Split(t, dot)
            at == {i \in 1..Len(t) : t[i] = dot}
            n == Len(t)
            m == Len(t) + 1
<1>1. parts \in Seq(Seq(S)) /\ \E e : Cuts(e, parts, t, at, m)
  BY SplitCuts
<1>2. PICK e : Cuts(e, parts, t, at, m)
  BY <1>1
<1>3. n \in Nat /\ m \in Nat /\ m = n + 1 /\ at \in SUBSET Int
  OBVIOUS
<1>4. \A i \in at : i \in 1..n /\ t[i] = dot
  OBVIOUS
<1>5. \A i \in 1..n : t[i] = dot => i \in at
  OBVIOUS
<1>. DEFINE N == Len(parts)
<1>6. ASSUME NEW i \in 1..N
      PROVE  /\ parts[i] \in Seq(S)
             /\ e[i - 1] \in Nat /\ e[i] \in Nat /\ e[i - 1] < e[i] /\ e[i] <= m
             /\ e[i - 1] = 0 \/ e[i - 1] \in at
             /\ e[i] = m \/ e[i] \in at
             /\ Len(parts[i]) = e[i] - e[i - 1] - 1
             /\ \A x \in 1..(e[i] - e[i - 1] - 1) : parts[i][x] = t[e[i - 1] + x]
  <2>. DEFINE T == Seq(S)
  <2>. HIDE DEF parts, T
  <2>1. parts[i] \in T
    BY <1>1, ElementOfSeq DEF T
  <2>. HIDE DEF at
  <2>. QED BY <1>2, <2>1, PartFacts DEF T
<1>7. Range(parts) = {parts[i] : i \in 1..N}
  <2>. HIDE DEF parts
  <2>1. DOMAIN parts = 1..N
    BY <1>1
  <2>. QED BY <2>1 DEF Range
<1>8. N \in Nat \ {0} /\ e[0] = 0 /\ e[N] = m
  <2>. HIDE DEF at, parts, m
  <2>1. Len(parts) \in Nat \ {0}
    BY <1>2 DEF Cuts
  <2>2. e[0] = 0 /\ e[Len(parts)] = m
    BY <1>2, <1>3, CutEnds
  <2>. QED BY <2>1, <2>2
<1>. HIDE DEF at, parts, m, n
<1>9. \A k \in 1..n : k \notin at => \E i \in 1..N : e[i - 1] < k /\ k < e[i]
  <2>1. \A k \in 1..n : k \in 1..(m - 1)
    BY <1>3
  <2>. QED BY <1>2, <1>3, <2>1, InsidePart
<1>10. \A i \in 1..N : \A k \in Nat : e[i - 1] < k /\ k < e[i] => k \notin at
  BY <1>2, <1>3, NoCutInside
<1>. HIDE DEF N
<1>11. ASSUME NEW i \in 1..N, NEW k \in Nat, e[i - 1] < k, k < e[i]
       PROVE  k \in 1..n /\ t[k] \in Range(parts[i]) /\ t[k] # dot
  <2>. DEFINE x == k - e[i - 1]
  <2>1. x \in 1..(e[i] - e[i - 1] - 1) /\ e[i - 1] + x = k
    BY <1>6, <1>11
  <2>. HIDE DEF x
  <2>2. t[k] = parts[i][x] /\ x \in 1..Len(parts[i])
    BY <1>6, <2>1
  <2>3. parts[i][x] \in Range(parts[i])
    BY <1>6, <2>2 DEF Range
  <2>4. k \in 1..n
    BY <1>3, <1>6, <1>11
  <2>5. t[k] # dot
    BY <1>5, <1>10, <1>11, <2>4
  <2>. QED BY <2>2, <2>3, <2>4, <2>5
<1>12. ASSUME \A i \in 1..N : parts[i] # <<>> /\ Range(parts[i]) \subseteq D
       PROVE  Dotted(t, dot, D)
  <2>1. \A i \in 1..N : e[i - 1] + 1 < e[i]
    <3>1. ASSUME NEW i \in 1..N PROVE e[i - 1] + 1 < e[i]
      <4>1. Len(parts[i]) # 0
        BY <1>6, <1>12, EmptySeq
      <4>. QED BY <1>6, <4>1
    <3>. QED BY <3>1
  <2>2. \A k \in 1..n : k \notin at => t[k] \in D
    <3>1. ASSUME NEW k \in 1..n, k \notin at PROVE t[k] \in D
      <4>1. PICK i \in 1..N : e[i - 1] < k /\ k < e[i]
        BY <1>9, <3>1
      <4>. QED BY <1>3, <1>11, <1>12, <4>1
    <3>. QED BY <3>1
  <2>3. \A k \in at : k + 1 \in 1..n /\ k + 1 \notin at
    <3>1. ASSUME NEW k \in at PROVE k + 1 \in 1..n /\ k + 1 \notin at
      <4>1. PICK j \in 0..N : e[j] = k
        <5>1. 0 <= k /\ k <= m
          BY <1>3, <1>4
        <5>. QED BY <1>2, <5>1 DEF Cuts, N
      <4>2. j # N /\ j \in Nat
        BY <1>3, <1>4, <1>8, <4>1
      <4>. DEFINE i == j + 1
      <4>3. i \in 1..N /\ i - 1 = j
        BY <1>8, <4>2
      <4>. HIDE DEF i
      <4>4. e[i - 1] = k /\ k \in Nat
        BY <1>4, <4>1, <4>3
      <4>5. k + 1 \in Nat /\ e[i - 1] < k + 1 /\ k + 1 < e[i]
        BY <2>1, <4>3, <4>4
      <4>. QED BY <1>5, <1>4, <1>11, <4>3, <4>5
    <3>. QED BY <3>1
  <2>4. 1 \in 1..N /\ 1 - 1 = 0 /\ N \in 1..N
    BY <1>8
  <2>5. n >= 1
    <3>1. e[0] + 1 < e[1] /\ e[1] <= m /\ e[1] \in Nat
      BY <1>6, <2>1, <2>4
    <3>. QED BY <1>3, <1>8, <3>1
  <2>6. 1 \notin at
    <3>1. e[1 - 1] < 1 /\ 1 < e[1]
      BY <1>6, <1>8, <2>1, <2>4
    <3>. QED BY <1>10, <2>4, <3>1
  <2>7. n \notin at
    <3>1. n \in at => n + 1 \in 1..n
      BY <2>3
    <3>. QED BY <1>3, <3>1
  <2>8. 1 \in 1..n /\ n \in 1..n
    BY <1>3, <2>5
  <2>9. \A i \in 1..n : t[i] \in D \cup {dot}
    BY <1>4, <2>2
  <2>10. \A i \in 1..(n - 1) : t[i] = dot => t[i + 1] \in D
    <3>1. \A i \in 1..(n - 1) : i \in 1..n
      BY <1>3
    <3>. QED BY <1>5, <2>2, <2>3, <3>1
  <2>. QED BY <2>2, <2>5, <2>6, <2>7, <2>8, <2>9, <2>10 DEF Dotted, n
<1>13. ASSUME Dotted(t, dot, D), NEW i \in 1..N
       PROVE  parts[i] # <<>> /\ Range(parts[i]) \subseteq D
  <2>1. /\ n >= 1 /\ t[1] \in D /\ t[n] \in D
        /\ \A k \in 1..n : t[k] \in D \cup {dot}
        /\ \A k \in 1..(n - 1) : t[k] = dot => t[k + 1] \in D
    BY <1>13 DEF Dotted, n
  <2>. DEFINE p == e[i - 1]
              q == e[i]
  <2>2. /\ p \in Nat /\ q \in Nat /\ p < q /\ q <= m
        /\ p = 0 \/ p \in at
        /\ q = m \/ q \in at
        /\ Len(parts[i]) = q - p - 1
        /\ \A x \in 1..(q - p - 1) : parts[i][x] = t[p + x]
    BY <1>6
  <2>3. Range(parts[i]) \subseteq D
    <3>1. ASSUME NEW x \in 1..(q - p - 1)
          PROVE  parts[i][x] \in D
      <4>. DEFINE k == p + x
      <4>1. k \in Nat /\ p < k /\ k < q
        BY <2>2, SMTT(30)
      <4>. HIDE DEF k
      <4>2. k \in 1..n /\ t[k] # dot
        BY <1>11, <4>1
      <4>3. t[k] \in D
        BY <2>1, <4>2
      <4>. QED BY <2>2, <4>3 DEF k
    <3>2. Range(parts[i]) = {parts[i][x] : x \in 1..Len(parts[i])}
      BY <1>6 DEF Range
    <3>. QED BY <2>2, <3>1, <3>2
  <2>. HIDE DEF p, q
  <2>4. q # p + 1
    <3>. SUFFICES ASSUME q = p + 1 PROVE FALSE
      OBVIOUS
    <3>1. CASE p = 0
      <4>1. q = 1 /\ 1 \in 1..n
        BY <1>3, <2>1, <3>1
      <4>2. q # m
        BY <1>3, <2>1, <4>1
      <4>. QED BY <1>4, <2>1, <2>2, <4>1, <4>2
    <3>2. CASE p \in at
      <4>1. p \in 1..n /\ t[p] = dot
        BY <1>4, <3>2
      <4>2. CASE q = m
        <5>1. p = n
          BY <1>3, <2>2, <4>2
        <5>. QED BY <2>1, <4>1, <5>1
      <4>3. CASE q \in at
        <5>1. t[p + 1] = dot /\ p + 1 \in 1..n
          BY <1>4, <4>3
        <5>2. p \in 1..(n - 1)
          BY <1>3, <4>1, <5>1
        <5>. QED BY <2>1, <4>1, <5>1, <5>2
      <4>. QED BY <2>2, <4>2, <4>3
    <3>. QED BY <2>2, <3>1, <3>2
  <2>5. Len(parts[i]) # 0
    BY <2>2, <2>4
  <2>6. Len(<<>>) = 0
    OBVIOUS
  <2>. QED BY <2>3, <2>5, <2>6
<1>14. (\A part \in Range(parts) : part # <<>> /\ Range(part) \subseteq D)
          <=> \A i \in 1..N : parts[i] # <<>> /\ Range(parts[i]) \subseteq D
  BY <1>7
<1>. QED BY <1>12, <1>13, <1>14 DEF parts

(* isVersionSegment reads a version as a whole. *)
VersionTokens == {"v", "."} \cup Req!VersionDigits

LEMMA VersionRead ==
    ASSUME NEW S, NEW s \in Seq(S)
    PROVE  /\ Req!isVersionSegment(s) <=> Req!IsVersion(s)
           /\ Req!IsVersion(s) => Len(s) >= 2 /\ \A k \in 1..Len(s) : s[k] \in VersionTokens
<1>. DEFINE D == Req!VersionDigits
            n == Len(s)
            t == Tail(s)
<1>1. n \in Nat
  OBVIOUS
<1>2. ASSUME n >= 2
      PROVE  /\ t \in Seq(S) /\ Len(t) = n - 1 /\ \A i \in 1..(n - 1) : t[i] = s[i + 1]
  <2>1. s # <<>>
    BY <1>2
  <2>. QED BY <2>1, HeadTailProperties
<1>. HIDE DEF n, t, D
<1>3. ASSUME n >= 2, NEW dot
      PROVE  Dotted(t, dot, D) <=> /\ s[2] \in D /\ s[n] \in D
                                   /\ \A i \in 2..n : s[i] \in D \cup {dot}
                                   /\ \A i \in 2..(n - 1) : s[i] = dot => s[i + 1] \in D
  <2>1. Len(t) = n - 1 /\ Len(t) >= 1 /\ t[1] = s[2] /\ t[n - 1] = s[n]
    <3>1. 1 \in 1..(n - 1) /\ n - 1 \in 1..(n - 1) /\ 1 + 1 = 2 /\ (n - 1) + 1 = n
      BY <1>1, <1>3
    <3>. QED BY <1>1, <1>2, <1>3, <3>1
  <2>2. (\A i \in 1..(n - 1) : t[i] \in D \cup {dot}) <=> \A i \in 2..n : s[i] \in D \cup {dot}
    <3>1. \A i \in 2..n : i - 1 \in 1..(n - 1) /\ (i - 1) + 1 = i
      BY <1>1
    <3>2. \A i \in 1..(n - 1) : i + 1 \in 2..n
      BY <1>1
    <3>. QED BY <1>2, <1>3, <3>1, <3>2
  <2>3. (\A i \in 1..((n - 1) - 1) : t[i] = dot => t[i + 1] \in D)
          <=> \A i \in 2..(n - 1) : s[i] = dot => s[i + 1] \in D
    <3>1. ASSUME \A i \in 1..((n - 1) - 1) : t[i] = dot => t[i + 1] \in D, NEW i \in 2..(n - 1)
          PROVE  s[i] = dot => s[i + 1] \in D
      <4>. DEFINE k == i - 1
      <4>1. k \in 1..((n - 1) - 1) /\ k \in 1..(n - 1) /\ i \in 1..(n - 1) /\ k + 1 = i
        BY <1>1
      <4>. HIDE DEF k
      <4>2. t[k] = s[i] /\ t[k + 1] = s[i + 1]
        BY <1>2, <1>3, <4>1
      <4>. QED BY <3>1, <4>1, <4>2
    <3>2. ASSUME \A i \in 2..(n - 1) : s[i] = dot => s[i + 1] \in D, NEW k \in 1..((n - 1) - 1)
          PROVE  t[k] = dot => t[k + 1] \in D
      <4>. DEFINE i == k + 1
      <4>1. i \in 2..(n - 1) /\ i \in 1..(n - 1) /\ k \in 1..(n - 1)
        BY <1>1
      <4>2. t[k] = s[i] /\ t[i] = s[i + 1]
        BY <1>2, <1>3, <4>1
      <4>. HIDE DEF i
      <4>3. t[i] \in D \/ t[k] # dot
        BY <3>2, <4>1, <4>2
      <4>. QED BY <4>3 DEF i
    <3>. QED BY <3>1, <3>2
  <2>. QED BY <2>1, <2>2, <2>3 DEF Dotted
<1>4. "." \notin D /\ "." \notin NotSplits
  BY DEF D, Req!VersionDigits, NotSplits
<1>5. ASSUME n >= 2
      PROVE  (\A part \in Range(Req!Split(t, ".")) : part # <<>> /\ Range(part) \subseteq D)
                <=> /\ s[2] \in D /\ s[n] \in D
                    /\ \A i \in 2..n : s[i] \in D \cup {"."}
                    /\ \A i \in 2..(n - 1) : s[i] = "." => s[i + 1] \in D
  BY <1>2, <1>3, <1>4, <1>5, DottedParts, Zenon
<1>6. Req!isVersionSegment(s) <=> Req!IsVersion(s)
  BY <1>5, Zenon DEF Req!isVersionSegment, Req!IsVersion, Req!Range, Range, n, t, D
<1>7. ASSUME Req!IsVersion(s)
      PROVE  n >= 2 /\ \A k \in 1..n : s[k] \in VersionTokens
  <2>1. n >= 2 /\ s[1] = "v" /\ \A i \in 2..n : s[i] \in D \cup {"."}
    BY <1>7, Zenon DEF Req!IsVersion, n, D
  <2>2. \A k \in 1..n : k = 1 \/ k \in 2..n
    BY <1>1
  <2>3. "v" \in VersionTokens /\ D \cup {"."} \subseteq VersionTokens
    BY Zenon DEF VersionTokens, D
  <2>. QED BY <2>1, <2>2, <2>3, Zenon
<1>. QED BY <1>6, <1>7 DEF n

(* From i to j stands the path: PathStands, for any tokens. *)
Stands(u, q, c, i, j) ==
    /\ \A k \in 1..(i - 1) : u[k] = c
    /\ u[i] # c /\ u[j] # c
    /\ \A k \in i..j : u[k] # q
    /\ \E l \in j..Len(u) :
        /\ \A k \in (j + 1)..l : u[k] = c
        /\ l = Len(u) \/ u[l + 1] = q

LEMMA CutFirst ==
    ASSUME NEW S, NEW u \in Seq(S), NEW q
    PROVE  \E n \in 0..Len(u) :
              /\ Req!CutAt(u, q) = SubSeq(u, 1, n)
              /\ \A k \in 1..n : u[k] # q
              /\ n = Len(u) \/ u[n + 1] = q
<1>. DEFINE met == {i \in DOMAIN u : u[i] = q}
<1>1. DOMAIN u = 1..Len(u) /\ Len(u) \in Nat
  OBVIOUS
<1>2. CASE met = {}
  <2>1. SubSeq(u, 1, Len(u)) = u
    OBVIOUS
  <2>2. Req!CutAt(u, q) = u
    BY <1>2 DEF Req!CutAt
  <2>3. Len(u) \in 0..Len(u) /\ \A k \in 1..Len(u) : u[k] # q
    BY <1>1, <1>2
  <2>. QED BY <2>1, <2>2, <2>3, ZenonT(30)
<1>3. CASE met # {}
  <2>1. met \in SUBSET Nat
    BY <1>1
  <2>. DEFINE a == Min(met)
  <2>2. Req!CutAt(u, q) = SubSeq(u, 1, a - 1)
    BY <1>3 DEF Req!CutAt, Req!Min, Min
  <2>. HIDE DEF met
  <2>3. a \in met /\ \A k \in met : a <= k
    BY <1>3, <2>1, Least
  <2>. HIDE DEF a
  <2>4. a \in 1..Len(u) /\ u[a] = q /\ \A k \in 1..Len(u) : u[k] = q => a <= k
    BY <1>1, <2>3 DEF met
  <2>. DEFINE n == a - 1
  <2>5. n \in 0..Len(u) /\ n + 1 = a /\ \A k \in 1..n : k \in 1..Len(u) /\ ~(a <= k)
    BY <1>1, <2>4
  <2>. QED BY <2>2, <2>4, <2>5
<1>. QED BY <1>2, <1>3

(* What is left of a URI is the one path that stands in it. *)
LEMMA PathLeft ==
    ASSUME NEW S, NEW u \in Seq(S), NEW q, NEW c, q # c
    PROVE  LET w == Req!Trim(Req!CutAt(u, q), c)
           IN  \/ /\ w = <<>>
                  /\ \A i, j \in 1..Len(u) : i <= j => ~Stands(u, q, c, i, j)
               \/ \E a, b \in 1..Len(u) :
                    /\ a <= b /\ w = SubSeq(u, a, b) /\ u[a] # c /\ u[b] # c
                    /\ \A i, j \in 1..Len(u) : i <= j => (Stands(u, q, c, i, j) <=> i = a /\ j = b)
<1>. DEFINE t == Req!CutAt(u, q)
            w == Req!Trim(t, c)
            m == Len(u)
<1>1. PICK n \in 0..m : /\ t = SubSeq(u, 1, n)
                        /\ \A k \in 1..n : u[k] # q
                        /\ n = m \/ u[n + 1] = q
  BY CutFirst
<1>2. m \in Nat
  OBVIOUS
<1>3. t \in Seq(S) /\ Len(t) = n /\ \A k \in 1..n : t[k] = u[k]
  <2>1. \A k \in 1..n : u[k] \in S
    BY <1>2, ElementOfSeq
  <2>2. /\ SubSeq(u, 1, n) \in Seq(S)
        /\ Len(SubSeq(u, 1, n)) = IF 1 <= n THEN n - 1 + 1 ELSE 0
        /\ \A k \in 1..(n - 1 + 1) : SubSeq(u, 1, n)[k] = u[1 + k - 1]
    BY <1>1, <1>2, <2>1, SubSeqProperties
  <2>3. (IF 1 <= n THEN n - 1 + 1 ELSE 0) = n /\ n - 1 + 1 = n /\ \A k \in 1..n : 1 + k - 1 = k
    BY <1>1, <1>2
  <2>. QED BY <1>1, <2>2, <2>3
<1>. HIDE DEF t, w, m
<1>4. CASE w = <<>> /\ \A k \in 1..n : t[k] = c
  <2>1. ASSUME NEW i \in 1..m, NEW j \in 1..m, i <= j, Stands(u, q, c, i, j)
        PROVE  FALSE
    <3>1. /\ \A k \in 1..(i - 1) : u[k] = c
          /\ u[i] # c
          /\ \A k \in i..j : u[k] # q
      BY <2>1 DEF Stands
    <3>2. i \notin 1..n
      BY <1>3, <1>4, <3>1
    <3>3. n # m /\ n + 1 <= i
      BY <1>1, <1>2, <3>2
    <3>4. n + 1 \in 1..(i - 1) \/ n + 1 = i
      BY <1>1, <1>2, <3>3
    <3>5. i \in i..j
      BY <2>1
    <3>. QED BY <1>1, <3>1, <3>3, <3>4, <3>5
  <2>. QED BY <1>4, <2>1 DEF w, t, m
<1>5. ASSUME NEW a \in 1..n, NEW b \in 1..n, a <= b, t[a] # c, t[b] # c,
             \A k \in 1..n : k < a \/ b < k => t[k] = c, w = SubSeq(t, a, b)
      PROVE  /\ a \in 1..m /\ b \in 1..m /\ w = SubSeq(u, a, b) /\ u[a] # c /\ u[b] # c
             /\ \A i, j \in 1..m : i <= j => (Stands(u, q, c, i, j) <=> i = a /\ j = b)
  <2>1. a \in 1..m /\ b \in 1..m /\ u[a] # c /\ u[b] # c
    BY <1>1, <1>2, <1>3, <1>5
  <2>2. \A k \in 1..n : k < a \/ b < k => u[k] = c
    BY <1>3, <1>5
  <2>3. Stands(u, q, c, a, b)
    <3>1. \A k \in 1..(a - 1) : k \in 1..n /\ k < a
      BY <1>1, <1>5
    <3>2. \A k \in a..b : k \in 1..n
      BY <1>1, <1>5
    <3>3. \A k \in (b + 1)..n : k \in 1..n /\ b < k
      BY <1>1, <1>5
    <3>4. n \in b..m
      BY <1>1, <1>2, <1>5
    <3>5. \E l \in b..m : /\ \A k \in (b + 1)..l : u[k] = c
                          /\ l = m \/ u[l + 1] = q
      BY <1>1, <2>2, <3>3, <3>4
    <3>. QED BY <1>1, <2>1, <2>2, <3>1, <3>2, <3>5 DEF Stands, m
  <2>4. ASSUME NEW i \in 1..m, NEW j \in 1..m, i <= j, Stands(u, q, c, i, j)
        PROVE  i = a /\ j = b
    <3>1. /\ \A k \in 1..(i - 1) : u[k] = c
          /\ u[i] # c /\ u[j] # c
          /\ \A k \in i..j : u[k] # q
      BY <2>4 DEF Stands
    <3>2. PICK l \in j..m : (\A k \in (j + 1)..l : u[k] = c) /\ (l = m \/ u[l + 1] = q)
      BY <2>4 DEF Stands, m
    <3>3. ~(a < i)
      <4>1. a < i => a \in 1..(i - 1)
        BY <1>5, <2>1
      <4>. QED BY <2>1, <3>1, <4>1
    <3>4. ~(i < a)
      <4>1. i < a => i \in 1..n
        BY <1>5, <2>4
      <4>. QED BY <2>2, <3>1, <4>1
    <3>5. i = a
      BY <2>1, <2>4, <3>3, <3>4
    <3>6. j <= n
      <4>1. n < j => n + 1 \in i..j /\ n # m
        BY <1>1, <1>2, <1>5, <2>4, <3>5
      <4>. QED BY <1>1, <2>4, <3>1, <4>1
    <3>7. ~(b < j)
      <4>1. b < j => j \in 1..n
        BY <2>4, <3>6
      <4>. QED BY <2>2, <3>1, <4>1
    <3>8. ~(j < b)
      <4>. SUFFICES ASSUME j < b PROVE FALSE
        OBVIOUS
      <4>1. ~(b <= l)
        <5>1. b <= l => b \in (j + 1)..l
          BY <1>5, <2>4, <3>2
        <5>. QED BY <2>1, <3>2, <5>1
      <4>2. l # m /\ l + 1 \in 1..n
        BY <1>1, <1>2, <1>5, <2>1, <2>4, <3>2, <4>1
      <4>. QED BY <1>1, <3>2, <4>2
    <3>. QED BY <2>1, <2>4, <3>5, <3>7, <3>8
  <2>5. w = SubSeq(u, a, b)
    <3>1. \A k \in a..b : t[k] = u[k] /\ u[k] \in S
      <4>1. \A k \in a..b : k \in 1..n /\ k \in 1..m
        BY <1>1, <1>2, <1>5
      <4>2. \A k \in 1..m : u[k] \in S
        BY ElementOfSeq DEF m
      <4>. QED BY <1>3, <4>1, <4>2
    <3>2. /\ SubSeq(t, a, b) \in Seq(S) /\ Len(SubSeq(t, a, b)) = b - a + 1
          /\ \A i \in 1..(b - a + 1) : SubSeq(t, a, b)[i] = t[a + i - 1]
      BY <1>5, <3>1, SubSeqProperties
    <3>3. /\ SubSeq(u, a, b) \in Seq(S) /\ Len(SubSeq(u, a, b)) = b - a + 1
          /\ \A i \in 1..(b - a + 1) : SubSeq(u, a, b)[i] = u[a + i - 1]
      BY <1>5, <3>1, SubSeqProperties
    <3>4. \A i \in 1..(b - a + 1) : a + i - 1 \in a..b
      BY <1>5
    <3>. DEFINE x == SubSeq(t, a, b)
                y == SubSeq(u, a, b)
    <3>5. /\ x \in Seq(S) /\ y \in Seq(S) /\ Len(x) = Len(y)
          /\ \A i \in 1..Len(x) : x[i] = y[i]
      BY <3>1, <3>2, <3>3, <3>4
    <3>. HIDE DEF x, y
    <3>6. x = y
      BY <3>5, SeqEqual
    <3>. QED BY <1>5, <3>6 DEF x, y
  <2>. QED BY <2>1, <2>3, <2>4, <2>5
<1>6. \/ w = <<>> /\ \A k \in 1..n : t[k] = c
      \/ \E a, b \in 1..n :
            /\ a <= b /\ t[a] # c /\ t[b] # c
            /\ \A k \in 1..n : k < a \/ b < k => t[k] = c
            /\ w = SubSeq(t, a, b)
  <2>1. \/ w = <<>> /\ \A k \in 1..Len(t) : t[k] = c
        \/ \E a, b \in 1..Len(t) :
              /\ a <= b /\ t[a] # c /\ t[b] # c
              /\ \A k \in 1..Len(t) : k < a \/ b < k => t[k] = c
              /\ w = SubSeq(t, a, b)
    <3>1. t \in Seq(S)
      BY <1>3
    <3>. QED BY <3>1, TrimFacts, ZenonT(30) DEF w
  <2>. QED BY <1>3, <2>1
<1>7. CASE \E a, b \in 1..n :
            /\ a <= b /\ t[a] # c /\ t[b] # c
            /\ \A k \in 1..n : k < a \/ b < k => t[k] = c
            /\ w = SubSeq(t, a, b)
  <2>1. PICK a \in 1..n, b \in 1..n :
            /\ a <= b /\ t[a] # c /\ t[b] # c
            /\ \A k \in 1..n : k < a \/ b < k => t[k] = c
            /\ w = SubSeq(t, a, b)
    BY <1>7
  <2>2. /\ a \in 1..m /\ b \in 1..m /\ w = SubSeq(u, a, b) /\ u[a] # c /\ u[b] # c
        /\ \A i, j \in 1..m : i <= j => (Stands(u, q, c, i, j) <=> i = a /\ j = b)
    BY <1>5, <2>1
  <2>. QED BY <2>1, <2>2 DEF w, t, m
<1>. QED BY <1>4, <1>6, <1>7

(* The text after a position. *)
LEMMA Rest ==
    ASSUME NEW S, NEW w \in Seq(S), NEW r \in Nat, r <= Len(w)
    PROVE  LET t == SubSeq(w, r + 1, Len(w))
           IN  t \in Seq(S) /\ Len(t) = Len(w) - r /\ \A k \in 1..(Len(w) - r) : t[k] = w[r + k]
<1>. DEFINE n == Len(w)
            t == SubSeq(w, r + 1, n)
<1>1. n \in Nat /\ \A k \in 1..n : w[k] \in S
  BY ElementOfSeq
<1>. HIDE DEF n
<1>2. \A k \in (r + 1)..n : w[k] \in S
  BY <1>1
<1>3. /\ t \in Seq(S)
      /\ Len(t) = IF r + 1 <= n THEN n - (r + 1) + 1 ELSE 0
      /\ \A k \in 1..(n - (r + 1) + 1) : t[k] = w[r + 1 + k - 1]
  BY <1>1, <1>2, SubSeqProperties
<1>. HIDE DEF t
<1>4. r <= n
  BY DEF n
<1>5. (IF r + 1 <= n THEN n - (r + 1) + 1 ELSE 0) = n - r /\ n - (r + 1) + 1 = n - r
  BY <1>1, <1>4
<1>6. \A k \in 1..(n - r) : r + 1 + k - 1 = r + k
  BY <1>1
<1>. QED BY <1>3, <1>5, <1>6 DEF t, n

(* The same part, of a text and of the text around it. *)
LEMMA Shifted ==
    ASSUME NEW S, NEW u, NEW w \in Seq(S), NEW d \in Nat, \A k \in 1..Len(w) : w[k] = u[d + k]
    PROVE  \A x \in 1..Len(w), y \in 0..Len(w) : SubSeq(w, x, y) = SubSeq(u, d + x, d + y)
<1>. DEFINE l == Len(w)
<1>0. l \in Nat /\ \A k \in 1..l : w[k] = u[d + k] /\ w[k] \in S
  BY ElementOfSeq
<1>. HIDE DEF l
<1>. SUFFICES ASSUME NEW x \in 1..l, NEW y \in 0..l
              PROVE  SubSeq(w, x, y) = SubSeq(u, d + x, d + y)
  BY DEF l
<1>. DEFINE p == d + x
            q == d + y
            s == SubSeq(w, x, y)
            t == SubSeq(u, p, q)
            n == IF x <= y THEN (y - x) + 1 ELSE 0
<1>1. x \in Int /\ y \in Int /\ p \in Int /\ q \in Int /\ n \in Nat
  BY <1>0
<1>2. /\ y - x + 1 = q - p + 1
      /\ (IF x <= y THEN y - x + 1 ELSE 0) = n /\ (IF p <= q THEN q - p + 1 ELSE 0) = n
      /\ \A k \in 1..n : k \in 1..(y - x + 1) /\ k \in 1..(q - p + 1)
      /\ \A k \in 1..n : x + k - 1 \in 1..l /\ d + (x + k - 1) = p + k - 1
  BY <1>0
<1>3. \A k \in x..y : w[k] \in S
  BY <1>0
<1>4. \A k \in p..q : u[k] \in S
  <2>1. ASSUME NEW k \in p..q PROVE u[k] \in S
    <3>. DEFINE j == k - d
    <3>1. j \in 1..l /\ d + j = k
      BY <1>0
    <3>. HIDE DEF j
    <3>. QED BY <1>0, <3>1
  <2>. QED BY <2>1
<1>. HIDE DEF p, q
<1>5. /\ s \in Seq(S) /\ Len(s) = IF x <= y THEN y - x + 1 ELSE 0
      /\ \A k \in 1..(y - x + 1) : s[k] = w[x + k - 1]
  <2>. HIDE DEF t, n
  <2>. QED BY <1>1, <1>3, SubSeqProperties
<1>6. /\ t \in Seq(S) /\ Len(t) = IF p <= q THEN q - p + 1 ELSE 0
      /\ \A k \in 1..(q - p + 1) : t[k] = u[p + k - 1]
  <2>. HIDE DEF s, n
  <2>. QED BY <1>1, <1>4, SubSeqProperties
<1>. HIDE DEF s, t, n
<1>7. ASSUME NEW k \in 1..n PROVE s[k] = t[k]
  <2>. DEFINE z == x + k - 1
  <2>1. s[k] = w[z] /\ t[k] = u[p + k - 1] /\ z \in 1..l /\ d + z = p + k - 1
    BY <1>2, <1>5, <1>6
  <2>. HIDE DEF z
  <2>. QED BY <1>0, <2>1
<1>8. Len(s) = n /\ Len(t) = n
  BY <1>2, <1>5, <1>6
<1>9. s = t
  BY <1>5, <1>6, <1>7, <1>8, SeqEqual
<1>. QED BY <1>9 DEF s, t, p, q

(* A part of a part. *)
LEMMA Inner ==
    ASSUME NEW S, NEW u \in Seq(S), NEW a \in 1..Len(u), NEW b \in 1..Len(u), a <= b,
           NEW w, w = SubSeq(u, a, b)
    PROVE  /\ w \in Seq(S) /\ Len(w) = (b - a) + 1
           /\ \A k \in 1..Len(w) : w[k] = u[(a - 1) + k]
           /\ \A x \in 1..Len(w), y \in 0..Len(w) :
                  SubSeq(w, x, y) = SubSeq(u, (a - 1) + x, (a - 1) + y)
<1>. DEFINE l == (b - a) + 1
<1>1. \A k \in 1..Len(u) : u[k] \in S
  BY ElementOfSeq
<1>2. Len(u) \in Nat /\ l \in Nat
  OBVIOUS
<1>3. w \in Seq(S) /\ Len(w) = l /\ \A k \in 1..l : w[k] = u[(a - 1) + k]
  <2>1. \A k \in a..b : u[k] \in S
    BY <1>1, <1>2
  <2>2. /\ SubSeq(u, a, b) \in Seq(S)
        /\ Len(SubSeq(u, a, b)) = IF a <= b THEN b - a + 1 ELSE 0
        /\ \A k \in 1..(b - a + 1) : SubSeq(u, a, b)[k] = u[a + k - 1]
    BY <1>2, <2>1, SubSeqProperties
  <2>3. b - a + 1 = l /\ \A k \in 1..l : a + k - 1 = (a - 1) + k
    BY <1>2
  <2>. QED BY <2>2, <2>3
<1>. DEFINE d == a - 1
<1>4. d \in Nat /\ Len(w) = l /\ \A k \in 1..Len(w) : w[k] = u[d + k]
  BY <1>3
<1>. HIDE DEF l, d
<1>5. \A x \in 1..Len(w), y \in 0..Len(w) : SubSeq(w, x, y) = SubSeq(u, d + x, d + y)
  BY <1>3, <1>4, Shifted
<1>. QED BY <1>3, <1>4, <1>5 DEF l, d

(* What may be read in a URI: its path, or what follows a version in it. *)
IsReading(u, q, c, t) ==
    \E i, v, j \in DOMAIN u :
        /\ i <= v /\ v <= j
        /\ Stands(u, q, c, i, j)
        /\ v = i \/ (v > i + 1 /\ u[v - 1] = c /\ Req!IsVersion(SubSeq(u, i, v - 2)))
        /\ t = SubSeq(u, v, j)

AfterVersion(w, c, v) == v > 2 /\ w[v - 1] = c /\ Req!IsVersion(SubSeq(w, 1, v - 2))

LEMMA ReadingsOfPath ==
    ASSUME NEW S, NEW u \in Seq(S), NEW q, NEW c, q # c, NEW t
    PROVE  LET w == Req!Trim(Req!CutAt(u, q), c)
           IN  /\ w \in Seq(S)
               /\ w # <<>> => w[1] # c /\ w[Len(w)] # c
               /\ IsReading(u, q, c, t) <=>
                    /\ w # <<>>
                    /\ \E v \in 1..Len(w) : /\ v = 1 \/ AfterVersion(w, c, v)
                                            /\ t = SubSeq(w, v, Len(w))
<1>. DEFINE w == Req!Trim(Req!CutAt(u, q), c)
            m == Len(u)
<1>1. \/ /\ w = <<>>
         /\ \A i, j \in 1..m : i <= j => ~Stands(u, q, c, i, j)
      \/ \E a, b \in 1..m :
            /\ a <= b /\ w = SubSeq(u, a, b) /\ u[a] # c /\ u[b] # c
            /\ \A i, j \in 1..m : i <= j => (Stands(u, q, c, i, j) <=> i = a /\ j = b)
  BY PathLeft
<1>2. DOMAIN u = 1..m /\ m \in Nat
  OBVIOUS
<1>. HIDE DEF w, m
<1>3. CASE w = <<>> /\ \A i, j \in 1..m : i <= j => ~Stands(u, q, c, i, j)
  <2>1. ~IsReading(u, q, c, t)
    <3>1. \A i, v, j \in 1..m : i <= v /\ v <= j => i <= j
      BY <1>2
    <3>. QED BY <1>2, <1>3, <3>1 DEF IsReading
  <2>2. <<>> \in Seq(S)
    OBVIOUS
  <2>. QED BY <1>3, <2>1, <2>2 DEF w
<1>4. ASSUME NEW a \in 1..m, NEW b \in 1..m, a <= b, w = SubSeq(u, a, b), u[a] # c, u[b] # c,
             \A i, j \in 1..m : i <= j => (Stands(u, q, c, i, j) <=> i = a /\ j = b)
      PROVE  /\ w \in Seq(S) /\ w # <<>> /\ w[1] # c /\ w[Len(w)] # c
             /\ IsReading(u, q, c, t) <=>
                    \E v \in 1..Len(w) : /\ v = 1 \/ AfterVersion(w, c, v)
                                         /\ t = SubSeq(w, v, Len(w))
  <2>. DEFINE l == Len(w)
  <2>1. /\ w \in Seq(S) /\ l = (b - a) + 1
        /\ \A k \in 1..l : w[k] = u[(a - 1) + k]
        /\ \A x \in 1..l, y \in 0..l : SubSeq(w, x, y) = SubSeq(u, (a - 1) + x, (a - 1) + y)
    BY <1>4, Inner DEF m
  <2>2. /\ l \in Nat /\ 1 \in 1..l /\ l \in 1..l /\ l \in 0..l
        /\ (a - 1) + 1 = a /\ (a - 1) + l = b
    BY <1>4, <2>1
  <2>3. w # <<>>
    <3>1. Len(<<>>) = 0
      OBVIOUS
    <3>. QED BY <2>2, <3>1
  <2>. HIDE DEF l
  <2>4. w[1] # c /\ w[l] # c
    BY <1>4, <2>1, <2>2
  <2>. DEFINE V(v) == v = a \/ (v > a + 1 /\ u[v - 1] = c /\ Req!IsVersion(SubSeq(u, a, v - 2)))
              X(x) == x = 1 \/ AfterVersion(w, c, x)
  <2>5. IsReading(u, q, c, t) <=> \E v \in a..b : V(v) /\ t = SubSeq(u, v, b)
    <3>1. \A i, v, j \in 1..m : i <= v /\ v <= j => i <= j
      BY <1>2
    <3>2. \A v \in a..b : v \in 1..m /\ a <= v /\ v <= b
      BY <1>2, <1>4
    <3>3. \A v \in 1..m : a <= v /\ v <= b => v \in a..b
      BY <1>2
    <3>4. Stands(u, q, c, a, b)
      BY <1>4
    <3>5. ASSUME NEW v \in a..b, V(v), t = SubSeq(u, v, b)
          PROVE  IsReading(u, q, c, t)
      <4>1. a \in DOMAIN u /\ v \in DOMAIN u /\ b \in DOMAIN u /\ a <= v /\ v <= b
        BY <1>2, <1>4, <3>2
      <4>. QED BY <3>4, <3>5, <4>1 DEF IsReading
    <3>6. ASSUME IsReading(u, q, c, t)
          PROVE  \E v \in a..b : V(v) /\ t = SubSeq(u, v, b)
      <4>1. PICK i \in 1..m, v \in 1..m, j \in 1..m :
                /\ i <= v /\ v <= j
                /\ Stands(u, q, c, i, j)
                /\ v = i \/ (v > i + 1 /\ u[v - 1] = c /\ Req!IsVersion(SubSeq(u, i, v - 2)))
                /\ t = SubSeq(u, v, j)
        BY <1>2, <3>6 DEF IsReading
      <4>2. i = a /\ j = b
        BY <1>4, <3>1, <4>1
      <4>3. v \in a..b
        BY <3>3, <4>1, <4>2
      <4>. QED BY <4>1, <4>2, <4>3
    <3>. QED BY <3>5, <3>6
  <2>6. ASSUME NEW x \in 1..l
        PROVE  /\ (a - 1) + x \in a..b /\ (V((a - 1) + x) <=> X(x))
               /\ SubSeq(u, (a - 1) + x, b) = SubSeq(w, x, l)
    <3>. DEFINE v == (a - 1) + x
    <3>1. v \in a..b /\ (v = a <=> x = 1) /\ (v > a + 1 <=> x > 2)
      BY <1>2, <1>4, <2>1
    <3>2. SubSeq(u, v, b) = SubSeq(w, x, l)
      BY <2>1, <2>2
    <3>3. ASSUME x > 2
          PROVE  w[x - 1] = u[v - 1] /\ SubSeq(w, 1, x - 2) = SubSeq(u, a, v - 2)
      <4>1. x - 1 \in 1..l /\ x - 2 \in 0..l /\ (a - 1) + (x - 1) = v - 1 /\ (a - 1) + (x - 2) = v - 2
        BY <2>2, <3>3
      <4>. HIDE DEF v
      <4>. DEFINE y == x - 1
                  z == x - 2
      <4>2. w[y] = u[(a - 1) + y] /\ SubSeq(w, 1, z) = SubSeq(u, (a - 1) + 1, (a - 1) + z)
        BY <2>1, <2>2, <4>1
      <4>. QED BY <2>2, <4>1, <4>2
    <3>. HIDE DEF v
    <3>4. (v > a + 1 /\ u[v - 1] = c /\ Req!IsVersion(SubSeq(u, a, v - 2))) <=> AfterVersion(w, c, x)
      BY <3>1, <3>3 DEF AfterVersion
    <3>. QED BY <3>1, <3>2, <3>4 DEF v
  <2>7. \A v \in a..b : \E x \in 1..l : v = (a - 1) + x
    <3>1. ASSUME NEW v \in a..b PROVE \E x \in 1..l : v = (a - 1) + x
      <4>. DEFINE x == v - (a - 1)
      <4>1. x \in 1..l /\ v = (a - 1) + x
        BY <1>4, <2>1
      <4>. QED BY <4>1
    <3>. QED BY <3>1
  <2>. HIDE DEF V, X
  <2>8. IsReading(u, q, c, t) <=> \E x \in 1..l : X(x) /\ t = SubSeq(w, x, l)
    BY <2>5, <2>6, <2>7
  <2>. QED BY <2>1, <2>3, <2>4, <2>8 DEF X, l
<1>. QED BY <1>1, <1>3, <1>4 DEF w, m

(* The next cut, where nothing is cut before it. *)
LEMMA NextCutIs ==
    ASSUME NEW e, NEW parts, NEW s, NEW at \in SUBSET Int, NEW m \in Nat, Cuts(e, parts, s, at, m),
           NEW z \in 0..(Len(parts) - 1), NEW q \in (at \cup {m}) \cap Nat, e[z] < q, q <= m,
           \A r \in at : ~(e[z] < r /\ r < q)
    PROVE  e[z + 1] = q
<1>. DEFINE n == Len(parts)
            p == e[z]
<1>1. /\ n \in Nat \ {0} /\ (\A i \in 0..n : e[i] \in 0..m)
      /\ \A i \in 1..n : e[i] = m \/ e[i] \in at
  BY DEF Cuts
<1>2. e[0] = 0 /\ e[n] = m
  BY CutEnds
<1>3. z \in 0..n /\ (z = 0 \/ z \in 1..n)
  BY <1>1
<1>4. p \in (at \cup {0}) \cap Nat
  BY <1>1, <1>2, <1>3
<1>5. /\ p < q /\ q <= m /\ q \in (at \cup {m}) \cap Nat
      /\ \A r \in at : ~(p < r /\ r < q)
      /\ Cuts(e, parts, s, at, m) /\ at \in SUBSET Int /\ m \in Nat
  OBVIOUS
<1>. HIDE DEF p
<1>6. PICK i \in 1..n : e[i - 1] = p /\ e[i] = q
  <2>1. \E i \in 1..Len(parts) : e[i - 1] = p /\ e[i] = q
    <3>1. \A a \in (at \cup {0}) \cap Nat, b \in (at \cup {m}) \cap Nat :
            a < b /\ b <= m /\ (\A r \in at : ~(a < r /\ r < b))
            => \E i \in 1..Len(parts) : e[i - 1] = a /\ e[i] = b
      BY Consecutive
    <3>. QED BY <1>4, <1>5, <3>1
  <2>. QED BY <2>1
<1>. DEFINE j == i - 1
<1>7. j \in 0..n /\ i = j + 1 /\ e[j] = e[z]
  BY <1>1, <1>6 DEF p
<1>. HIDE DEF j
<1>8. j = z
  BY <1>3, <1>7, CutsIncrease
<1>. QED BY <1>6, <1>7, <1>8

(* What is used of the cuts of a text at the tokens c. *)
CutAtToken(e, parts, w, c) ==
    LET L == Len(w)
        n == Len(parts)
    IN  /\ n \in Nat \ {0} /\ e[0] = 0 /\ e[n] = L + 1
        /\ \A i \in 0..n : e[i] \in 0..(L + 1)
        /\ \A i, j \in 0..n : e[i] = e[j] => i = j
        /\ \A i \in 1..n : /\ e[i - 1] < e[i]
                           /\ e[i] \in 1..(L + 1)
                           /\ e[i] # L + 1 => w[e[i]] = c
                           /\ parts[i] = SubSeq(w, e[i - 1] + 1, e[i] - 1)
                           /\ Len(parts[i]) = e[i] - e[i - 1] - 1
                           /\ \A x \in 1..Len(parts[i]) : parts[i][x] = w[e[i - 1] + x]
                           /\ \A k \in (e[i - 1] + 1)..(e[i] - 1) : w[k] # c
        /\ \A i \in 0..(n - 1), q \in 1..(L + 1) :
              /\ e[i] < q
              /\ q = L + 1 \/ w[q] = c
              /\ \A k \in (e[i] + 1)..(q - 1) : w[k] # c
              => e[i + 1] = q

LEMMA SplitAtToken ==
    ASSUME NEW S, NEW w \in Seq(S), NEW c, c \notin NotSplits
    PROVE  Req!Split(w, c) \in Seq(Seq(S)) /\ \E e : CutAtToken(e, Req!Split(w, c), w, c)
<1>. DEFINE parts == Req!Split(w, c)
            at == {i \in 1..Len(w) : w[i] = c}
            L == Len(w)
            m == L + 1
            n == Len(parts)
<1>1. parts \in Seq(Seq(S)) /\ \E e : Cuts(e, parts, w, at, Len(w) + 1)
  BY SplitCuts
<1>2. PICK e : Cuts(e, parts, w, at, m)
  BY <1>1
<1>3. L \in Nat /\ m \in Nat /\ at \in SUBSET Int /\ m = L + 1
  OBVIOUS
<1>4. \A k \in 1..L : k \in at <=> w[k] = c
  OBVIOUS
<1>5. at \in SUBSET (1..L)
  OBVIOUS
<1>. HIDE DEF parts
<1>6. \A i \in 1..n : /\ e[i - 1] \in Nat /\ e[i] \in Nat /\ e[i - 1] < e[i] /\ e[i] <= m
                      /\ e[i] = m \/ e[i] \in at
                      /\ parts[i] = Between(w, e[i - 1], e[i])
                      /\ Len(parts[i]) = e[i] - e[i - 1] - 1
                      /\ \A x \in 1..(e[i] - e[i - 1] - 1) : parts[i][x] = w[e[i - 1] + x]
  <2>. HIDE DEF at
  <2>. QED BY <1>2, PartFacts
<1>. HIDE DEF at, L, m
<1>7. n \in Nat \ {0} /\ \A i \in 0..n : e[i] \in 0..m
  BY <1>2 DEF Cuts
<1>8. e[0] = 0 /\ e[n] = m
  BY <1>2, <1>3, CutEnds
<1>9. \A i, j \in 0..n : e[i] = e[j] => i = j
  BY <1>2, <1>3, CutsIncrease
<1>10. \A i \in 1..n : \A k \in Nat : e[i - 1] < k /\ k < e[i] => k \notin at
  BY <1>2, <1>3, NoCutInside
<1>11. \A i \in 0..(n - 1), q \in (at \cup {m}) \cap Nat :
            e[i] < q /\ q <= m /\ (\A r \in at : ~(e[i] < r /\ r < q)) => e[i + 1] = q
  BY <1>2, <1>3, NextCutIs
<1>. HIDE DEF n
<1>12. ASSUME NEW i \in 1..n
       PROVE  /\ e[i - 1] < e[i]
              /\ e[i] \in 1..m
              /\ e[i] # m => w[e[i]] = c
              /\ parts[i] = SubSeq(w, e[i - 1] + 1, e[i] - 1)
              /\ Len(parts[i]) = e[i] - e[i - 1] - 1
              /\ \A x \in 1..Len(parts[i]) : parts[i][x] = w[e[i - 1] + x]
              /\ \A k \in (e[i - 1] + 1)..(e[i] - 1) : w[k] # c
  <2>. DEFINE p == e[i - 1]
              q == e[i]
  <2>1. /\ p \in Nat /\ q \in Nat /\ p < q /\ q <= m /\ (q = m \/ q \in at)
        /\ parts[i] = Between(w, p, q) /\ Len(parts[i]) = q - p - 1
        /\ \A x \in 1..(q - p - 1) : parts[i][x] = w[p + x]
    BY <1>6
  <2>2. \A k \in Nat : p < k /\ k < q => k \notin at
    BY <1>10
  <2>. HIDE DEF p, q
  <2>3. q \in 1..m /\ (q # m => w[q] = c)
    BY <1>3, <1>4, <1>5, <2>1
  <2>4. \A k \in (p + 1)..(q - 1) : w[k] # c
    <3>1. ASSUME NEW k \in (p + 1)..(q - 1) PROVE w[k] # c
      <4>1. k \in Nat /\ p < k /\ k < q /\ k \in 1..L
        BY <1>3, <2>1, SMTT(30)
      <4>. QED BY <1>4, <2>2, <4>1
    <3>. QED BY <3>1
  <2>5. parts[i] = SubSeq(w, p + 1, q - 1)
    BY <2>1 DEF Between
  <2>. QED BY <2>1, <2>3, <2>4, <2>5 DEF p, q
<1>13. ASSUME NEW i \in 0..(n - 1), NEW q \in 1..m, e[i] < q, q = m \/ w[q] = c,
              \A k \in (e[i] + 1)..(q - 1) : w[k] # c
       PROVE  e[i + 1] = q
  <2>1. q \in (at \cup {m}) \cap Nat /\ q <= m
    <3>1. q # m => q \in 1..L
      BY <1>3
    <3>. QED BY <1>3, <1>4, <1>13, <3>1
  <2>2. e[i] \in Nat
    BY <1>7
  <2>3. \A r \in at : ~(e[i] < r /\ r < q)
    <3>1. ASSUME NEW r \in at, e[i] < r, r < q PROVE FALSE
      <4>1. r \in (e[i] + 1)..(q - 1) /\ w[r] = c
        BY <1>3, <1>4, <1>5, <2>2, <3>1
      <4>. QED BY <1>13, <4>1
    <3>. QED BY <3>1
  <2>. QED BY <1>11, <1>13, <2>1, <2>3
<1>14. CutAtToken(e, parts, w, c)
  BY <1>3, <1>7, <1>8, <1>9, <1>12, <1>13 DEF CutAtToken, n, m, L
<1>. QED BY <1>1, <1>14 DEF parts

(* What follows a version can only begin after the first cut. *)
LEMMA VersionFirst ==
    ASSUME NEW S, NEW w \in Seq(S), w # <<>>, NEW c, c \notin VersionTokens, w[1] # c, w[Len(w)] # c,
           NEW parts \in Seq(Seq(S)), NEW e, CutAtToken(e, parts, w, c), NEW v \in 1..Len(w)
    PROVE  AfterVersion(w, c, v) <=>
              Len(parts) >= 2 /\ v = e[1] + 1 /\ Req!isVersionSegment(parts[1])
<1>. DEFINE L == Len(w)
            n == Len(parts)
<1>1. L \in Nat \ {0}
  BY EmptySeq
<1>2. /\ n \in Nat \ {0} /\ e[0] = 0 /\ e[n] = L + 1
      /\ \A i \in 0..n : e[i] \in 0..(L + 1)
      /\ \A i, j \in 0..n : e[i] = e[j] => i = j
  BY DEF CutAtToken
<1>3. 1 \in 1..n /\ 1 - 1 = 0 /\ 1 \in 0..n /\ n \in 0..n /\ 0 \in 0..(n - 1) /\ 0 + 1 = 1
  BY <1>2
<1>4. /\ e[1] \in 1..(L + 1)
      /\ e[1] # L + 1 => w[e[1]] = c
      /\ parts[1] = SubSeq(w, 1, e[1] - 1)
      /\ Len(parts[1]) = e[1] - 1
  <2>1. /\ e[1] \in 1..(L + 1)
        /\ e[1] # L + 1 => w[e[1]] = c
        /\ parts[1] = SubSeq(w, e[1 - 1] + 1, e[1] - 1)
        /\ Len(parts[1]) = e[1] - e[1 - 1] - 1
    BY <1>3 DEF CutAtToken
  <2>2. e[1 - 1] + 1 = 1 /\ e[1] - e[1 - 1] - 1 = e[1] - 1
    BY <1>2, <1>3, <2>1
  <2>. QED BY <2>1, <2>2
<1>5. \A q \in 1..(L + 1) : /\ q = L + 1 \/ w[q] = c
                            /\ \A k \in 1..(q - 1) : w[k] # c
                            => e[1] = q
  <2>1. \A q \in 1..(L + 1) : /\ e[0] < q
                              /\ q = L + 1 \/ w[q] = c
                              /\ \A k \in (e[0] + 1)..(q - 1) : w[k] # c
                              => e[0 + 1] = q
    BY <1>3 DEF CutAtToken
  <2>2. e[0] + 1 = 1 /\ \A q \in 1..(L + 1) : e[0] < q
    BY <1>2
  <2>. QED BY <1>3, <2>1, <2>2
<1>6. v \in 1..L /\ w[L] # c
  OBVIOUS
<1>7. parts[1] \in Seq(S)
  <2>. DEFINE T == Seq(S)
  <2>1. parts \in Seq(T) /\ 1 \in 1..Len(parts)
    BY <1>3
  <2>. HIDE DEF T
  <2>2. parts[1] \in T
    BY <2>1, ElementOfSeq
  <2>. QED BY <2>2 DEF T
<1>. HIDE DEF L, n
<1>8. ASSUME AfterVersion(w, c, v)
      PROVE  n >= 2 /\ v = e[1] + 1 /\ Req!isVersionSegment(parts[1])
  <2>. DEFINE x == v - 2
              s == SubSeq(w, 1, x)
  <2>1. v > 2 /\ w[v - 1] = c /\ Req!IsVersion(s)
    BY <1>8 DEF AfterVersion
  <2>2. x \in 0..L /\ v - 1 \in 1..(L + 1) /\ v - 1 # L + 1 /\ (v - 1) - 1 = x
    BY <1>1, <1>6, <2>1
  <2>3. s \in Seq(S) /\ Len(s) = x /\ \A k \in 1..x : s[k] = w[k]
    <3>. HIDE DEF x
    <3>1. \A k \in 1..x : w[k] \in S
      BY <1>1, <2>2, ElementOfSeq DEF L
    <3>2. /\ SubSeq(w, 1, x) \in Seq(S)
          /\ Len(SubSeq(w, 1, x)) = IF 1 <= x THEN x - 1 + 1 ELSE 0
          /\ \A k \in 1..(x - 1 + 1) : SubSeq(w, 1, x)[k] = w[1 + k - 1]
      BY <1>1, <2>2, <3>1, SubSeqProperties
    <3>3. (IF 1 <= x THEN x - 1 + 1 ELSE 0) = x /\ x - 1 + 1 = x /\ \A k \in 1..x : 1 + k - 1 = k
      BY <1>1, <2>2
    <3>. QED BY <3>2, <3>3
  <2>. HIDE DEF x, s
  <2>4. \A k \in 1..x : w[k] # c
    BY <2>1, <2>3, VersionRead
  <2>. DEFINE q == v - 1
  <2>5. q \in 1..(L + 1) /\ q # L + 1 /\ w[q] = c /\ q - 1 = x /\ v = q + 1
    BY <1>6, <2>1, <2>2
  <2>. HIDE DEF q
  <2>6. e[1] = q
    BY <1>5, <2>4, <2>5
  <2>7. n # 1
    BY <1>2, <2>5, <2>6
  <2>8. parts[1] = s
    BY <1>4, <2>5, <2>6 DEF s
  <2>. QED BY <1>2, <2>1, <2>3, <2>5, <2>6, <2>7, <2>8, VersionRead
<1>9. ASSUME n >= 2, v = e[1] + 1, Req!isVersionSegment(parts[1])
      PROVE  AfterVersion(w, c, v)
  <2>1. Req!IsVersion(parts[1]) /\ Len(parts[1]) >= 2
    BY <1>7, <1>9, VersionRead
  <2>2. e[1] # L + 1
    BY <1>2, <1>3, <1>9
  <2>. DEFINE x == e[1]
  <2>3. x \in 1..(L + 1) /\ Len(parts[1]) = x - 1 /\ v = x + 1
    BY <1>4, <1>9
  <2>. HIDE DEF x
  <2>4. v > 2 /\ v - 1 = x /\ v - 2 = x - 1
    BY <1>1, <2>1, <2>3
  <2>. QED BY <1>4, <2>1, <2>2, <2>4 DEF AfterVersion, x
<1>. QED BY <1>8, <1>9 DEF n

(* A sequence of one, two or three. *)
LEMMA Spelled ==
    ASSUME NEW S, NEW s \in Seq(S), NEW x, NEW y, NEW z
    PROVE  /\ s = <<x>> <=> Len(s) = 1 /\ s[1] = x
           /\ s = <<x, y>> <=> Len(s) = 2 /\ s[1] = x /\ s[2] = y
           /\ s = <<x, y, z>> <=> Len(s) = 3 /\ s[1] = x /\ s[2] = y /\ s[3] = z
<1>1. \A k \in 1..Len(s) : s[k] \in S
  BY ElementOfSeq
<1>2. ASSUME Len(s) = 1, s[1] = x PROVE s = <<x>>
  <2>1. x \in S
    BY <1>1, <1>2
  <2>. DEFINE t == <<x>>
  <2>2. t \in Seq(S) /\ Len(t) = Len(s) /\ \A k \in 1..Len(s) : s[k] = t[k]
    BY <1>2, <2>1
  <2>. HIDE DEF t
  <2>3. s = t
    BY <2>2, SeqEqual
  <2>. QED BY <2>3 DEF t
<1>3. ASSUME Len(s) = 2, s[1] = x, s[2] = y PROVE s = <<x, y>>
  <2>1. x \in S /\ y \in S
    BY <1>1, <1>3
  <2>. DEFINE t == <<x, y>>
  <2>2. t \in Seq(S) /\ Len(t) = Len(s) /\ \A k \in 1..Len(s) : s[k] = t[k]
    BY <1>3, <2>1
  <2>. HIDE DEF t
  <2>3. s = t
    BY <2>2, SeqEqual
  <2>. QED BY <2>3 DEF t
<1>4. ASSUME Len(s) = 3, s[1] = x, s[2] = y, s[3] = z PROVE s = <<x, y, z>>
  <2>1. x \in S /\ y \in S /\ z \in S
    BY <1>1, <1>4
  <2>. DEFINE t == <<x, y, z>>
  <2>2. t \in Seq(S) /\ Len(t) = Len(s) /\ \A k \in 1..Len(s) : s[k] = t[k]
    BY <1>4, <2>1
  <2>. HIDE DEF t
  <2>3. s = t
    BY <2>2, SeqEqual
  <2>. QED BY <2>3 DEF t
<1>5. Len(<<x>>) = 1 /\ <<x>>[1] = x
  OBVIOUS
<1>6. Len(<<x, y>>) = 2 /\ <<x, y>>[1] = x /\ <<x, y>>[2] = y
  OBVIOUS
<1>7. Len(<<x, y, z>>) = 3 /\ <<x, y, z>>[1] = x /\ <<x, y, z>>[2] = y /\ <<x, y, z>>[3] = z
  OBVIOUS
<1>. QED BY <1>2, <1>3, <1>4, <1>5, <1>6, <1>7, Zenon

(* What the part between two cuts says of them. *)
AfterCut(w, c, part, p, q) ==
    /\ p \in 0..Len(w) /\ q \in 1..(Len(w) + 1) /\ p < q
    /\ q # Len(w) + 1 => w[q] = c
    /\ \A k \in (p + 1)..(q - 1) : w[k] # c
    /\ part = <<>> <=> q = p + 1
    /\ \A a : part = <<a>> <=> q = p + 2 /\ w[p + 1] = a
    /\ \A r \in 1..(Len(w) + 1) :
          /\ p < r
          /\ r = Len(w) + 1 \/ w[r] = c
          /\ \A k \in (p + 1)..(r - 1) : w[k] # c
          => q = r

LEMMA PartAfter ==
    ASSUME NEW S, NEW w \in Seq(S), NEW c, NEW parts \in Seq(Seq(S)), NEW e,
           CutAtToken(e, parts, w, c), NEW i \in 0..(Len(parts) - 1)
    PROVE  /\ AfterCut(w, c, parts[i + 1], e[i], e[i + 1])
           /\ e[i + 1] = Len(w) + 1 <=> i + 1 = Len(parts)
<1>. DEFINE L == Len(w)
            n == Len(parts)
            j == i + 1
            p == e[i]
            q == e[j]
            s == parts[j]
<1>1. /\ n \in Nat \ {0} /\ L \in Nat /\ e[n] = L + 1
      /\ \A k \in 0..n : e[k] \in 0..(L + 1)
      /\ \A k, l \in 0..n : e[k] = e[l] => k = l
  BY DEF CutAtToken
<1>2. i \in 0..n /\ j \in 0..n /\ n \in 0..n /\ j \in 1..n /\ j - 1 = i /\ i \in 0..(n - 1)
  BY <1>1
<1>3. /\ e[j - 1] < e[j]
      /\ e[j] \in 1..(L + 1)
      /\ e[j] # L + 1 => w[e[j]] = c
      /\ Len(s) = e[j] - e[j - 1] - 1
      /\ \A x \in 1..Len(s) : s[x] = w[e[j - 1] + x]
      /\ \A k \in (e[j - 1] + 1)..(e[j] - 1) : w[k] # c
  <2>. HIDE DEF j
  <2>. QED BY <1>2 DEF CutAtToken
<1>4. \A r \in 1..(L + 1) : /\ p < r
                            /\ r = L + 1 \/ w[r] = c
                            /\ \A k \in (p + 1)..(r - 1) : w[k] # c
                            => q = r
  BY <1>2 DEF CutAtToken
<1>5. s \in Seq(S)
  <2>. DEFINE T == Seq(S)
  <2>1. parts \in Seq(T) /\ j \in 1..Len(parts)
    BY <1>2
  <2>. HIDE DEF T, s, j
  <2>2. parts[j] \in T
    BY <2>1, ElementOfSeq
  <2>. QED BY <2>2 DEF T, s
<1>. HIDE DEF s, j, n, L
<1>6. /\ p \in 0..(L + 1) /\ q \in 1..(L + 1) /\ p < q
      /\ q # L + 1 => w[q] = c
      /\ Len(s) = q - p - 1
      /\ \A x \in 1..Len(s) : s[x] = w[p + x]
      /\ \A k \in (p + 1)..(q - 1) : w[k] # c
  BY <1>1, <1>2, <1>3
<1>7. q = L + 1 <=> j = n
  BY <1>1, <1>2
<1>. HIDE DEF p, q
<1>8. p \in 0..L
  BY <1>1, <1>6
<1>9. s = <<>> <=> q = p + 1
  <2>1. s = <<>> <=> Len(s) = 0
    BY <1>5, EmptySeq
  <2>2. Len(s) = 0 <=> q = p + 1
    BY <1>1, <1>6, <1>8
  <2>. QED BY <2>1, <2>2
<1>10. ASSUME NEW a
       PROVE  s = <<a>> <=> q = p + 2 /\ w[p + 1] = a
  <2>1. s = <<a>> <=> Len(s) = 1 /\ s[1] = a
    BY <1>5, Spelled
  <2>2. Len(s) = 1 <=> q = p + 2
    BY <1>1, <1>6, <1>8
  <2>3. Len(s) = 1 => s[1] = w[p + 1]
    <3>1. Len(s) = 1 => 1 \in 1..Len(s)
      OBVIOUS
    <3>. QED BY <1>6, <3>1
  <2>. QED BY <2>1, <2>2, <2>3
<1>. QED BY <1>4, <1>6, <1>7, <1>8, <1>9, <1>10 DEF AfterCut, L, n, s, j, p, q

PartsAt(e, parts, w, c) ==
    /\ Len(parts) \in Nat \ {0}
    /\ \A i \in 0..(Len(parts) - 1) :
          /\ AfterCut(w, c, parts[i + 1], e[i], e[i + 1])
          /\ e[i + 1] = Len(w) + 1 <=> i + 1 = Len(parts)

LEMMA AllPartsAfter ==
    ASSUME NEW S, NEW w \in Seq(S), NEW c, NEW parts \in Seq(Seq(S)), NEW e,
           CutAtToken(e, parts, w, c)
    PROVE  PartsAt(e, parts, w, c)
<1>1. Len(parts) \in Nat \ {0}
  BY DEF CutAtToken
<1>2. \A i \in 0..(Len(parts) - 1) :
          /\ AfterCut(w, c, parts[i + 1], e[i], e[i + 1])
          /\ e[i + 1] = Len(w) + 1 <=> i + 1 = Len(parts)
  BY PartAfter
<1>. QED BY <1>1, <1>2 DEF PartsAt

(* Two parts, or three, after a cut. *)
TwoRead(w, c, parts, e, z, a, b) ==
    /\ Len(parts) = z + 2
    /\ parts[z + 1] = <<a>>
    /\ parts[(z + 1) + 1] = <<b>>
    <=> SubSeq(w, e[z] + 1, Len(w)) = <<a, c, b>>

LEMMA TwoSegments ==
    ASSUME NEW S, NEW w \in Seq(S), NEW c, NEW parts, NEW e, PartsAt(e, parts, w, c),
           NEW z \in 0..(Len(parts) - 1), NEW a, NEW b, a # c, b # c
    PROVE  TwoRead(w, c, parts, e, z, a, b)
<1>. DEFINE L == Len(w)
            n == Len(parts)
            r == e[z]
            x == e[z + 1]
            y == e[(z + 1) + 1]
            t == SubSeq(w, r + 1, L)
<1>1. n \in Nat \ {0} /\ L \in Nat
  BY DEF PartsAt
<1>2. /\ r \in 0..L /\ x \in 1..(L + 1) /\ r < x
      /\ x = L + 1 <=> z + 1 = n
      /\ x # L + 1 => w[x] = c
      /\ parts[z + 1] = <<a>> <=> x = r + 2 /\ w[r + 1] = a
      /\ \A p \in 1..(L + 1) : /\ r < p
                               /\ p = L + 1 \/ w[p] = c
                               /\ \A k \in (r + 1)..(p - 1) : w[k] # c
                               => x = p
  BY DEF PartsAt, AfterCut
<1>3. ASSUME z + 1 # n
      PROVE  /\ y \in 1..(L + 1) /\ x < y
             /\ y = L + 1 <=> z + 2 = n
             /\ parts[(z + 1) + 1] = <<b>> <=> y = x + 2 /\ w[x + 1] = b
             /\ \A p \in 1..(L + 1) : /\ x < p
                                      /\ p = L + 1 \/ w[p] = c
                                      /\ \A k \in (x + 1)..(p - 1) : w[k] # c
                                      => y = p
  <2>. DEFINE i == z + 1
  <2>1. i \in 0..(Len(parts) - 1) /\ (i + 1 = n <=> z + 2 = n) /\ Len(parts) = n
    BY <1>1, <1>3
  <2>. HIDE DEF i
  <2>2. /\ e[i + 1] \in 1..(L + 1) /\ e[i] < e[i + 1]
        /\ e[i + 1] = L + 1 <=> i + 1 = n
        /\ parts[i + 1] = <<b>> <=> e[i + 1] = e[i] + 2 /\ w[e[i] + 1] = b
        /\ \A p \in 1..(L + 1) : /\ e[i] < p
                                 /\ p = L + 1 \/ w[p] = c
                                 /\ \A k \in (e[i] + 1)..(p - 1) : w[k] # c
                                 => e[i + 1] = p
    BY <2>1 DEF PartsAt, AfterCut
  <2>. QED BY <2>1, <2>2 DEF i
<1>4. t \in Seq(S) /\ Len(t) = L - r /\ \A k \in 1..(L - r) : t[k] = w[r + k]
  <2>. DEFINE g == e[z]
  <2>1. g \in Nat /\ g <= Len(w)
    BY <1>1, <1>2
  <2>. HIDE DEF g
  <2>2. LET h == SubSeq(w, g + 1, Len(w))
        IN  h \in Seq(S) /\ Len(h) = Len(w) - g /\ \A k \in 1..(Len(w) - g) : h[k] = w[g + k]
    BY <2>1, Rest
  <2>. QED BY <2>2 DEF g
<1>5. t = <<a, c, b>> <=> Len(t) = 3 /\ t[1] = a /\ t[2] = c /\ t[3] = b
  <2>. DEFINE u == <<a, c, b>>
  <2>1. Len(u) = 3 /\ u[1] = a /\ u[2] = c /\ u[3] = b
    OBVIOUS
  <2>2. ASSUME Len(t) = 3, t[1] = a, t[2] = c, t[3] = b PROVE t = u
    <3>1. t \in Seq(S)
      BY <1>4
    <3>. HIDE DEF t
    <3>. QED BY <2>2, <3>1, Spelled
  <2>. HIDE DEF t, u
  <2>. QED BY <2>1, <2>2 DEF u
<1>. HIDE DEF r, x, y, t, n, L
<1>6. t = <<a, c, b>> <=> L = r + 3 /\ w[r + 1] = a /\ w[r + 2] = c /\ w[r + 3] = b
  <2>1. Len(t) = 3 <=> L = r + 3
    BY <1>1, <1>2, <1>4
  <2>2. L = r + 3 => t[1] = w[r + 1] /\ t[2] = w[r + 2] /\ t[3] = w[r + 3]
    <3>1. L = r + 3 => 1 \in 1..(L - r) /\ 2 \in 1..(L - r) /\ 3 \in 1..(L - r)
      BY <1>1, <1>2
    <3>. QED BY <1>4, <3>1
  <2>. QED BY <1>5, <2>1, <2>2
<1>7. ASSUME n = z + 2, parts[z + 1] = <<a>>, parts[(z + 1) + 1] = <<b>>
      PROVE  t = <<a, c, b>>
  <2>1. z + 1 # n /\ x = r + 2 /\ w[r + 1] = a
    BY <1>1, <1>2, <1>7
  <2>2. y = L + 1 /\ y = x + 2 /\ w[x + 1] = b
    BY <1>3, <1>7, <2>1
  <2>3. L = r + 3 /\ x + 1 = r + 3 /\ x # L + 1
    BY <1>1, <1>2, <2>1, <2>2
  <2>. QED BY <1>2, <1>6, <2>1, <2>2, <2>3
<1>8. ASSUME t = <<a, c, b>>
      PROVE  n = z + 2 /\ parts[z + 1] = <<a>> /\ parts[(z + 1) + 1] = <<b>>
  <2>1. L = r + 3 /\ w[r + 1] = a /\ w[r + 2] = c /\ w[r + 3] = b
    BY <1>6, <1>8
  <2>2. x = r + 2
    <3>1. r + 2 \in 1..(L + 1) /\ r < r + 2 /\ \A k \in (r + 1)..((r + 2) - 1) : k = r + 1
      BY <1>1, <1>2, <2>1, SMTT(30)
    <3>. DEFINE p == r + 2
    <3>2. p \in 1..(L + 1) /\ r < p /\ w[p] = c /\ \A k \in (r + 1)..(p - 1) : w[k] # c
      BY <2>1, <3>1
    <3>. HIDE DEF p
    <3>3. x = p
      BY <1>2, <3>2
    <3>. QED BY <3>3 DEF p
  <2>3. z + 1 # n
    BY <1>1, <1>2, <2>1, <2>2
  <2>4. y = L + 1
    <3>1. L + 1 \in 1..(L + 1) /\ x < L + 1 /\ \A k \in (x + 1)..((L + 1) - 1) : k = r + 3
      BY <1>1, <1>2, <2>1, <2>2
    <3>. DEFINE p == L + 1
    <3>2. p \in 1..(L + 1) /\ x < p /\ p = L + 1 /\ \A k \in (x + 1)..(p - 1) : w[k] # c
      BY <2>1, <3>1
    <3>. HIDE DEF p
    <3>. QED BY <1>3, <2>3, <3>2
  <2>5. y = x + 2 /\ x + 1 = r + 3
    BY <1>1, <1>2, <2>1, <2>2, <2>4
  <2>. QED BY <1>2, <1>3, <2>1, <2>2, <2>3, <2>4, <2>5
<1>. QED BY <1>7, <1>8 DEF TwoRead, t, n, L, r

LEMMA TwoOf ==
    ASSUME NEW S, NEW s \in Seq(S), NEW i \in 1..(Len(s) - 1), NEW j \in Int, i < j, j <= i + 1
    PROVE  LET t == SubSeq(s, i, j)
           IN  t \in Seq(S) /\ Len(t) = 2 /\ t[1] = s[i] /\ t[2] = s[j]
<1>. DEFINE t == SubSeq(s, i, j)
<1>1. \A k \in 1..Len(s) : s[k] \in S
  BY ElementOfSeq
<1>2. \A k \in i..j : s[k] \in S
  BY <1>1
<1>3. /\ t \in Seq(S) /\ Len(t) = IF i <= j THEN j - i + 1 ELSE 0
      /\ \A k \in 1..(j - i + 1) : t[k] = s[i + k - 1]
  BY <1>2, SubSeqProperties
<1>4. /\ j - i + 1 = 2 /\ (IF i <= j THEN j - i + 1 ELSE 0) = 2
      /\ 1 \in 1..2 /\ 2 \in 1..2 /\ i + 1 - 1 = i /\ i + 2 - 1 = j
  OBVIOUS
<1>. HIDE DEF t
<1>5. t \in Seq(S) /\ Len(t) = 2 /\ t[1] = s[i] /\ t[2] = s[j]
  BY <1>3, <1>4
<1>. QED BY <1>5 DEF t

LEMMA PairIs ==
    ASSUME NEW S, NEW t \in Seq(S), Len(t) = 2, NEW x, NEW y
    PROVE  t = <<x, y>> <=> t[1] = x /\ t[2] = y
<1>1. <<x, y>>[1] = x /\ <<x, y>>[2] = y
  OBVIOUS
<1>2. ASSUME t[1] = x, t[2] = y PROVE t = <<x, y>>
  BY <1>2, Spelled
<1>. QED BY <1>1, <1>2

(* ActsOnContainer, for any tokens. *)
Acts(s, a, c, b) ==
    /\ Len(s) >= 5
    /\ SubSeq(s, 1, 2) = <<a, c>>
    /\ SubSeq(s, Len(s) - 1, Len(s)) = <<c, b>>
    /\ \A k \in 3..(Len(s) - 2) : s[k] # c

LEMMA ActsIs ==
    ASSUME NEW S, NEW s \in Seq(S), NEW a, NEW b, NEW c
    PROVE  Acts(s, a, c, b) <=>
              /\ Len(s) >= 5
              /\ s[1] = a /\ s[2] = c /\ s[Len(s) - 1] = c /\ s[Len(s)] = b
              /\ \A k \in 3..(Len(s) - 2) : s[k] # c
<1>. DEFINE n == Len(s)
            m == n - 1
<1>1. n \in Nat /\ Len(s) = n
  OBVIOUS
<1>2. ASSUME n >= 5
      PROVE  /\ SubSeq(s, 1, 2) = <<a, c>> <=> s[1] = a /\ s[2] = c
             /\ SubSeq(s, m, n) = <<c, b>> <=> s[m] = c /\ s[n] = b
  <2>. DEFINE t == SubSeq(s, 1, 2)
              u == SubSeq(s, m, n)
  <2>1. /\ 1 \in 1..(Len(s) - 1) /\ 2 \in Int /\ 1 < 2 /\ 2 <= 1 + 1
        /\ m \in 1..(Len(s) - 1) /\ n \in Int /\ m < n /\ n <= m + 1
    BY <1>2
  <2>. HIDE DEF n, m
  <2>2. t \in Seq(S) /\ Len(t) = 2 /\ t[1] = s[1] /\ t[2] = s[2]
    BY <2>1, TwoOf
  <2>3. u \in Seq(S) /\ Len(u) = 2 /\ u[1] = s[m] /\ u[2] = s[n]
    BY <2>1, TwoOf
  <2>. HIDE DEF t, u
  <2>4. t = <<a, c>> <=> t[1] = a /\ t[2] = c
    BY <2>2, PairIs
  <2>5. u = <<c, b>> <=> u[1] = c /\ u[2] = b
    BY <2>3, PairIs
  <2>. QED BY <2>2, <2>3, <2>4, <2>5 DEF t, u
<1>. QED BY <1>2 DEF Acts

ThreeRead(w, c, parts, e, z, a, b) ==
    /\ Len(parts) = z + 3
    /\ parts[z + 1] = <<a>>
    /\ parts[(z + 1) + 1] # <<>>
    /\ parts[(z + 2) + 1] = <<b>>
    <=> Acts(SubSeq(w, e[z] + 1, Len(w)), a, c, b)

LEMMA ThreeSegments ==
    ASSUME NEW S, NEW w \in Seq(S), NEW c, NEW parts, NEW e, PartsAt(e, parts, w, c),
           NEW z \in 0..(Len(parts) - 1), NEW a, NEW b, a # c, b # c
    PROVE  ThreeRead(w, c, parts, e, z, a, b)
<1>. DEFINE L == Len(w)
            n == Len(parts)
            r == e[z]
            x == e[z + 1]
            y == e[(z + 1) + 1]
            v == e[(z + 2) + 1]
            t == SubSeq(w, r + 1, L)
<1>1. n \in Nat \ {0} /\ L \in Nat /\ z \in 0..(n - 1)
  BY DEF PartsAt
<1>2. /\ r \in 0..L /\ x \in 1..(L + 1) /\ r < x
      /\ x = L + 1 <=> z + 1 = n
      /\ x # L + 1 => w[x] = c
      /\ parts[z + 1] = <<a>> <=> x = r + 2 /\ w[r + 1] = a
      /\ \A p \in 1..(L + 1) : /\ r < p
                               /\ p = L + 1 \/ w[p] = c
                               /\ \A k \in (r + 1)..(p - 1) : w[k] # c
                               => x = p
  BY DEF PartsAt, AfterCut
<1>3. ASSUME z + 1 # n
      PROVE  /\ y \in 1..(L + 1) /\ x < y
             /\ y = L + 1 <=> z + 2 = n
             /\ y # L + 1 => w[y] = c
             /\ \A k \in (x + 1)..(y - 1) : w[k] # c
             /\ parts[(z + 1) + 1] = <<>> <=> y = x + 1
             /\ \A p \in 1..(L + 1) : /\ x < p
                                      /\ p = L + 1 \/ w[p] = c
                                      /\ \A k \in (x + 1)..(p - 1) : w[k] # c
                                      => y = p
  <2>. DEFINE i == z + 1
  <2>1. i \in 0..(Len(parts) - 1) /\ (i + 1 = n <=> z + 2 = n) /\ Len(parts) = n
    BY <1>1, <1>3
  <2>. HIDE DEF i
  <2>2. /\ e[i + 1] \in 1..(L + 1) /\ e[i] < e[i + 1]
        /\ e[i + 1] = L + 1 <=> i + 1 = n
        /\ e[i + 1] # L + 1 => w[e[i + 1]] = c
        /\ \A k \in (e[i] + 1)..(e[i + 1] - 1) : w[k] # c
        /\ parts[i + 1] = <<>> <=> e[i + 1] = e[i] + 1
        /\ \A p \in 1..(L + 1) : /\ e[i] < p
                                 /\ p = L + 1 \/ w[p] = c
                                 /\ \A k \in (e[i] + 1)..(p - 1) : w[k] # c
                                 => e[i + 1] = p
    BY <2>1 DEF PartsAt, AfterCut
  <2>. QED BY <2>1, <2>2 DEF i
<1>4. ASSUME z + 1 # n, z + 2 # n
      PROVE  /\ v \in 1..(L + 1) /\ y < v
             /\ v = L + 1 <=> z + 3 = n
             /\ parts[(z + 2) + 1] = <<b>> <=> v = y + 2 /\ w[y + 1] = b
             /\ \A p \in 1..(L + 1) : /\ y < p
                                      /\ p = L + 1 \/ w[p] = c
                                      /\ \A k \in (y + 1)..(p - 1) : w[k] # c
                                      => v = p
  <2>. DEFINE i == z + 2
  <2>1. i \in 0..(Len(parts) - 1) /\ (i + 1 = n <=> z + 3 = n) /\ Len(parts) = n
    BY <1>1, <1>4
  <2>. HIDE DEF i
  <2>2. /\ e[i + 1] \in 1..(L + 1) /\ e[i] < e[i + 1]
        /\ e[i + 1] = L + 1 <=> i + 1 = n
        /\ parts[i + 1] = <<b>> <=> e[i + 1] = e[i] + 2 /\ w[e[i] + 1] = b
        /\ \A p \in 1..(L + 1) : /\ e[i] < p
                                 /\ p = L + 1 \/ w[p] = c
                                 /\ \A k \in (e[i] + 1)..(p - 1) : w[k] # c
                                 => e[i + 1] = p
    BY <2>1 DEF PartsAt, AfterCut
  <2>3. e[i] = y /\ e[i + 1] = v /\ parts[i + 1] = parts[(z + 2) + 1]
    <3>1. i = (z + 1) + 1
      BY <1>1 DEF i
    <3>2. e[i] = y
      BY <3>1
    <3>. QED BY <3>2 DEF i
  <2>. QED BY <2>1, <2>2, <2>3
<1>5. t \in Seq(S) /\ Len(t) = L - r /\ \A k \in 1..(L - r) : t[k] = w[r + k]
  <2>. DEFINE g == e[z]
  <2>1. g \in Nat /\ g <= Len(w)
    BY <1>1, <1>2
  <2>. HIDE DEF g
  <2>2. LET h == SubSeq(w, g + 1, Len(w))
        IN  h \in Seq(S) /\ Len(h) = Len(w) - g /\ \A k \in 1..(Len(w) - g) : h[k] = w[g + k]
    BY <2>1, Rest
  <2>. QED BY <2>2 DEF g
<1>. HIDE DEF r, x, y, v, t, n, L
<1>6. Acts(t, a, c, b) <=>
          /\ L - r >= 5
          /\ w[r + 1] = a /\ w[r + 2] = c /\ w[L - 1] = c /\ w[L] = b
          /\ \A k \in (r + 3)..(L - 2) : w[k] # c
  <2>. DEFINE l == L - r
  <2>1. l \in Nat /\ Len(t) = l
    BY <1>1, <1>2, <1>5
  <2>2. Acts(t, a, c, b) <=>
            /\ l >= 5
            /\ t[1] = a /\ t[2] = c /\ t[l - 1] = c /\ t[l] = b
            /\ \A k \in 3..(l - 2) : t[k] # c
    <3>. HIDE DEF l
    <3>. QED BY <1>5, <2>1, ActsIs
  <2>3. l >= 5 => /\ t[1] = w[r + 1] /\ t[2] = w[r + 2] /\ t[l - 1] = w[L - 1] /\ t[l] = w[L]
                  /\ \A k \in 3..(l - 2) : t[k] = w[r + k]
    <3>1. l >= 5 => /\ 1 \in 1..l /\ 2 \in 1..l /\ l - 1 \in 1..l /\ l \in 1..l
                    /\ \A k \in 3..(l - 2) : k \in 1..l
      BY <2>1
    <3>2. r + (l - 1) = L - 1 /\ r + l = L
      BY <1>1, <1>2
    <3>3. \A k \in 1..l : t[k] = w[r + k]
      BY <1>5
    <3>. HIDE DEF l
    <3>. QED BY <3>1, <3>2, <3>3
  <2>4. (\A k \in 3..(l - 2) : w[r + k] # c) <=> \A k \in (r + 3)..(L - 2) : w[k] # c
    <3>1. \A k \in (r + 3)..(L - 2) : k - r \in 3..(l - 2) /\ r + (k - r) = k
      BY <1>1, <1>2
    <3>2. \A k \in 3..(l - 2) : r + k \in (r + 3)..(L - 2)
      BY <1>1, <1>2
    <3>. HIDE DEF l
    <3>. QED BY <3>1, <3>2
  <2>. QED BY <2>2, <2>3, <2>4
<1>7. ASSUME n = z + 3, parts[z + 1] = <<a>>, parts[(z + 1) + 1] # <<>>, parts[(z + 2) + 1] = <<b>>
      PROVE  Acts(t, a, c, b)
  <2>1. z + 1 # n /\ z + 2 # n /\ x = r + 2 /\ w[r + 1] = a
    BY <1>1, <1>2, <1>7, SMTT(30)
  <2>2. /\ y \in 1..(L + 1) /\ x < y /\ y # x + 1 /\ y # L + 1 /\ w[y] = c
        /\ \A k \in (x + 1)..(y - 1) : w[k] # c
    BY <1>3, <1>7, <2>1
  <2>3. v = L + 1 /\ v = y + 2 /\ w[y + 1] = b
    BY <1>4, <1>7, <2>1
  <2>4. /\ L - r >= 5 /\ y = L - 1 /\ y + 1 = L /\ x + 1 = r + 3 /\ y - 1 = L - 2 /\ x # L + 1
    BY <1>1, <1>2, <2>1, <2>2, <2>3
  <2>. QED BY <1>2, <1>6, <2>1, <2>2, <2>3, <2>4
<1>8. ASSUME Acts(t, a, c, b)
      PROVE  n = z + 3 /\ parts[z + 1] = <<a>> /\ parts[(z + 1) + 1] # <<>> /\ parts[(z + 2) + 1] = <<b>>
  <2>1. /\ L - r >= 5
        /\ w[r + 1] = a /\ w[r + 2] = c /\ w[L - 1] = c /\ w[L] = b
        /\ \A k \in (r + 3)..(L - 2) : w[k] # c
    BY <1>6, <1>8
  <2>2. x = r + 2
    <3>1. r + 2 \in 1..(L + 1) /\ r < r + 2 /\ \A k \in (r + 1)..((r + 2) - 1) : k = r + 1
      BY <1>1, <1>2, <2>1
    <3>. DEFINE p == r + 2
    <3>2. p \in 1..(L + 1) /\ r < p /\ w[p] = c /\ \A k \in (r + 1)..(p - 1) : w[k] # c
      BY <2>1, <3>1
    <3>. HIDE DEF p
    <3>3. x = p
      BY <1>2, <3>2
    <3>. QED BY <3>3 DEF p
  <2>3. z + 1 # n
    BY <1>1, <1>2, <2>1, <2>2
  <2>4. y = L - 1
    <3>. DEFINE p == L - 1
    <3>1. p \in 1..(L + 1) /\ x < p /\ x + 1 = r + 3 /\ p - 1 = L - 2
      BY <1>1, <1>2, <2>1, <2>2
    <3>2. w[p] = c /\ \A k \in (x + 1)..(p - 1) : w[k] # c
      BY <2>1, <3>1
    <3>. HIDE DEF p
    <3>3. y = p
      BY <1>3, <2>3, <3>1, <3>2
    <3>. QED BY <3>3 DEF p
  <2>5. z + 2 # n
    BY <1>1, <1>3, <2>3, <2>4
  <2>6. v = L + 1
    <3>1. L + 1 \in 1..(L + 1) /\ y < L + 1 /\ \A k \in (y + 1)..((L + 1) - 1) : k = L
      BY <1>1, <2>4
    <3>. DEFINE p == L + 1
    <3>2. p \in 1..(L + 1) /\ y < p /\ p = L + 1 /\ \A k \in (y + 1)..(p - 1) : w[k] # c
      BY <2>1, <3>1
    <3>. HIDE DEF p
    <3>. QED BY <1>4, <2>3, <2>5, <3>2
  <2>7. v = y + 2 /\ y + 1 = L /\ y # x + 1
    BY <1>1, <1>2, <2>1, <2>2, <2>4, <2>6
  <2>. QED BY <1>1, <1>2, <1>3, <1>4, <2>1, <2>2, <2>3, <2>4, <2>5, <2>6, <2>7
<1>. QED BY <1>7, <1>8 DEF ThreeRead, t, n, L, r

(* pathSegments, for any tokens. *)
Segments(u, q, c) ==
    LET p == Req!Trim(Req!CutAt(u, q), c)
        segs == Req!Split(p, c)
    IN  IF p = <<>> THEN <<>>
        ELSE IF Req!isVersionSegment(segs[1]) THEN Tail(segs) ELSE segs

(* Where something may be read, in the parts of the path w. *)
ReadAt(w, parts, e, t) ==
    \/ t = SubSeq(w, e[0] + 1, Len(w))
    \/ /\ Len(parts) >= 2 /\ Req!isVersionSegment(parts[1])
       /\ t = SubSeq(w, e[1] + 1, Len(w))

LEMMA ReadingsAfterCuts ==
    ASSUME NEW S, NEW w \in Seq(S), w # <<>>, NEW c, c \notin VersionTokens, w[1] # c, w[Len(w)] # c,
           NEW parts \in Seq(Seq(S)), NEW e, CutAtToken(e, parts, w, c), NEW t
    PROVE  (\E v \in 1..Len(w) : /\ v = 1 \/ AfterVersion(w, c, v)
                                 /\ t = SubSeq(w, v, Len(w)))
              <=> ReadAt(w, parts, e, t)
<1>. DEFINE L == Len(w)
            n == Len(parts)
            isV == Req!isVersionSegment(parts[1])
            x == e[1] + 1
<1>1. L \in Nat \ {0} /\ 1 \in 1..L
  BY EmptySeq
<1>2. \A v \in 1..L : AfterVersion(w, c, v) <=> n >= 2 /\ v = x /\ isV
  BY VersionFirst
<1>3. n \in Nat \ {0} /\ e[0] = 0 /\ e[0] + 1 = 1
  BY DEF CutAtToken
<1>4. ASSUME n >= 2 PROVE x \in 1..L
  <2>. DEFINE y == e[1]
  <2>1. AfterCut(w, c, parts[1], e[0], e[1]) /\ (e[1] = L + 1 <=> 1 = n)
    <3>1. PartsAt(e, parts, w, c)
      BY AllPartsAfter
    <3>. DEFINE i == 0
    <3>2. i \in 0..(n - 1) /\ i + 1 = 1
      BY <1>3
    <3>3. AfterCut(w, c, parts[i + 1], e[i], e[i + 1]) /\ (e[i + 1] = L + 1 <=> i + 1 = n)
      <4>. HIDE DEF i
      <4>. QED BY <3>1, <3>2 DEF PartsAt
    <3>. QED BY <3>2, <3>3
  <2>2. y \in 1..(L + 1) /\ y # L + 1 /\ w[y] = c
    <3>1. \A part, p : AfterCut(w, c, part, p, y) => y \in 1..(L + 1) /\ (y # L + 1 => w[y] = c)
      BY DEF AfterCut
    <3>. HIDE DEF n, L
    <3>2. 1 # n
      BY <1>3, <1>4
    <3>. QED BY <2>1, <3>1, <3>2
  <2>3. y # L
    BY <2>2
  <2>. HIDE DEF y, L
  <2>4. y + 1 \in 1..L
    BY <1>1, <2>2, <2>3
  <2>. QED BY <2>4 DEF y
<1>. HIDE DEF L, n, x, isV
<1>5. (\E v \in 1..L : (v = 1 \/ AfterVersion(w, c, v)) /\ t = SubSeq(w, v, L))
          <=> t = SubSeq(w, 1, L) \/ (n >= 2 /\ isV /\ t = SubSeq(w, x, L))
  BY <1>1, <1>2, <1>4
<1>. QED BY <1>3, <1>5 DEF ReadAt, L, n, x, isV

LEMMA SegmentsOfPath ==
    ASSUME NEW S, NEW u \in Seq(S), NEW q, NEW c, q # c, c \notin NotSplits, c \notin VersionTokens
    PROVE  \/ Segments(u, q, c) = <<>> /\ \A t : ~IsReading(u, q, c, t)
           \/ \E w \in Seq(S), parts \in Seq(Seq(S)) : \E e :
                 /\ PartsAt(e, parts, w, c)
                 /\ Segments(u, q, c) = IF Req!isVersionSegment(parts[1]) THEN Tail(parts) ELSE parts
                 /\ \A t : IsReading(u, q, c, t) <=> ReadAt(w, parts, e, t)
<1>. DEFINE w == Req!Trim(Req!CutAt(u, q), c)
            parts == Req!Split(w, c)
            X(t) == \E v \in 1..Len(w) : /\ v = 1 \/ AfterVersion(w, c, v)
                                         /\ t = SubSeq(w, v, Len(w))
<1>1. /\ w \in Seq(S)
      /\ w # <<>> => w[1] # c /\ w[Len(w)] # c
      /\ \A t : IsReading(u, q, c, t) <=> w # <<>> /\ X(t)
  BY ReadingsOfPath
<1>2. Segments(u, q, c) = IF w = <<>> THEN <<>>
                          ELSE IF Req!isVersionSegment(parts[1]) THEN Tail(parts) ELSE parts
  BY DEF Segments
<1>. HIDE DEF w
<1>3. CASE w = <<>>
  BY <1>1, <1>2, <1>3
<1>4. CASE w # <<>>
  <2>1. parts \in Seq(Seq(S)) /\ \E e : CutAtToken(e, parts, w, c)
    BY <1>1, SplitAtToken
  <2>2. PICK e : CutAtToken(e, parts, w, c)
    BY <2>1
  <2>. HIDE DEF parts
  <2>3. PartsAt(e, parts, w, c)
    BY <1>1, <2>1, <2>2, AllPartsAfter
  <2>4. \A t : X(t) <=> ReadAt(w, parts, e, t)
    BY <1>1, <1>4, <2>1, <2>2, ReadingsAfterCuts
  <2>. QED BY <1>1, <1>2, <1>4, <2>1, <2>3, <2>4
<1>. QED BY <1>3, <1>4

LEMMA NotVersion == \A a : ~Req!isVersionSegment(<<a>>)
<1>1. \A a : ~(Len(<<a>>) >= 2)
  OBVIOUS
<1>. QED BY <1>1, Zenon DEF Req!isVersionSegment

(* The segments are two words, or three, where the path reads so. *)
WordsRead(u, q, c, a, b) ==
    LET s == Segments(u, q, c)
    IN  /\ s = <<<<a>>, <<b>>>> <=> \E t : IsReading(u, q, c, t) /\ t = <<a, c, b>>
        /\ Len(s) = 3 /\ s[1] = <<a>> /\ s[2] # <<>> /\ s[3] = <<b>>
             <=> \E t : IsReading(u, q, c, t) /\ Acts(t, a, c, b)

LEMMA SegmentsRead ==
    ASSUME NEW S, NEW u \in Seq(S), NEW q, NEW c, q # c, c \notin NotSplits, c \notin VersionTokens,
           NEW a, NEW b, a # c, b # c
    PROVE  WordsRead(u, q, c, a, b)
<1>. DEFINE s == Segments(u, q, c)
            A == <<a>>
            B == <<b>>
            none == <<>>
            Pair(t) == t = <<a, c, b>>
            Act(t) == Acts(t, a, c, b)
            IsPair == s = <<A, B>>
            IsAct == Len(s) = 3 /\ s[1] = A /\ s[2] # none /\ s[3] = B
<1>1. Len(none) = 0 /\ none # <<A, B>>
  OBVIOUS
<1>2. ASSUME s = none, \A t : ~IsReading(u, q, c, t)
      PROVE  /\ IsPair <=> \E t : IsReading(u, q, c, t) /\ Pair(t)
             /\ IsAct <=> \E t : IsReading(u, q, c, t) /\ Act(t)
  <2>1. ~IsPair
    BY <1>1, <1>2
  <2>2. ~IsAct
    <3>1. Len(s) = 0
      BY <1>1, <1>2
    <3>. QED BY <3>1
  <2>. QED BY <1>2, <2>1, <2>2
<1>3. ASSUME NEW U, s \in Seq(U)
      PROVE  IsPair <=> Len(s) = 2 /\ s[1] = A /\ s[2] = B
  <2>. HIDE DEF s, A, B
  <2>. DEFINE p == <<A, B>>
  <2>1. Len(p) = 2 /\ p[1] = A /\ p[2] = B
    OBVIOUS
  <2>2. ASSUME Len(s) = 2, s[1] = A, s[2] = B PROVE s = <<A, B>>
    BY <1>3, <2>2, Spelled
  <2>. HIDE DEF p
  <2>3. IsPair <=> s = p
    BY DEF p
  <2>. HIDE DEF IsPair
  <2>4. (Len(s) = 2 /\ s[1] = A /\ s[2] = B) => IsPair
    BY <2>2, <2>3 DEF p
  <2>. QED BY <2>1, <2>3, <2>4
<1>4. ASSUME NEW w \in Seq(S), NEW parts \in Seq(Seq(S)), NEW e,
             PartsAt(e, parts, w, c),
             s = IF Req!isVersionSegment(parts[1]) THEN Tail(parts) ELSE parts,
             \A t : IsReading(u, q, c, t) <=> ReadAt(w, parts, e, t)
      PROVE  /\ IsPair <=> \E t : IsReading(u, q, c, t) /\ Pair(t)
             /\ IsAct <=> \E t : IsReading(u, q, c, t) /\ Act(t)
  <2>. DEFINE n == Len(parts)
              isV == Req!isVersionSegment(parts[1])
              T == Seq(S)
              R(z) == SubSeq(w, e[z] + 1, Len(w))
              Two(z) == n = z + 2 /\ parts[z + 1] = A /\ parts[(z + 1) + 1] = B
              Three(z) == /\ n = z + 3 /\ parts[z + 1] = A
                          /\ parts[(z + 1) + 1] # none /\ parts[(z + 2) + 1] = B
  <2>1. n \in Nat \ {0} /\ parts \in Seq(T)
    BY <1>4 DEF PartsAt
  <2>2. \A z \in 0..(n - 1) : (Two(z) <=> Pair(R(z))) /\ (Three(z) <=> Act(R(z)))
    <3>1. \A z \in 0..(n - 1) : /\ TwoRead(w, c, parts, e, z, a, b)
                                /\ ThreeRead(w, c, parts, e, z, a, b)
      BY <1>4, TwoSegments, ThreeSegments
    <3>. QED BY <3>1, Zenon DEF TwoRead, ThreeRead
  <2>3. isV => parts[1] # A
    BY NotVersion, Zenon
  <2>. HIDE DEF s, A, B, none, isV, T, n, Pair, Act, R
  <2>4. s = IF isV THEN Tail(parts) ELSE parts
    BY <1>4 DEF isV
  <2>5. \A t : IsReading(u, q, c, t) <=> t = R(0) \/ (n >= 2 /\ isV /\ t = R(1))
    BY <1>4 DEF ReadAt, R, n, isV
  <2>6. /\ (\E t : IsReading(u, q, c, t) /\ Pair(t)) <=> Two(0) \/ (n >= 2 /\ isV /\ Two(1))
        /\ (\E t : IsReading(u, q, c, t) /\ Act(t)) <=> Three(0) \/ (n >= 2 /\ isV /\ Three(1))
    <3>1. 0 \in 0..(n - 1) /\ (n >= 2 => 1 \in 0..(n - 1))
      BY <2>1
    <3>. HIDE DEF Two, Three
    <3>. QED BY <2>2, <2>5, <3>1
  <2>7. CASE isV
    <3>1. /\ s \in Seq(T) /\ Len(s) = n - 1
          /\ \A i \in 1..(n - 1) : s[i] = parts[i + 1]
      <4>1. parts # <<>>
        BY <2>1, EmptySeq DEF n
      <4>2. /\ Tail(parts) \in Seq(T) /\ Len(Tail(parts)) = n - 1
            /\ \A i \in 1..(n - 1) : Tail(parts)[i] = parts[i + 1]
        BY <2>1, <4>1, HeadTailProperties DEF n
      <4>. QED BY <2>4, <2>7, <4>2
    <3>2. ~Two(0) /\ ~Three(0)
      BY <2>3, <2>7
    <3>3. (Two(1) => n >= 2) /\ (Three(1) => n >= 2)
      BY <2>1
    <3>4. IsPair <=> Len(s) = 2 /\ s[1] = A /\ s[2] = B
      BY <1>3, <3>1
    <3>5. Len(s) = 2 /\ s[1] = A /\ s[2] = B <=> Two(1)
      <4>1. Len(s) = 2 <=> n = 3
        BY <2>1, <3>1
      <4>2. n = 3 => s[1] = parts[2] /\ s[2] = parts[3]
        BY <3>1
      <4>3. Two(1) <=> n = 3 /\ parts[2] = A /\ parts[3] = B
        OBVIOUS
      <4>. QED BY <4>1, <4>2, <4>3
    <3>6. IsAct <=> Three(1)
      <4>1. Len(s) = 3 <=> n = 4
        BY <2>1, <3>1
      <4>2. n = 4 => s[1] = parts[2] /\ s[2] = parts[3] /\ s[3] = parts[4]
        BY <3>1
      <4>3. Three(1) <=> n = 4 /\ parts[2] = A /\ parts[3] # none /\ parts[4] = B
        OBVIOUS
      <4>. QED BY <4>1, <4>2, <4>3
    <3>. HIDE DEF Two, Three, IsPair, IsAct
    <3>. QED BY <2>6, <2>7, <3>2, <3>3, <3>4, <3>5, <3>6
  <2>8. CASE ~isV
    <3>1. s = parts
      BY <2>4, <2>8
    <3>2. IsPair <=> Len(s) = 2 /\ s[1] = A /\ s[2] = B
      BY <1>3, <2>1, <3>1
    <3>3. Len(s) = 2 /\ s[1] = A /\ s[2] = B <=> Two(0)
      BY <3>1 DEF n
    <3>4. IsAct <=> Three(0)
      BY <3>1 DEF n
    <3>. HIDE DEF Two, Three, IsPair, IsAct
    <3>. QED BY <2>6, <2>8, <3>2, <3>3, <3>4
  <2>. QED BY <2>7, <2>8
<1>5. \/ s = none /\ \A t : ~IsReading(u, q, c, t)
      \/ \E w \in Seq(S), parts \in Seq(Seq(S)) : \E e :
            /\ PartsAt(e, parts, w, c)
            /\ s = IF Req!isVersionSegment(parts[1]) THEN Tail(parts) ELSE parts
            /\ \A t : IsReading(u, q, c, t) <=> ReadAt(w, parts, e, t)
  BY SegmentsOfPath
<1>. HIDE DEF IsPair, IsAct, Pair, Act, none, s
<1>6. /\ IsPair <=> \E t : IsReading(u, q, c, t) /\ Pair(t)
      /\ IsAct <=> \E t : IsReading(u, q, c, t) /\ Act(t)
  <2>1. CASE \E w \in Seq(S), parts \in Seq(Seq(S)) : \E e :
                /\ PartsAt(e, parts, w, c)
                /\ s = IF Req!isVersionSegment(parts[1]) THEN Tail(parts) ELSE parts
                /\ \A t : IsReading(u, q, c, t) <=> ReadAt(w, parts, e, t)
    <3>1. PICK w \in Seq(S), parts \in Seq(Seq(S)) : \E e :
                /\ PartsAt(e, parts, w, c)
                /\ s = IF Req!isVersionSegment(parts[1]) THEN Tail(parts) ELSE parts
                /\ \A t : IsReading(u, q, c, t) <=> ReadAt(w, parts, e, t)
      BY <2>1
    <3>2. PICK e :
                /\ PartsAt(e, parts, w, c)
                /\ s = IF Req!isVersionSegment(parts[1]) THEN Tail(parts) ELSE parts
                /\ \A t : IsReading(u, q, c, t) <=> ReadAt(w, parts, e, t)
      BY <3>1
    <3>. QED BY <1>4, <3>2
  <2>. QED BY <1>2, <1>5, <2>1
<1>. QED BY <1>6, Zenon DEF WordsRead, IsPair, IsAct, Pair, Act, none, s, A, B

(* A URI is taken for the endpoint that its path names: NamesEndpoint holds of
   every URI over any tokens, whatever its length (pathSegments,
   isVersionSegment, isContainerCreate, isVolumeCreate, IsDockerCP and
   IsDockerExecCreate, mounts.go:200-274). *)
THEOREM EveryURINamesEndpoint ==
    ASSUME NEW S, NEW uri \in Seq(S)
    PROVE  Req!NamesEndpoint(uri)
<1>. DEFINE ContainerCreate(s) == s = <<"containers", "/", "create">>
            VolumeCreate(s) == s = <<"volumes", "/", "create">>
            Archive(s) == Req!ActsOnContainer(s, "archive")
            Exec(s) == Req!ActsOnContainer(s, "exec")
            container == Req!Reads(uri, ContainerCreate)
            volume == Req!Reads(uri, VolumeCreate)
            archive == Req!Reads(uri, Archive)
            exec == Req!Reads(uri, Exec)
<1>1. /\ "?" # "/" /\ "/" \notin NotSplits /\ "/" \notin VersionTokens
      /\ "containers" # "/" /\ "create" # "/" /\ "volumes" # "/" /\ "archive" # "/" /\ "exec" # "/"
  BY Zenon DEF VersionTokens, Req!VersionDigits, NotSplits
<1>2. ASSUME NEW q, NEW c, q # c, c \notin NotSplits, c \notin VersionTokens,
             NEW a, NEW b, a # c, b # c
      PROVE  WordsRead(uri, q, c, a, b)
  BY <1>2, SegmentsRead
<1>3. /\ WordsRead(uri, "?", "/", "containers", "create")
      /\ WordsRead(uri, "?", "/", "volumes", "create")
      /\ WordsRead(uri, "?", "/", "containers", "archive")
      /\ WordsRead(uri, "?", "/", "containers", "exec")
  BY <1>1, <1>2, Zenon
<1>4. Req!pathSegments(uri) = Segments(uri, "?", "/")
  BY Zenon DEF Req!pathSegments, Segments
<1>5. Req!isContainerCreate(uri) <=> container
  <2>1. container <=> \E t : IsReading(uri, "?", "/", t) /\ t = <<"containers", "/", "create">>
    BY Zenon DEF IsReading, Stands, Req!Reads, Req!PathStands
  <2>. QED BY <1>3, <1>4, <2>1, Zenon DEF WordsRead, Req!isContainerCreate
<1>6. Req!isVolumeCreate(uri) <=> volume
  <2>1. volume <=> \E t : IsReading(uri, "?", "/", t) /\ t = <<"volumes", "/", "create">>
    BY Zenon DEF IsReading, Stands, Req!Reads, Req!PathStands
  <2>. QED BY <1>3, <1>4, <2>1, Zenon DEF WordsRead, Req!isVolumeCreate
<1>7. Req!NamesContainerAnd(uri, "archive") <=> archive
  <2>1. archive <=> \E t : IsReading(uri, "?", "/", t) /\ Acts(t, "containers", "/", "archive")
    <3>1. archive <=> \E t : IsReading(uri, "?", "/", t) /\ Req!ActsOnContainer(t, "archive")
      BY Zenon DEF IsReading, Stands, Req!Reads, Req!PathStands
    <3>2. \A t : Req!ActsOnContainer(t, "archive") <=> Acts(t, "containers", "/", "archive")
      BY Zenon DEF Acts, Req!ActsOnContainer
    <3>. QED BY <3>1, <3>2, Zenon
  <2>. QED BY <1>3, <1>4, <2>1, Zenon DEF WordsRead, Req!NamesContainerAnd
<1>8. Req!NamesContainerAnd(uri, "exec") <=> exec
  <2>1. exec <=> \E t : IsReading(uri, "?", "/", t) /\ Acts(t, "containers", "/", "exec")
    <3>1. exec <=> \E t : IsReading(uri, "?", "/", t) /\ Req!ActsOnContainer(t, "exec")
      BY Zenon DEF IsReading, Stands, Req!Reads, Req!PathStands
    <3>2. \A t : Req!ActsOnContainer(t, "exec") <=> Acts(t, "containers", "/", "exec")
      BY Zenon DEF Acts, Req!ActsOnContainer
    <3>. QED BY <3>1, <3>2, Zenon
  <2>. QED BY <1>3, <1>4, <2>1, Zenon DEF WordsRead, Req!NamesContainerAnd
<1>. DEFINE cc == Req!isContainerCreate(uri)
            vc == Req!isVolumeCreate(uri)
            ca == Req!NamesContainerAnd(uri, "archive")
            ce == Req!NamesContainerAnd(uri, "exec")
            p == Req!pathSegments(uri)
<1>9. ~(cc /\ vc) /\ ~(cc /\ ca) /\ ~(cc /\ ce) /\ ~(vc /\ ca) /\ ~(vc /\ ce) /\ ~(ca /\ ce)
  <2>1. \A x, y : Len(<<x, y>>) = 2 /\ <<x, y>>[1] = x
    OBVIOUS
  <2>2. \A x : <<x>>[1] = x
    OBVIOUS
  <2>3. \A x, y : p = <<x, y>> => Len(p) # 3 /\ p[1] = x
    BY <2>1
  <2>4. /\ cc => Len(p) # 3 /\ p[1] = <<"containers">>
        /\ vc => Len(p) # 3 /\ p[1] = <<"volumes">>
    BY <2>3, Zenon DEF Req!isContainerCreate, Req!isVolumeCreate
  <2>5. /\ ca => Len(p) = 3 /\ p[3] = <<"archive">>
        /\ ce => Len(p) = 3 /\ p[3] = <<"exec">>
    BY Zenon DEF Req!NamesContainerAnd
  <2>6. <<"containers">> # <<"volumes">> /\ <<"archive">> # <<"exec">>
    <3>1. "containers" # "volumes" /\ "archive" # "exec"
      BY Zenon
    <3>. QED BY <2>2, <3>1, Zenon
  <2>. HIDE DEF cc, vc, ca, ce, p
  <2>. QED BY <2>4, <2>5, <2>6, Zenon
<1>10. ASSUME NEW m
       PROVE  LET e == Req!Endpoint(m, uri)
              IN  /\ e = "container_create" <=> cc
                  /\ e = "volume_create" <=> vc
                  /\ e = "docker_cp" <=> ca /\ m \in {"GET", "PUT"}
                  /\ e = "docker_exec" <=> ce /\ m = "POST"
  <2>. DEFINE cp == ca /\ m \in {"GET", "PUT"}
              ex == m = "POST" /\ ce
              e == Req!Endpoint(m, uri)
  <2>1. e = CASE cc -> "container_create" [] vc -> "volume_create" [] cp -> "docker_cp"
              [] ex -> "docker_exec" [] OTHER -> "other"
    BY Zenon DEF Req!Endpoint, Req!IsDockerCP, Req!IsDockerExecCreate
  <2>2. ~(cc /\ vc) /\ ~(cc /\ cp) /\ ~(cc /\ ex) /\ ~(vc /\ cp) /\ ~(vc /\ ex) /\ ~(cp /\ ex)
    BY <1>9
  <2>. HIDE DEF cc, vc, cp, ex, e
  <2>3. /\ e = "container_create" <=> cc
        /\ e = "volume_create" <=> vc
        /\ e = "docker_cp" <=> cp
        /\ e = "docker_exec" <=> ex
    BY <2>1, <2>2
  <2>. QED BY <2>3, Zenon DEF cp, ex, e
<1>. HIDE DEF container, volume, archive, exec, cc, vc, ca, ce
<1>11. \A m \in {"GET", "PUT", "POST", "DELETE"} :
            LET e == Req!Endpoint(m, uri)
            IN  /\ e = "container_create" <=> container
                /\ e = "volume_create" <=> volume
                /\ e = "docker_cp" <=> archive /\ m \in {"GET", "PUT"}
                /\ e = "docker_exec" <=> exec /\ m = "POST"
  BY <1>5, <1>6, <1>7, <1>8, <1>10, Zenon DEF cc, vc, ca, ce
<1>. QED BY <1>11, Zenon DEF Req!NamesEndpoint, container, volume, archive, exec

(* The same of the URIs of the run. *)
THEOREM URIsNamed == Spec => []URIsNameEndpoints
<1>1. TextInv => URIsNameEndpoints
  BY EveryURINamesEndpoint DEF TextInv, URIsNameEndpoints
<1>. QED BY <1>1, TextAlways, PTL

-----------------------------------------------------------------------------
(* Patterns.  Induction along a text, and along a fold. *)

LEMMA UpTo ==
    ASSUME NEW n \in Nat, NEW T, 0 \in T, \A k \in 1..n : k - 1 \in T => k \in T
    PROVE  \A k \in 0..n : k \in T
<1>. DEFINE U == {k \in 0..n : k \notin T}
<1>. SUFFICES ASSUME U # {} PROVE FALSE
  OBVIOUS
<1>1. U \in SUBSET Nat
  OBVIOUS
<1>2. PICK m \in U : \A k \in U : m <= k
  BY <1>1, Least
<1>3. m # 0
  OBVIOUS
<1>4. m \in 1..n /\ m - 1 \in 0..n /\ m - 1 \notin U
  BY <1>2, <1>3
<1>. QED BY <1>4

LEMMA TokenByToken ==
    ASSUME NEW S, NEW T, <<>> \in T,
           \A t \in Seq(S), x \in S : t \in T => Append(t, x) \in T
    PROVE  \A t \in Seq(S) : t \in T
<1>. SUFFICES ASSUME NEW s \in Seq(S) PROVE s \in T
  OBVIOUS
<1>. DEFINE U == {k \in Nat : \A t \in Seq(S) : Len(t) = k => t \in T}
            n == Len(s)
<1>1. 0 \in U
  <2>1. \A t \in Seq(S) : Len(t) = 0 => t = <<>>
    BY EmptySeq
  <2>. QED BY <2>1
<1>2. ASSUME NEW k \in 1..n, k - 1 \in U
      PROVE  k \in U
  <2>1. ASSUME NEW t \in Seq(S), Len(t) = k
        PROVE  t \in T
    <3>1. t # <<>>
      BY <2>1, EmptySeq
    <3>2. PICK u \in Seq(S), x \in S : t = Append(u, x)
      BY <3>1, SequenceEmptyOrAppend
    <3>3. Len(t) = Len(u) + 1
      BY <3>2, AppendProperties
    <3>4. Len(u) = k - 1
      BY <2>1, <3>3
    <3>. QED BY <1>2, <3>2, <3>4
  <2>2. k \in Nat
    OBVIOUS
  <2>. QED BY <2>1, <2>2
<1>3. n \in Nat
  OBVIOUS
<1>. HIDE DEF U
<1>4. \A k \in 0..n : k \in U
  BY <1>1, <1>2, <1>3, UpTo
<1>5. n \in U
  BY <1>3, <1>4
<1>. QED BY <1>5 DEF U

(* A fold goes the same way as long as the texts agree. *)
LEMMA ReachesSame ==
    ASSUME NEW what, NEW base, NEW s, NEW t, NEW n \in Nat,
           Len(s) \in Nat, Len(t) \in Nat, n <= Len(s), n <= Len(t),
           \A i \in 1..n : s[i] = t[i],
           NEW f, Reaches(f, what, base, s), NEW g, Reaches(g, what, base, t)
    PROVE  f[n] = g[n]
<1>. DEFINE T == {k \in 0..n : f[k] = g[k]}
<1>1. 0 \in T
  BY DEF Reaches
<1>2. ASSUME NEW k \in 1..n, k - 1 \in T
      PROVE  k \in T
  <2>1. k \in 1..Len(s) /\ k \in 1..Len(t) /\ k \in 0..n
    OBVIOUS
  <2>2. f[k] = Step(what, f[k - 1], s[k]) /\ g[k] = Step(what, g[k - 1], t[k])
    BY <2>1 DEF Reaches
  <2>. QED BY <1>2, <2>1, <2>2
<1>. HIDE DEF T
<1>3. \A k \in 0..n : k \in T
  BY <1>1, <1>2, UpTo
<1>. QED BY <1>3 DEF T

Slash == "/"

LEMMA ComponentsReach ==
    ASSUME NEW S, NEW t \in Seq(S)
    PROVE  \E f : Reaches(f, Slash, <<<<>>>>, t) /\ Components(t) = f[Len(t)]
<1>1. Slash \notin NotSplits
  BY DEF Slash, NotSplits
<1>2. DOMAIN t = 1..Len(t) /\ Len(t) \in Nat
  OBVIOUS
<1>3. Components(t) = Req!Split(t, Slash)
  BY DEF Components, Req!Split, Slash, FoldLeft, Req!FoldLeft, MapThenFoldSet, Req!MapThenFoldSet,
         Max, Req!Max, Front, Req!Front, Last, Req!Last
<1>. QED BY <1>1, <1>2, <1>3, SplitReaches

(* Components of one token more. *)
LEMMA ComponentsNext ==
    ASSUME NEW S, NEW t \in Seq(S), NEW x \in S
    PROVE  Components(Append(t, x)) = NextParts(Components(t), x, x = Slash)
<1>. DEFINE u == Append(t, x)
            n == Len(t)
<1>1. u \in Seq(S) /\ Len(u) = n + 1 /\ u[n + 1] = x /\ n \in Nat /\ \A i \in 1..n : t[i] = u[i]
  BY AppendProperties
<1>. HIDE DEF u, n
<1>2. PICK f : Reaches(f, Slash, <<<<>>>>, t) /\ Components(t) = f[n]
  BY ComponentsReach DEF n
<1>3. PICK g : Reaches(g, Slash, <<<<>>>>, u) /\ Components(u) = g[n + 1]
  BY <1>1, ComponentsReach
<1>4. n = Len(t) /\ n <= Len(t) /\ n <= Len(u) /\ Len(u) \in Nat
  BY <1>1 DEF n
<1>5. f[n] = g[n]
  BY <1>1, <1>2, <1>3, <1>4, ReachesSame
<1>6. g[n + 1] = Step(Slash, g[n], x)
  <2>1. n + 1 \in 1..Len(u) /\ n + 1 - 1 = n
    BY <1>1
  <2>. QED BY <1>1, <1>3, <2>1 DEF Reaches
<1>7. Slash \notin NotSplits /\ Slash # "subject"
  BY DEF Slash, NotSplits
<1>8. Step(Slash, g[n], x) = NextParts(g[n], x, x = Slash)
  BY <1>7 DEF Step
<1>. QED BY <1>2, <1>3, <1>5, <1>6, <1>8 DEF u

LEMMA ComponentsOfNone == Components(<<>>) = <<<<>>>>
<1>1. <<>> \in Seq({}) /\ Len(<<>>) = 0
  OBVIOUS
<1>2. PICK f : Reaches(f, Slash, <<<<>>>>, <<>>) /\ Components(<<>>) = f[Len(<<>>)]
  BY <1>1, ComponentsReach
<1>. QED BY <1>1, <1>2 DEF Reaches

WhatOf(rooted) == IF rooted THEN "rooted" ELSE "relative"

(* How the components are cleaned. *)
LEMMA CleanReaches ==
    ASSUME NEW t, DOMAIN Components(t) = 1..Len(Components(t)),
           Len(Components(t)) \in Nat
    PROVE  \E f : /\ Reaches(f, WhatOf(Rooted(t)), <<>>, Components(t))
                  /\ CleanComponents(t) = f[Len(Components(t))]
<1>. DEFINE add == Components(t)
            r == Rooted(t)
            W(h) == h = [s \in SUBSET DOMAIN add |->
                            IF s = {} THEN <<>> ELSE CleanStep(r, h[s \ {Max(s)}], add[Max(s)])]
            C == CHOOSE h : W(h)
            ByCase(out, c) ==
                CASE c \in {<<>>, Dot} -> out
                  [] c = DotDot /\ out # <<>> /\ Last(out) # DotDot -> Front(out)
                  [] c = DotDot /\ out = <<>> /\ Rooted(t) -> out
                  [] OTHER -> Append(out, c)
<1>5. ASSUME NEW out, NEW c
      PROVE  ByCase(out, c) = CleanStep(r, out, c)
  <2>0. Dot # DotDot /\ <<>> # DotDot
    BY DEF Dot, DotDot
  <2>. DEFINE skip == c \in {<<>>, Dot}
              back == c = DotDot /\ out # <<>> /\ Last(out) # DotDot
              root == c = DotDot /\ out = <<>> /\ Rooted(t)
              front == Front(out)
              more == Append(out, c)
  <2>1. ByCase(out, c) = CASE skip -> out [] back -> front [] root -> out [] OTHER -> more
    OBVIOUS
  <2>2. CleanStep(r, out, c) = IF skip THEN out ELSE IF back THEN front ELSE IF root THEN out ELSE more
    BY DEF CleanStep
  <2>3. (skip => ~back /\ ~root) /\ (back => ~root)
    BY <2>0
  <2>. HIDE DEF ByCase, skip, back, root, front, more
  <2>4. CASE skip
    BY <2>1, <2>2, <2>3, <2>4
  <2>5. CASE back
    BY <2>1, <2>2, <2>3, <2>5
  <2>6. CASE root
    BY <2>1, <2>2, <2>3, <2>6
  <2>7. CASE ~skip /\ ~back /\ ~root
    BY <2>1, <2>2, <2>7
  <2>. QED BY <2>4, <2>5, <2>6, <2>7
<1>6. CleanComponents(t)
        = (CHOOSE h : h = [s \in SUBSET DOMAIN add |->
                             IF s = {} THEN <<>> ELSE ByCase(h[s \ {Max(s)}], add[Max(s)])])[DOMAIN add]
  BY DEF CleanComponents, FoldLeft, MapThenFoldSet
<1>. HIDE DEF ByCase
<1>1. CleanComponents(t) = C[DOMAIN add]
  BY <1>5, <1>6
<1>2. ASSUME NEW h
      PROVE  W(h) <=> Iterates(h, WhatOf(r), <<>>, add, Len(add))
  <2>1. \A out, c : Step(WhatOf(r), out, c) = CleanStep(r, out, c)
    BY DEF Step, WhatOf, NotSplits, Rooted
  <2>2. [s \in SUBSET DOMAIN add |->
            IF s = {} THEN <<>> ELSE CleanStep(r, h[s \ {Max(s)}], add[Max(s)])]
        = [s \in SUBSET (1..Len(add)) |->
            IF s = {} THEN <<>> ELSE Step(WhatOf(r), h[s \ {Max(s)}], add[Max(s)])]
    BY <2>1
  <2>. QED BY <2>2 DEF Iterates
<1>. HIDE DEF W
<1>3. \E h : W(h)
  BY <1>2, IteratesExists
<1>4. W(C)
  BY <1>3
<1>. QED BY <1>1, <1>2, <1>4, IteratesReaches

(* Texts put together with a slash between them, and their components. *)
SlashFree(c) == \A i \in 1..Len(c) : c[i] # Slash

Join(t, u) == (t \o <<Slash>>) \o u

LEMMA SlashFreeAppend ==
    ASSUME NEW S, NEW c \in Seq(S), NEW x \in S
    PROVE  SlashFree(Append(c, x)) <=> SlashFree(c) /\ x # Slash
<1>1. /\ Len(Append(c, x)) = Len(c) + 1 /\ Len(c) \in Nat /\ Append(c, x)[Len(c) + 1] = x
      /\ \A i \in 1..Len(c) : Append(c, x)[i] = c[i]
  BY AppendProperties
<1>2. \A i \in 1..(Len(c) + 1) : i \in 1..Len(c) \/ i = Len(c) + 1
  BY <1>1
<1>3. Len(c) + 1 \in 1..(Len(c) + 1) /\ \A i \in 1..Len(c) : i \in 1..(Len(c) + 1)
  BY <1>1
<1>. QED BY <1>1, <1>2, <1>3 DEF SlashFree

PartsMore(more, S, parts, x, separates) ==
    /\ more \in Seq(Seq(S)) /\ more # <<>>
    /\ separates =>
          /\ Len(more) = Len(parts) + 1 /\ more[Len(parts) + 1] = <<>>
          /\ \A i \in 1..Len(parts) : more[i] = parts[i]
    /\ ~separates =>
          /\ Len(more) = Len(parts) /\ more[Len(parts)] = Append(parts[Len(parts)], x)
          /\ \A i \in 1..(Len(parts) - 1) : more[i] = parts[i]

LEMMA NextPartsFacts ==
    ASSUME NEW S, NEW parts \in Seq(Seq(S)), parts # <<>>, NEW x \in S, NEW separates \in BOOLEAN
    PROVE  PartsMore(NextParts(parts, x, separates), S, parts, x, separates)
<1>. DEFINE T == Seq(S)
            n == Len(parts)
            part == Append(parts[n], x)
<1>1. parts \in Seq(T) /\ <<>> \in T /\ n \in Nat \ {0}
  BY EmptySeq
<1>2. part \in T /\ Last(parts) = parts[n]
  <2>1. n \in 1..Len(parts)
    BY <1>1
  <2>. HIDE DEF T, n
  <2>2. parts[n] \in T
    BY <1>1, <2>1, ElementOfSeq
  <2>. QED BY <2>2, AppendProperties DEF T, n, Last
<1>3. CASE separates
  <2>. HIDE DEF T
  <2>1. /\ Append(parts, <<>>) \in Seq(T) /\ Append(parts, <<>>) # <<>>
        /\ Len(Append(parts, <<>>)) = Len(parts) + 1
        /\ \A i \in 1..Len(parts) : Append(parts, <<>>)[i] = parts[i]
        /\ Append(parts, <<>>)[Len(parts) + 1] = <<>>
    BY <1>1, AppendProperties
  <2>. QED BY <1>3, <2>1 DEF NextParts, PartsMore, T
<1>4. CASE ~separates
  <2>. HIDE DEF T, part
  <2>1. /\ Append(Front(parts), part) \in Seq(T) /\ Append(Front(parts), part) # <<>>
        /\ Len(Append(Front(parts), part)) = Len(parts)
        /\ \A i \in 1..(Len(parts) - 1) : Append(Front(parts), part)[i] = parts[i]
        /\ Append(Front(parts), part)[Len(parts)] = part
    BY <1>1, <1>2, LastPart
  <2>. QED BY <1>2, <1>4, <2>1 DEF NextParts, PartsMore, T, part
<1>. QED BY <1>3, <1>4

LEMMA ComponentsType ==
    ASSUME NEW S, NEW t \in Seq(S)
    PROVE  /\ Components(t) \in Seq(Seq(S)) /\ Len(Components(t)) \in Nat \ {0}
           /\ Components(t) # <<>>
           /\ \A k \in 1..Len(Components(t)) :
                  Components(t)[k] \in Seq(S) /\ SlashFree(Components(t)[k])
<1>. DEFINE Good(parts) == /\ parts \in Seq(Seq(S)) /\ Len(parts) \in Nat \ {0} /\ parts # <<>>
                           /\ \A k \in 1..Len(parts) : parts[k] \in Seq(S) /\ SlashFree(parts[k])
            T == {u \in Seq(S) : Good(Components(u))}
<1>1. <<>> \in T
  <2>1. Good(<<<<>>>>)
    <3>. DEFINE one == <<<<>>>>
    <3>1. <<>> \in Seq(S) /\ SlashFree(<<>>)
      BY DEF SlashFree
    <3>2. one \in Seq(Seq(S)) /\ Len(one) = 1 /\ one # <<>> /\ one[1] = <<>>
      BY <3>1
    <3>. HIDE DEF one
    <3>3. Good(one)
      BY <3>1, <3>2
    <3>. QED BY <3>3 DEF one
  <2>2. <<>> \in Seq(S)
    OBVIOUS
  <2>. HIDE DEF Good
  <2>. QED BY <2>1, <2>2, ComponentsOfNone
<1>2. ASSUME NEW u \in Seq(S), NEW x \in S, u \in T
      PROVE  Append(u, x) \in T
  <2>. DEFINE parts == Components(u)
              n == Len(parts)
              sep == (x = Slash)
              more == NextParts(parts, x, sep)
  <2>1. Components(Append(u, x)) = more /\ sep \in BOOLEAN /\ Append(u, x) \in Seq(S)
    BY ComponentsNext, AppendProperties
  <2>2. Good(parts)
    BY <1>2
  <2>3. sep <=> x = Slash
    OBVIOUS
  <2>. HIDE DEF parts, sep
  <2>4. /\ more \in Seq(Seq(S)) /\ more # <<>>
        /\ sep => Len(more) = n + 1 /\ more[n + 1] = <<>>
                  /\ \A i \in 1..n : more[i] = parts[i]
        /\ ~sep => Len(more) = n /\ more[n] = Append(parts[n], x)
                   /\ \A i \in 1..(n - 1) : more[i] = parts[i]
    <3>1. PartsMore(more, S, parts, x, sep)
      BY <2>1, <2>2, NextPartsFacts
    <3>. QED BY <3>1 DEF PartsMore
  <2>5. n \in Nat \ {0}
    BY <2>2
  <2>. HIDE DEF more, n
  <2>6. \A k \in 1..n : parts[k] \in Seq(S) /\ SlashFree(parts[k])
    BY <2>2 DEF n
  <2>7. CASE sep
    <3>1. \A k \in 1..(n + 1) : k \in 1..n \/ k = n + 1
      BY <2>5
    <3>2. SlashFree(<<>>) /\ <<>> \in Seq(S)
      BY DEF SlashFree
    <3>3. \A k \in 1..(n + 1) : more[k] \in Seq(S) /\ SlashFree(more[k])
      BY <2>4, <2>6, <2>7, <3>1, <3>2
    <3>. QED BY <2>1, <2>4, <2>5, <2>7, <3>3
  <2>8. CASE ~sep
    <3>1. \A k \in 1..n : k \in 1..(n - 1) \/ k = n
      BY <2>5
    <3>. DEFINE p == parts[n]
    <3>2. p \in Seq(S) /\ SlashFree(p)
      BY <2>5, <2>6
    <3>. HIDE DEF p
    <3>3. Append(p, x) \in Seq(S) /\ x # Slash
      BY <2>3, <2>8, <3>2, AppendProperties
    <3>4. SlashFree(Append(p, x))
      BY <3>2, <3>3, SlashFreeAppend
    <3>5. more[n] = Append(p, x)
      BY <2>4, <2>8 DEF p
    <3>6. \A k \in 1..(n - 1) : k \in 1..n /\ more[k] = parts[k]
      BY <2>4, <2>5, <2>8
    <3>7. \A k \in 1..n : more[k] \in Seq(S) /\ SlashFree(more[k])
      BY <2>6, <3>1, <3>3, <3>4, <3>5, <3>6
    <3>. QED BY <2>1, <2>4, <2>5, <2>8, <3>7
  <2>. QED BY <2>7, <2>8
<1>. HIDE DEF T
<1>3. t \in T
  BY <1>1, <1>2, TokenByToken
<1>. QED BY <1>3 DEF T

LEMMA FrontOfAppend ==
    ASSUME NEW S, NEW s \in Seq(S), NEW x \in S
    PROVE  Front(Append(s, x)) = s /\ Last(Append(s, x)) = x
<1>. DEFINE u == Append(s, x)
            n == Len(s)
<1>1. /\ u \in Seq(S) /\ Len(u) = n + 1 /\ n \in Nat /\ u[n + 1] = x
      /\ \A i \in 1..n : u[i] = s[i]
  BY AppendProperties
<1>2. Front(u) = SubSeq(u, 1, n)
  <2>1. Len(u) - 1 = n
    BY <1>1
  <2>. QED BY <2>1 DEF Front
<1>. HIDE DEF u
<1>3. \A i \in 1..n : i \in 1..Len(u)
  BY <1>1
<1>4. \A i \in 1..n : u[i] \in S
  BY <1>1, <1>3, ElementOfSeq
<1>. HIDE DEF n
<1>5. SubSeq(u, 1, n) = s
  <2>1. /\ SubSeq(u, 1, n) \in Seq(S)
        /\ Len(SubSeq(u, 1, n)) = IF 1 <= n THEN n - 1 + 1 ELSE 0
        /\ \A i \in 1..(n - 1 + 1) : SubSeq(u, 1, n)[i] = u[1 + i - 1]
    BY <1>1, <1>4, SubSeqProperties
  <2>2. /\ (IF 1 <= n THEN n - 1 + 1 ELSE 0) = n /\ n - 1 + 1 = n
        /\ \A i \in 1..n : 1 + i - 1 = i
    BY <1>1
  <2>3. n = Len(s)
    BY DEF n
  <2>. QED BY <1>1, <2>1, <2>2, <2>3, SeqEqual
<1>. QED BY <1>1, <1>2, <1>5 DEF Last, u

AppendsAfter(s, t, x) == Append(s \o t, x) = s \o Append(t, x)

LEMMA AppendToConcat ==
    ASSUME NEW S, NEW s \in Seq(S), NEW t \in Seq(S), NEW x \in S
    PROVE  AppendsAfter(s, t, x)
<1>1. s \o t \in Seq(S) /\ <<x>> \in Seq(S)
  BY ConcatProperties
<1>2. Append(s \o t, x) = (s \o t) \o <<x>> /\ Append(t, x) = t \o <<x>>
  BY <1>1, AppendIsConcat
<1>3. (s \o t) \o <<x>> = s \o (t \o <<x>>)
  BY <1>1, ConcatAssociative
<1>. QED BY <1>2, <1>3 DEF AppendsAfter

LEMMA FrontOfConcat ==
    ASSUME NEW S, NEW s \in Seq(S), NEW t \in Seq(S), t # <<>>
    PROVE  Front(s \o t) = s \o Front(t) /\ Last(s \o t) = Last(t) /\ Front(t) \in Seq(S)
<1>1. PICK c \in Seq(S), p \in S : t = Append(c, p)
  BY SequenceEmptyOrAppend
<1>2. s \o t = Append(s \o c, p)
  BY <1>1, AppendToConcat DEF AppendsAfter
<1>3. s \o c \in Seq(S)
  BY ConcatProperties
<1>4. Front(Append(s \o c, p)) = s \o c /\ Last(Append(s \o c, p)) = p
  BY <1>3, FrontOfAppend
<1>5. Front(t) = c /\ Last(t) = p
  BY <1>1, FrontOfAppend
<1>. QED BY <1>2, <1>4, <1>5

LEMMA NextPartsAfter ==
    ASSUME NEW S, NEW a \in Seq(Seq(S)), NEW b \in Seq(Seq(S)), b # <<>>,
           NEW x \in S, NEW separates \in BOOLEAN
    PROVE  NextParts(a \o b, x, separates) = a \o NextParts(b, x, separates)
<1>. DEFINE T == Seq(S)
<1>1. a \in Seq(T) /\ b \in Seq(T) /\ <<>> \in T
  OBVIOUS
<1>2. Last(b) \in T
  <2>1. Len(b) \in 1..Len(b)
    BY EmptySeq
  <2>. HIDE DEF T
  <2>. QED BY <1>1, <2>1, ElementOfSeq DEF Last
<1>3. Append(Last(b), x) \in T
  BY <1>2, AppendProperties
<1>. HIDE DEF T
<1>4. ASSUME NEW s \in Seq(T), NEW q \in T
      PROVE  Append(a \o s, q) = a \o Append(s, q)
  <2>1. AppendsAfter(a, s, q)
    BY <1>1, AppendToConcat
  <2>. QED BY <2>1 DEF AppendsAfter
<1>5. Front(a \o b) = a \o Front(b) /\ Last(a \o b) = Last(b) /\ Front(b) \in Seq(T)
  BY <1>1, FrontOfConcat
<1>6. CASE separates
  BY <1>1, <1>4, <1>6 DEF NextParts
<1>7. CASE ~separates
  BY <1>3, <1>4, <1>5, <1>7 DEF NextParts
<1>. QED BY <1>6, <1>7

Joined(p, S, t, u) ==
    /\ p \in Seq(S) /\ p # <<>> /\ Len(t) \in Nat /\ Len(u) \in Nat
    /\ Len(p) = Len(t) + 1 + Len(u)
    /\ \A i \in 1..Len(t) : p[i] = t[i]
    /\ p[Len(t) + 1] = Slash
    /\ \A i \in 1..Len(u) : p[Len(t) + 1 + i] = u[i]

LEMMA JoinType ==
    ASSUME NEW S, Slash \in S, NEW t \in Seq(S), NEW u \in Seq(S)
    PROVE  Joined(Join(t, u), S, t, u)
<1>. DEFINE a == Append(t, Slash)
            n == Len(t)
            m == Len(u)
<1>1. /\ a \in Seq(S) /\ Len(a) = n + 1 /\ a[n + 1] = Slash /\ \A i \in 1..n : a[i] = t[i]
      /\ a = t \o <<Slash>>
  BY AppendProperties, AppendIsConcat
<1>2. Join(t, u) = a \o u
  BY <1>1 DEF Join
<1>. HIDE DEF a
<1>3. /\ a \o u \in Seq(S) /\ Len(a \o u) = Len(a) + m
      /\ \A i \in 1..(Len(a) + m) : (a \o u)[i] = IF i <= Len(a) THEN a[i] ELSE u[i - Len(a)]
  BY <1>1, ConcatProperties
<1>4. n \in Nat /\ m \in Nat
  OBVIOUS
<1>. HIDE DEF n, m
<1>5. /\ a \o u \in Seq(S) /\ Len(a \o u) = n + 1 + m
      /\ \A i \in 1..(n + 1 + m) : (a \o u)[i] = IF i <= n + 1 THEN a[i] ELSE u[i - (n + 1)]
  BY <1>1, <1>3, <1>4
<1>6. (a \o u)[n + 1] = Slash /\ \A i \in 1..n : (a \o u)[i] = t[i]
  <2>1. \A i \in 1..(n + 1) : i \in 1..(n + 1 + m) /\ i <= n + 1
    BY <1>4
  <2>2. \A i \in 1..n : i \in 1..(n + 1)
    BY <1>4
  <2>3. n + 1 \in 1..(n + 1)
    BY <1>4
  <2>. QED BY <1>1, <1>5, <2>1, <2>2, <2>3
<1>7. \A i \in 1..m : (a \o u)[n + 1 + i] = u[i]
  <2>1. \A i \in 1..m : /\ n + 1 + i \in 1..(n + 1 + m) /\ ~(n + 1 + i <= n + 1)
                        /\ n + 1 + i - (n + 1) = i
    BY <1>4
  <2>2. ASSUME NEW i \in 1..m
        PROVE  (a \o u)[n + 1 + i] = u[i]
    <3>. DEFINE k == n + 1 + i
    <3>1. k \in 1..(n + 1 + m) /\ ~(k <= n + 1) /\ k - (n + 1) = i
      BY <1>4, <2>1
    <3>. HIDE DEF k
    <3>2. (a \o u)[k] = u[i]
      BY <1>5, <3>1
    <3>. QED BY <3>2 DEF k
  <2>. QED BY <2>2
<1>8. a \o u # <<>>
  BY <1>4, <1>5, EmptySeq
<1>. QED BY <1>2, <1>4, <1>5, <1>6, <1>7, <1>8 DEF Joined, n, m

Joins(S, t) ==
    /\ Join(t, <<>>) = Append(t, Slash)
    /\ \A u \in Seq(S), x \in S : Join(t, Append(u, x)) = Append(Join(t, u), x)

LEMMA JoinNext ==
    ASSUME NEW S, Slash \in S, NEW t \in Seq(S)
    PROVE  Joins(S, t)
<1>1. Join(t, <<>>) = Append(t, Slash)
  <2>1. Append(t, Slash) = t \o <<Slash>> /\ Append(t, Slash) \in Seq(S)
    BY AppendIsConcat, AppendProperties
  <2>2. Append(t, Slash) \o <<>> = Append(t, Slash)
    BY <2>1, ConcatEmptySeq
  <2>. QED BY <2>1, <2>2 DEF Join
<1>2. ASSUME NEW u \in Seq(S), NEW x \in S
      PROVE  Join(t, Append(u, x)) = Append(Join(t, u), x)
  <2>. DEFINE a == t \o <<Slash>>
  <2>1. a \in Seq(S)
    BY ConcatProperties
  <2>. HIDE DEF a
  <2>2. AppendsAfter(a, u, x)
    BY <2>1, AppendToConcat
  <2>. QED BY <2>2 DEF AppendsAfter, Join, a
<1>. QED BY <1>1, <1>2 DEF Joins

(* Splitting at the slashes goes on after a slash as it would begin. *)
LEMMA ComponentsJoin ==
    ASSUME NEW S, Slash \in S, NEW t \in Seq(S), NEW u \in Seq(S)
    PROVE  Components(Join(t, u)) = Components(t) \o Components(u)
<1>. DEFINE T == {v \in Seq(S) : Components(Join(t, v)) = Components(t) \o Components(v)}
<1>1. <<>> \in T
  <2>. DEFINE Q == Seq(S)
  <2>1. Join(t, <<>>) = Append(t, Slash)
    BY JoinNext DEF Joins
  <2>2. Components(Append(t, Slash)) = Append(Components(t), <<>>)
    BY ComponentsNext DEF NextParts
  <2>3. Components(t) \in Seq(Q) /\ <<>> \in Q
    BY ComponentsType
  <2>. HIDE DEF Q
  <2>4. Append(Components(t), <<>>) = Components(t) \o <<<<>>>>
    BY <2>3, AppendIsConcat
  <2>5. <<>> \in Seq(S)
    OBVIOUS
  <2>. QED BY <2>1, <2>2, <2>4, <2>5, ComponentsOfNone
<1>2. ASSUME NEW v \in Seq(S), NEW x \in S, v \in T
      PROVE  Append(v, x) \in T
  <2>. DEFINE sep == (x = Slash)
              a == Components(t)
              b == Components(v)
  <2>1. Join(t, Append(v, x)) = Append(Join(t, v), x)
    BY JoinNext DEF Joins
  <2>2. Components(Append(Join(t, v), x)) = NextParts(Components(Join(t, v)), x, sep)
    BY JoinType, ComponentsNext DEF Joined
  <2>3. Components(Join(t, v)) = a \o b /\ Components(Append(v, x)) = NextParts(b, x, sep)
    BY <1>2, ComponentsNext
  <2>4. a \in Seq(Seq(S)) /\ b \in Seq(Seq(S)) /\ b # <<>> /\ sep \in BOOLEAN
    BY ComponentsType
  <2>. HIDE DEF a, b, sep
  <2>5. NextParts(a \o b, x, sep) = a \o NextParts(b, x, sep)
    BY <2>4, NextPartsAfter
  <2>6. Append(v, x) \in Seq(S)
    BY AppendProperties
  <2>. QED BY <2>1, <2>2, <2>3, <2>5, <2>6 DEF a
<1>. HIDE DEF T
<1>3. u \in T
  BY <1>1, <1>2, TokenByToken
<1>. QED BY <1>3 DEF T

LEMMA SlashFreeIsOne ==
    ASSUME NEW S, NEW c \in Seq(S), SlashFree(c)
    PROVE  Components(c) = <<c>>
<1>. DEFINE T == {v \in Seq(S) : SlashFree(v) => Components(v) = <<v>>}
            Q == Seq(S)
<1>1. <<>> \in T
  BY ComponentsOfNone
<1>2. ASSUME NEW v \in Seq(S), NEW x \in S, v \in T
      PROVE  Append(v, x) \in T
  <2>1. Append(v, x) \in Seq(S)
    BY AppendProperties
  <2>2. ASSUME SlashFree(Append(v, x))
        PROVE  Components(Append(v, x)) = <<Append(v, x)>>
    <3>1. SlashFree(v) /\ x # Slash
      BY <2>2, SlashFreeAppend
    <3>2. Components(Append(v, x)) = Append(Front(<<v>>), Append(Last(<<v>>), x))
      BY <1>2, <3>1, ComponentsNext DEF NextParts
    <3>3. v \in Q /\ <<>> \in Seq(Q)
      OBVIOUS
    <3>. HIDE DEF Q
    <3>4. Append(<<>>, v) = <<v>>
      OBVIOUS
    <3>5. Front(Append(<<>>, v)) = <<>> /\ Last(Append(<<>>, v)) = v
      BY <3>3, FrontOfAppend
    <3>6. Append(<<>>, Append(v, x)) = <<Append(v, x)>>
      OBVIOUS
    <3>. QED BY <3>2, <3>4, <3>5, <3>6
  <2>. QED BY <2>1, <2>2
<1>. HIDE DEF T
<1>3. c \in T
  BY <1>1, <1>2, TokenByToken
<1>. QED BY <1>3 DEF T

(* The first and the last slash of a text that has one. *)
LEMMA AroundSlash ==
    ASSUME NEW S, Slash \in S, NEW t \in Seq(S), ~SlashFree(t)
    PROVE  /\ \E a, b \in Seq(S) : t = Join(a, b) /\ SlashFree(a)
           /\ \E a, b \in Seq(S) : t = Join(a, b) /\ SlashFree(b)
<1>. DEFINE First(u) == \E a, b \in Seq(S) : u = Join(a, b) /\ SlashFree(a)
            Final(u) == \E a, b \in Seq(S) : u = Join(a, b) /\ SlashFree(b)
            T == {u \in Seq(S) : SlashFree(u) \/ (First(u) /\ Final(u))}
<1>0. <<>> \in Seq(S) /\ SlashFree(<<>>)
  BY DEF SlashFree
<1>1. <<>> \in T
  BY <1>0
<1>2. ASSUME NEW u \in Seq(S), NEW x \in S, u \in T
      PROVE  Append(u, x) \in T
  <2>1. Append(u, x) \in Seq(S) /\ \A b \in Seq(S) : Append(b, x) \in Seq(S)
    BY AppendProperties
  <2>2. ASSUME NEW a \in Seq(S), NEW b \in Seq(S), u = Join(a, b)
        PROVE  Append(u, x) = Join(a, Append(b, x))
    <3>1. Joins(S, a)
      BY JoinNext
    <3>2. Join(a, Append(b, x)) = Append(Join(a, b), x)
      BY <3>1 DEF Joins
    <3>. QED BY <2>2, <3>2
  <2>3. x = Slash => Append(u, x) = Join(u, <<>>)
    BY JoinNext DEF Joins
  <2>4. SlashFree(u) /\ x # Slash => SlashFree(Append(u, x))
    BY SlashFreeAppend
  <2>5. ~SlashFree(u) => First(Append(u, x))
    BY <1>2, <2>1, <2>2
  <2>6. x = Slash => Final(Append(u, x))
    BY <1>0, <2>3
  <2>7. x = Slash /\ SlashFree(u) => First(Append(u, x))
    BY <1>0, <2>3
  <2>8. ASSUME x # Slash, ~SlashFree(u)
        PROVE  Final(Append(u, x))
    <3>1. PICK a, b \in Seq(S) : u = Join(a, b) /\ SlashFree(b)
      BY <1>2, <2>8
    <3>2. SlashFree(Append(b, x))
      BY <2>8, <3>1, SlashFreeAppend
    <3>. QED BY <2>1, <2>2, <3>1, <3>2
  <2>. HIDE DEF First, Final
  <2>. QED BY <2>1, <2>4, <2>5, <2>6, <2>7, <2>8
<1>. HIDE DEF T
<1>3. t \in T
  BY <1>1, <1>2, TokenByToken
<1>. QED BY <1>3 DEF T

(* A path is rooted when it has several components and the first is empty. *)
LEMMA RootedIs ==
    ASSUME NEW S, Slash \in S, NEW t \in Seq(S)
    PROVE  Rooted(t) <=> \E b \in Seq(S) : t = Join(<<>>, b)
<1>0. Rooted(t) <=> t # <<>> /\ t[1] = Slash
  BY DEF Rooted, Slash
<1>1. <<>> \in Seq(S) /\ Len(<<>>) = 0
  OBVIOUS
<1>2. ASSUME NEW b \in Seq(S), t = Join(<<>>, b)
      PROVE  t # <<>> /\ t[1] = Slash
  <2>1. 0 + 1 = 1
    OBVIOUS
  <2>2. Join(<<>>, b) # <<>> /\ Join(<<>>, b)[Len(<<>>) + 1] = Slash
    BY <1>1, JoinType DEF Joined
  <2>. QED BY <1>1, <1>2, <2>1, <2>2
<1>3. ASSUME t # <<>>, t[1] = Slash
      PROVE  \E b \in Seq(S) : t = Join(<<>>, b)
  <2>1. Len(t) \in Nat \ {0} /\ 1 \in 1..Len(t)
    BY <1>3, EmptySeq
  <2>2. ~SlashFree(t)
    BY <1>3, <2>1 DEF SlashFree
  <2>3. PICK a, b \in Seq(S) : t = Join(a, b) /\ SlashFree(a)
    BY <2>2, AroundSlash
  <2>4. a = <<>>
    <3>1. SUFFICES ASSUME a # <<>> PROVE FALSE
      OBVIOUS
    <3>2. 1 \in 1..Len(a)
      BY <3>1, EmptySeq
    <3>3. t[1] = a[1]
      <4>1. Joined(Join(a, b), S, a, b)
        BY JoinType
      <4>. QED BY <2>3, <3>2, <4>1 DEF Joined
    <3>. QED BY <1>3, <2>3, <3>2, <3>3 DEF SlashFree
  <2>. QED BY <2>3, <2>4
<1>. QED BY <1>0, <1>2, <1>3

(* FlattenSeq, and what it keeps. *)
LEMMA FlattenNext ==
    ASSUME NEW S, NEW q \in Seq(S), NEW p \in S
    PROVE  FlattenSeq(Append(q, p)) = IF q = <<>> THEN p ELSE FlattenSeq(q) \o p
<1>. DEFINE r == Append(q, p)
            n == Len(q)
            G == CHOOSE g : Flattens(g, q, n)
            H == CHOOSE h : Flattens(h, r, n + 1)
<1>1. /\ Len(r) = n + 1 /\ n \in Nat /\ r[n + 1] = p /\ \A i \in 1..n : r[i] = q[i]
  BY AppendProperties
<1>2. Flattens(G, q, n) /\ Flattens(H, r, n + 1)
  <2>1. \E g : Flattens(g, q, n)
    BY <1>1, FlattensExists
  <2>2. n + 1 \in Nat
    BY <1>1
  <2>. HIDE DEF n, r
  <2>3. \E h : Flattens(h, r, n + 1)
    BY <2>2, FlattensExists
  <2>. QED BY <2>1, <2>3
<1>3. FlattenSeq(r) = H[n + 1]
  <2>1. Len(r) # 0
    BY <1>1
  <2>. HIDE DEF r, n
  <2>. QED BY <1>1, <2>1 DEF FlattenSeq, Flattens
<1>4. q # <<>> => FlattenSeq(q) = G[n]
  <2>1. q # <<>> => Len(q) # 0
    BY EmptySeq
  <2>. QED BY <2>1 DEF FlattenSeq, Flattens
<1>. HIDE DEF G, H, n, r
<1>5. \A i \in 1..n : G[i] = IF i = 1 THEN q[i] ELSE G[i - 1] \o q[i]
  BY <1>2 DEF Flattens
<1>6. \A i \in 1..(n + 1) : H[i] = IF i = 1 THEN r[i] ELSE H[i - 1] \o r[i]
  BY <1>2 DEF Flattens
<1>7. \A k \in 0..n : k = 0 \/ H[k] = G[k]
  <2>. DEFINE T == {k \in 0..n : k = 0 \/ H[k] = G[k]}
  <2>1. 0 \in T
    BY <1>1
  <2>2. ASSUME NEW k \in 1..n, k - 1 \in T
        PROVE  k \in T
    <3>1. k \in 1..(n + 1) /\ r[k] = q[k] /\ k \in 0..n /\ (k - 1 = 0 => k = 1)
      BY <1>1
    <3>2. k = 1 \/ H[k - 1] = G[k - 1]
      BY <2>2, <3>1
    <3>3. H[k] = G[k]
      BY <1>5, <1>6, <3>1, <3>2
    <3>. QED BY <3>1, <3>3
  <2>. HIDE DEF T
  <2>3. \A k \in 0..n : k \in T
    BY <1>1, <2>1, <2>2, UpTo
  <2>. QED BY <2>3 DEF T
<1>8. n + 1 \in 1..(n + 1) /\ n + 1 - 1 = n /\ n \in 0..n /\ (n + 1 = 1 <=> n = 0)
  BY <1>1
<1>9. n = 0 <=> q = <<>>
  BY EmptySeq DEF n
<1>10. H[n + 1] = IF q = <<>> THEN p ELSE G[n] \o p
  BY <1>1, <1>6, <1>7, <1>8, <1>9
<1>. QED BY <1>3, <1>4, <1>10 DEF r

LEMMA FlattenType ==
    ASSUME NEW S, NEW q \in Seq(Seq(S))
    PROVE  FlattenSeq(q) \in Seq(S)
<1>. DEFINE Q == Seq(S)
            T == {r \in Seq(Q) : FlattenSeq(r) \in Q}
<1>1. <<>> \in T
  BY DEF FlattenSeq
<1>2. ASSUME NEW r \in Seq(Q), NEW p \in Q, r \in T
      PROVE  Append(r, p) \in T
  <2>1. FlattenSeq(r) \in Q
    BY <1>2
  <2>2. FlattenSeq(r) \o p \in Q
    BY <2>1, ConcatProperties
  <2>. HIDE DEF Q
  <2>3. Append(r, p) \in Seq(Q)
    BY AppendProperties
  <2>4. FlattenSeq(Append(r, p)) = IF r = <<>> THEN p ELSE FlattenSeq(r) \o p
    BY FlattenNext
  <2>. QED BY <2>2, <2>3, <2>4
<1>. HIDE DEF T, Q
<1>3. q \in Seq(Q)
  BY DEF Q
<1>4. q \in T
  BY <1>1, <1>2, <1>3, TokenByToken
<1>. QED BY <1>4 DEF T, Q

LEMMA FlattenAppend ==
    ASSUME NEW S, NEW q \in Seq(Seq(S)), NEW p \in Seq(S)
    PROVE  FlattenSeq(Append(q, p)) = FlattenSeq(q) \o p
<1>. DEFINE Q == Seq(S)
<1>1. q \in Seq(Q) /\ p \in Q
  OBVIOUS
<1>2. FlattenSeq(<<>>) = <<>> /\ <<>> \o p = p
  BY ConcatEmptySeq DEF FlattenSeq
<1>. HIDE DEF Q
<1>3. FlattenSeq(Append(q, p)) = IF q = <<>> THEN p ELSE FlattenSeq(q) \o p
  BY <1>1, FlattenNext
<1>. QED BY <1>2, <1>3

LEMMA FlattenConcat ==
    ASSUME NEW S, NEW a \in Seq(Seq(S)), NEW b \in Seq(Seq(S))
    PROVE  FlattenSeq(a \o b) = FlattenSeq(a) \o FlattenSeq(b)
<1>. DEFINE Q == Seq(S)
            T == {r \in Seq(Q) : FlattenSeq(a \o r) = FlattenSeq(a) \o FlattenSeq(r)}
<1>0. a \in Seq(Q) /\ b \in Seq(Q)
  OBVIOUS
<1>1. <<>> \in T
  <2>1. FlattenSeq(<<>>) = <<>> /\ FlattenSeq(a) \in Seq(S)
    BY FlattenType DEF FlattenSeq
  <2>2. FlattenSeq(a) \o <<>> = FlattenSeq(a)
    BY <2>1, ConcatEmptySeq
  <2>. HIDE DEF Q
  <2>3. a \o <<>> = a /\ <<>> \in Seq(Q)
    BY <1>0, ConcatEmptySeq
  <2>. QED BY <2>1, <2>2, <2>3
<1>2. ASSUME NEW r \in Seq(Q), NEW p \in Q, r \in T
      PROVE  Append(r, p) \in T
  <2>. DEFINE f == FlattenSeq(a)
              g == FlattenSeq(r)
  <2>1. f \in Seq(S) /\ g \in Seq(S) /\ FlattenSeq(a \o r) = f \o g
    BY <1>2, FlattenType
  <2>2. FlattenSeq(Append(r, p)) = g \o p
    BY FlattenAppend
  <2>3. a \o r \in Seq(Seq(S)) /\ Append(r, p) \in Seq(Q) /\ Append(a \o r, p) = a \o Append(r, p)
    <3>. HIDE DEF Q
    <3>1. a \o r \in Seq(Q) /\ Append(r, p) \in Seq(Q)
      BY <1>0, ConcatProperties, AppendProperties
    <3>2. AppendsAfter(a, r, p)
      BY <1>0, AppendToConcat
    <3>. QED BY <3>1, <3>2 DEF Q, AppendsAfter
  <2>4. FlattenSeq(Append(a \o r, p)) = FlattenSeq(a \o r) \o p
    BY <2>3, FlattenAppend
  <2>. HIDE DEF f, g
  <2>5. (f \o g) \o p = f \o (g \o p)
    BY <2>1, ConcatAssociative
  <2>. QED BY <2>1, <2>2, <2>3, <2>4, <2>5 DEF f
<1>. HIDE DEF T, Q
<1>3. b \in T
  BY <1>0, <1>1, <1>2, TokenByToken
<1>. QED BY <1>3 DEF T

(* The tokens of a text. *)
Has(s, y) == \E i \in 1..Len(s) : s[i] = y

LEMMA HasOfConcat ==
    ASSUME NEW S, NEW s \in Seq(S), NEW t \in Seq(S), NEW y
    PROVE  Has(s \o t, y) <=> Has(s, y) \/ Has(t, y)
<1>. DEFINE n == Len(s)
            m == Len(t)
            u == s \o t
<1>1. /\ n \in Nat /\ m \in Nat /\ Len(u) = n + m
      /\ \A i \in 1..(n + m) : u[i] = IF i <= n THEN s[i] ELSE t[i - n]
  BY ConcatProperties
<1>. HIDE DEF n, m, u
<1>2. ASSUME NEW i \in 1..(n + m)
      PROVE  (\E j \in 1..n : s[j] = u[i]) \/ (\E j \in 1..m : t[j] = u[i])
  <2>1. i \in 1..n \/ (i - n \in 1..m /\ ~(i <= n))
    BY <1>1
  <2>2. CASE i \in 1..n
    <3>1. i <= n
      BY <1>1, <2>2
    <3>. QED BY <1>1, <2>2, <3>1
  <2>3. CASE i - n \in 1..m /\ ~(i <= n)
    BY <1>1, <2>3
  <2>. QED BY <2>1, <2>2, <2>3
<1>3. ASSUME NEW i \in 1..n
      PROVE  \E j \in 1..(n + m) : u[j] = s[i]
  <2>1. i \in 1..(n + m) /\ i <= n
    BY <1>1
  <2>. QED BY <1>1, <2>1
<1>4. ASSUME NEW i \in 1..m
      PROVE  \E j \in 1..(n + m) : u[j] = t[i]
  <2>. DEFINE j == n + i
  <2>1. j \in 1..(n + m) /\ ~(j <= n) /\ j - n = i
    BY <1>1
  <2>. HIDE DEF j
  <2>. QED BY <1>1, <2>1
<1>5. Has(u, y) <=> \E i \in 1..(n + m) : u[i] = y
  BY <1>1 DEF Has
<1>6. (Has(s, y) <=> \E i \in 1..n : s[i] = y) /\ (Has(t, y) <=> \E i \in 1..m : t[i] = y)
  BY DEF Has, n, m
<1>7. Has(u, y) <=> Has(s, y) \/ Has(t, y)
  BY <1>2, <1>3, <1>4, <1>5, <1>6
<1>. QED BY <1>7 DEF u

LEMMA HasOfAppend ==
    ASSUME NEW S, NEW s \in Seq(S), NEW x \in S, NEW y
    PROVE  Has(Append(s, x), y) <=> Has(s, y) \/ x = y
<1>1. <<x>> \in Seq(S) /\ (Has(<<x>>, y) <=> x = y)
  BY DEF Has
<1>2. Append(s, x) = s \o <<x>>
  BY AppendIsConcat
<1>3. Has(s \o <<x>>, y) <=> Has(s, y) \/ Has(<<x>>, y)
  BY <1>1, HasOfConcat
<1>. QED BY <1>1, <1>2, <1>3

LEMMA SlashFreeIs == \A s : SlashFree(s) <=> ~Has(s, Slash)
  BY DEF SlashFree, Has

(* The tokens of a flattened text are those of its parts. *)
LEMMA HasOfFlatten ==
    ASSUME NEW S, NEW q \in Seq(Seq(S)), NEW y
    PROVE  Has(FlattenSeq(q), y) <=> \E k \in 1..Len(q) : Has(q[k], y)
<1>. DEFINE Q == Seq(S)
            Some(r) == \E k \in 1..Len(r) : Has(r[k], y)
            T == {r \in Seq(Q) : Has(FlattenSeq(r), y) <=> Some(r)}
<1>0. q \in Seq(Q)
  OBVIOUS
<1>1. <<>> \in T
  BY DEF FlattenSeq, Has
<1>2. ASSUME NEW r \in Seq(Q), NEW p \in Q, r \in T
      PROVE  Append(r, p) \in T
  <2>. DEFINE u == Append(r, p)
              n == Len(r)
  <2>1. FlattenSeq(u) = FlattenSeq(r) \o p /\ FlattenSeq(r) \in Seq(S)
    BY FlattenAppend, FlattenType
  <2>2. Has(FlattenSeq(u), y) <=> Has(FlattenSeq(r), y) \/ Has(p, y)
    BY <2>1, HasOfConcat
  <2>. HIDE DEF Q
  <2>3. /\ u \in Seq(Q) /\ Len(u) = n + 1 /\ n \in Nat /\ u[n + 1] = p
        /\ \A i \in 1..n : u[i] = r[i]
    BY AppendProperties
  <2>. HIDE DEF u
  <2>4. Some(u) <=> Some(r) \/ Has(p, y)
    <3>. HIDE DEF n
    <3>1. \A k \in 1..(n + 1) : k \in 1..n \/ k = n + 1
      BY <2>3
    <3>2. n + 1 \in 1..(n + 1) /\ \A k \in 1..n : k \in 1..(n + 1)
      BY <2>3
    <3>3. Some(r) <=> \E k \in 1..n : Has(r[k], y)
      BY DEF n
    <3>. QED BY <2>3, <3>1, <3>2, <3>3
  <2>5. Has(FlattenSeq(r), y) <=> Some(r)
    BY <1>2
  <2>. HIDE DEF Some
  <2>. QED BY <2>2, <2>3, <2>4, <2>5 DEF u
<1>. HIDE DEF T, Q
<1>3. q \in T
  BY <1>0, <1>1, <1>2, TokenByToken
<1>. QED BY <1>3 DEF T

LEMMA FlattenSingles ==
    ASSUME NEW S, NEW c \in Seq(S)
    PROVE  FlattenSeq([k \in 1..Len(c) |-> <<c[k]>>]) = c
<1>. DEFINE ones(u) == [k \in 1..Len(u) |-> <<u[k]>>]
            Q == Seq(S)
            T == {u \in Seq(S) : FlattenSeq(ones(u)) = u}
<1>1. <<>> \in T
  <2>1. Len(ones(<<>>)) = 0 /\ ones(<<>>) = <<>>
    OBVIOUS
  <2>. QED BY <2>1 DEF FlattenSeq
<1>2. ASSUME NEW u \in Seq(S), NEW x \in S, u \in T
      PROVE  Append(u, x) \in T
  <2>. DEFINE a == Append(u, x)
              n == Len(u)
  <2>1. /\ a \in Seq(S) /\ Len(a) = n + 1 /\ n \in Nat /\ a[n + 1] = x /\ \A i \in 1..n : a[i] = u[i]
    BY AppendProperties
  <2>2. \A i \in 1..n : <<u[i]>> \in Q
    <3>1. \A i \in 1..n : u[i] \in S
      BY ElementOfSeq
    <3>. QED BY <3>1
  <2>3. ones(u) \in Seq(Q) /\ Len(ones(u)) = n /\ <<x>> \in Q
    BY <2>1, <2>2
  <2>4. ones(a) = Append(ones(u), <<x>>)
    <3>. DEFINE o == ones(u)
    <3>1. \A i \in 1..n : o[i] = <<u[i]>>
      OBVIOUS
    <3>. HIDE DEF Q, o
    <3>2. /\ Append(o, <<x>>) \in Seq(Q) /\ Len(Append(o, <<x>>)) = n + 1
          /\ (\A i \in 1..n : Append(o, <<x>>)[i] = o[i]) /\ Append(o, <<x>>)[n + 1] = <<x>>
      BY <2>3, AppendProperties DEF o
    <3>3. \A i \in 1..(n + 1) : i \in 1..n \/ i = n + 1
      BY <2>1
    <3>. HIDE DEF a, n
    <3>4. \A i \in 1..(n + 1) : Append(o, <<x>>)[i] = <<a[i]>>
      BY <2>1, <3>1, <3>2, <3>3
    <3>5. ones(a) = [i \in 1..(n + 1) |-> <<a[i]>>]
      BY <2>1
    <3>6. DOMAIN Append(o, <<x>>) = 1..(n + 1)
      BY <3>2
    <3>7. Append(o, <<x>>) = [i \in 1..(n + 1) |-> Append(o, <<x>>)[i]]
      BY <3>2, <3>6
    <3>. QED BY <3>4, <3>5, <3>7 DEF o
  <2>5. FlattenSeq(Append(ones(u), <<x>>)) = FlattenSeq(ones(u)) \o <<x>>
    BY <2>3, FlattenAppend
  <2>6. Append(u, x) = u \o <<x>>
    BY AppendIsConcat
  <2>7. FlattenSeq(ones(u)) = u
    BY <1>2
  <2>. HIDE DEF ones
  <2>. QED BY <2>1, <2>4, <2>5, <2>6, <2>7
<1>. HIDE DEF T
<1>3. c \in T
  BY <1>1, <1>2, TokenByToken
<1>. QED BY <1>3 DEF T

(* Placeholders.  The tokens that matter are named, so that the provers see no
   strings. *)
Period == "."

Dollar == "$"

Word == Letters \cup Digits

LEMMA TokensDiffer ==
    /\ Slash # Dollar /\ Slash # Period /\ Dollar # Period
    /\ Slash \notin Word /\ Period \notin Word /\ Dollar \notin Word
    /\ Letters \subseteq Word
<1>1. \A x \in {"/", ".", "$"} : x \notin Letters \cup Digits
  BY TokensAssumption, Zenon
<1>. QED BY <1>1, Zenon DEF Slash, Period, Dollar, Word

NameEnds(p, i) == {j \in (i + 1)..Len(p) : \A x \in (i + 1)..j : p[x] \in Word}

LEMMA NameEndIs ==
    ASSUME NEW S, NEW p \in Seq(S), NEW i \in 1..Len(p)
    PROVE  /\ NameEnd(p, i) = Max(NameEnds(p, i))
           /\ i \in PlaceholdersAt(p) <=> p[i] = Dollar /\ i < Len(p) /\ p[i + 1] \in Letters
<1>1. ASSUME NEW j \in (i + 1)..Len(p)
      PROVE  Range(SubSeq(p, i + 1, j)) \subseteq Word <=> \A x \in (i + 1)..j : p[x] \in Word
  <2>. DEFINE s == SubSeq(p, i + 1, j)
  <2>1. \A x \in (i + 1)..j : p[x] \in S
    BY ElementOfSeq
  <2>2. i \in Nat /\ j \in Nat /\ i < j
    OBVIOUS
  <2>3. /\ s \in Seq(S) /\ Len(s) = IF i + 1 <= j THEN j - (i + 1) + 1 ELSE 0
        /\ \A k \in 1..(j - (i + 1) + 1) : s[k] = p[i + 1 + k - 1]
    BY <2>1, <2>2, SubSeqProperties
  <2>4. /\ (IF i + 1 <= j THEN j - (i + 1) + 1 ELSE 0) = j - i /\ j - (i + 1) + 1 = j - i
        /\ \A k \in 1..(j - i) : i + 1 + k - 1 = i + k
    BY <2>2
  <2>. HIDE DEF s
  <2>5. DOMAIN s = 1..(j - i) /\ \A k \in 1..(j - i) : s[k] = p[i + k]
    BY <2>3, <2>4
  <2>6. Range(s) = {p[i + k] : k \in 1..(j - i)}
    BY <2>5 DEF Range
  <2>7. \A x \in (i + 1)..j : x - i \in 1..(j - i) /\ i + (x - i) = x
    BY <2>2
  <2>8. \A k \in 1..(j - i) : i + k \in (i + 1)..j
    BY <2>2
  <2>9. ASSUME \A k \in 1..(j - i) : p[i + k] \in Word, NEW x \in (i + 1)..j
        PROVE  p[x] \in Word
    <3>. DEFINE k == x - i
    <3>1. k \in 1..(j - i) /\ i + k = x
      BY <2>7
    <3>. HIDE DEF k
    <3>. QED BY <2>9, <3>1
  <2>. QED BY <2>6, <2>8, <2>9 DEF s
<1>2. {j \in (i + 1)..Len(p) : Range(SubSeq(p, i + 1, j)) \subseteq Letters \cup Digits} = NameEnds(p, i)
  BY <1>1 DEF NameEnds, Word
<1>3. NameEnd(p, i) = Max(NameEnds(p, i))
  BY <1>2 DEF NameEnd
<1>4. DOMAIN p = 1..Len(p)
  OBVIOUS
<1>. QED BY <1>3, <1>4 DEF PlaceholdersAt, IsPlaceholder, Dollar

(* A name ends where no name could end later. *)
LEMMA NameEndFound ==
    ASSUME NEW S, NEW p \in Seq(S), NEW i \in PlaceholdersAt(p)
    PROVE  /\ i \in 1..Len(p) /\ NameEnd(p, i) \in NameEnds(p, i)
           /\ NameEnd(p, i) \in (i + 1)..Len(p)
           /\ \A j \in NameEnds(p, i) : j <= NameEnd(p, i)
<1>1. DOMAIN p = 1..Len(p) /\ Len(p) \in Nat
  OBVIOUS
<1>2. i \in 1..Len(p)
  BY <1>1 DEF PlaceholdersAt
<1>3. NameEnd(p, i) = Max(NameEnds(p, i)) /\ i < Len(p) /\ p[i + 1] \in Word
  BY <1>2, NameEndIs, TokensDiffer
<1>. DEFINE T == NameEnds(p, i)
<1>4. T \in SUBSET (1..Len(p)) /\ T \in SUBSET ((i + 1)..Len(p)) /\ T \in SUBSET Nat
  BY <1>1, <1>2 DEF NameEnds
<1>5. i + 1 \in T
  <2>1. i + 1 \in (i + 1)..Len(p) /\ \A x \in (i + 1)..(i + 1) : x = i + 1
    BY <1>1, <1>2, <1>3
  <2>. QED BY <1>3, <2>1 DEF NameEnds
<1>. HIDE DEF T
<1>6. T # {} /\ HasMax(T)
  BY <1>1, <1>4, <1>5, IntervalMax
<1>7. PICK m \in T : \A n \in T : n <= m
  BY <1>6 DEF HasMax
<1>8. Max(T) = m
  BY <1>4, <1>7, MaxIs
<1>. QED BY <1>2, <1>3, <1>4, <1>7, <1>8 DEF T

(* The placeholders of a text, and what they are called, are those of the
   texts that its slashes separate: no name goes on past a slash. *)
LEMMA PlaceholdersBefore ==
    ASSUME NEW S, Slash \in S, NEW t \in Seq(S), NEW u \in Seq(S), NEW i \in 1..Len(t)
    PROVE  /\ i \in PlaceholdersAt(Join(t, u)) <=> i \in PlaceholdersAt(t)
           /\ NameEnd(Join(t, u), i) = NameEnd(t, i)
<1>. DEFINE p == Join(t, u)
            n == Len(t)
            m == Len(u)
<1>1. /\ p \in Seq(S) /\ Len(p) = n + 1 + m /\ n \in Nat /\ m \in Nat
      /\ (\A k \in 1..n : p[k] = t[k]) /\ p[n + 1] = Slash
  <2>1. Joined(p, S, t, u)
    BY JoinType
  <2>. QED BY <2>1 DEF Joined
<1>. HIDE DEF p, n, m
<1>2. i \in 1..n /\ i \in 1..Len(p) /\ n = Len(t)
  BY <1>1 DEF n
<1>3. /\ i \in PlaceholdersAt(p) <=> p[i] = Dollar /\ i < Len(p) /\ p[i + 1] \in Letters
      /\ NameEnd(p, i) = Max(NameEnds(p, i))
  BY <1>1, <1>2, NameEndIs
<1>4. /\ i \in PlaceholdersAt(t) <=> t[i] = Dollar /\ i < n /\ t[i + 1] \in Letters
      /\ NameEnd(t, i) = Max(NameEnds(t, i))
  BY <1>2, NameEndIs
<1>5. i \in PlaceholdersAt(p) <=> i \in PlaceholdersAt(t)
  <2>1. CASE i = n
    <3>1. p[i + 1] = Slash /\ ~(i < n)
      BY <1>1, <2>1
    <3>. QED BY <1>3, <1>4, <3>1, TokensDiffer
  <2>2. CASE i # n
    <3>1. i + 1 \in 1..n /\ i < n /\ i < Len(p)
      BY <1>1, <1>2, <2>2
    <3>. QED BY <1>1, <1>2, <1>3, <1>4, <3>1
  <2>. QED BY <2>1, <2>2
<1>6. ASSUME NEW j \in NameEnds(p, i)
      PROVE  j \in NameEnds(t, i)
  <2>1. j \in (i + 1)..Len(p) /\ \A x \in (i + 1)..j : p[x] \in Word
    BY <1>6 DEF NameEnds
  <2>2. j <= n
    <3>1. SUFFICES ASSUME ~(j <= n) PROVE FALSE
      OBVIOUS
    <3>2. n + 1 \in (i + 1)..j
      BY <1>1, <1>2, <2>1, <3>1
    <3>. QED BY <1>1, <2>1, <3>2, TokensDiffer
  <2>3. j \in (i + 1)..n /\ \A x \in (i + 1)..j : x \in 1..n
    BY <1>1, <1>2, <2>1, <2>2
  <2>. QED BY <1>1, <1>2, <2>1, <2>3 DEF NameEnds
<1>7. ASSUME NEW j \in NameEnds(t, i)
      PROVE  j \in NameEnds(p, i)
  <2>1. j \in (i + 1)..n /\ \A x \in (i + 1)..j : t[x] \in Word
    BY <1>2, <1>7 DEF NameEnds
  <2>2. j \in (i + 1)..Len(p) /\ \A x \in (i + 1)..j : x \in 1..n
    BY <1>1, <1>2, <2>1
  <2>. QED BY <1>1, <2>1, <2>2 DEF NameEnds
<1>8. NameEnds(p, i) = NameEnds(t, i)
  BY <1>6, <1>7
<1>. QED BY <1>3, <1>4, <1>5, <1>8 DEF p

LEMMA PlaceholdersAfter ==
    ASSUME NEW S, Slash \in S, NEW t \in Seq(S), NEW u \in Seq(S), NEW i \in 1..Len(u)
    PROVE  LET p == Join(t, u)
               a == Len(t) + 1
           IN  /\ a + i \in PlaceholdersAt(p) <=> i \in PlaceholdersAt(u)
               /\ i \in PlaceholdersAt(u) => NameEnd(p, a + i) = a + NameEnd(u, i)
<1>. DEFINE p == Join(t, u)
            n == Len(t)
            m == Len(u)
            a == n + 1
            l == a + i
<1>1. /\ p \in Seq(S) /\ Len(p) = a + m /\ n \in Nat /\ m \in Nat /\ m = Len(u)
      /\ \A k \in 1..m : p[a + k] = u[k]
  <2>1. Joined(p, S, t, u)
    BY JoinType
  <2>. QED BY <2>1 DEF Joined
<1>. HIDE DEF p, n, m
<1>2. a \in Nat \ {0} /\ i \in 1..m
  BY <1>1 DEF m
<1>3. l = a + i
  OBVIOUS
<1>. HIDE DEF a, l
<1>4. l \in 1..Len(p)
  BY <1>1, <1>2, <1>3
<1>5. /\ l \in PlaceholdersAt(p) <=> p[l] = Dollar /\ l < Len(p) /\ p[l + 1] \in Letters
      /\ NameEnd(p, l) = Max(NameEnds(p, l))
  BY <1>1, <1>4, NameEndIs
<1>6. i \in PlaceholdersAt(u) <=> u[i] = Dollar /\ i < m /\ u[i + 1] \in Letters
  BY <1>1, <1>2, NameEndIs
<1>7. l \in PlaceholdersAt(p) <=> i \in PlaceholdersAt(u)
  <2>1. p[l] = u[i] /\ (l < Len(p) <=> i < m)
    BY <1>1, <1>2, <1>3
  <2>2. i < m => p[l + 1] = u[i + 1]
    <3>. DEFINE k == i + 1
    <3>1. i < m => k \in 1..m /\ l + 1 = a + k
      BY <1>1, <1>2, <1>3
    <3>. HIDE DEF k
    <3>2. i < m => p[l + 1] = u[k]
      BY <1>1, <3>1
    <3>. QED BY <3>2 DEF k
  <2>. QED BY <1>5, <1>6, <2>1, <2>2
<1>8. ASSUME i \in PlaceholdersAt(u)
      PROVE  NameEnd(p, l) = a + NameEnd(u, i)
  <2>. DEFINE e == NameEnd(u, i)
  <2>1. /\ e \in (i + 1)..m /\ e \in NameEnds(u, i) /\ \A j \in NameEnds(u, i) : j <= e
    BY <1>1, <1>8, NameEndFound
  <2>. HIDE DEF e
  <2>2. \A x \in (i + 1)..e : u[x] \in Word
    BY <2>1 DEF NameEnds
  <2>3. a + e \in NameEnds(p, l)
    <3>1. a + e \in (l + 1)..Len(p)
      BY <1>1, <1>2, <1>3, <2>1
    <3>2. ASSUME NEW x \in (l + 1)..(a + e)
          PROVE  p[x] \in Word
      <4>. DEFINE k == x - a
      <4>1. k \in (i + 1)..e /\ k \in 1..m /\ x = a + k
        BY <1>1, <1>2, <1>3, <2>1
      <4>. HIDE DEF k
      <4>. QED BY <1>1, <2>2, <4>1
    <3>. QED BY <3>1, <3>2 DEF NameEnds
  <2>4. ASSUME NEW j \in NameEnds(p, l)
        PROVE  j <= a + e
    <3>. DEFINE k == j - a
    <3>1. j \in (l + 1)..Len(p) /\ \A x \in (l + 1)..j : p[x] \in Word
      BY <2>4 DEF NameEnds
    <3>2. k \in (i + 1)..m /\ j = a + k
      BY <1>1, <1>2, <1>3, <3>1
    <3>. HIDE DEF k
    <3>3. ASSUME NEW x \in (i + 1)..k
          PROVE  u[x] \in Word
      <4>. DEFINE y == a + x
      <4>1. x \in 1..m /\ y \in (l + 1)..j
        BY <1>1, <1>2, <1>3, <3>2
      <4>2. p[y] = u[x]
        BY <1>1, <4>1
      <4>. HIDE DEF y
      <4>. QED BY <3>1, <4>1, <4>2
    <3>4. k \in NameEnds(u, i)
      BY <1>1, <3>2, <3>3 DEF NameEnds
    <3>5. k <= e
      BY <2>1, <3>4
    <3>. QED BY <1>1, <1>2, <2>1, <3>2, <3>5
  <2>5. NameEnds(p, l) \in SUBSET Nat
    BY <1>1, <1>4 DEF NameEnds
  <2>6. Max(NameEnds(p, l)) = a + e
    BY <2>3, <2>4, <2>5, MaxIs
  <2>. QED BY <1>5, <2>6 DEF e
<1>. QED BY <1>7, <1>8 DEF p, a, l, n

SameSlice(s, i, e, t, j, g) == SubSeq(t, j + 1, g) = SubSeq(s, i + 1, e)

LEMMA SameSubSeq ==
    ASSUME NEW S, NEW s \in Seq(S), NEW t \in Seq(S), NEW i \in Nat, NEW e \in Nat,
           NEW j \in Nat, NEW g \in Nat, i <= e, e <= Len(s), g <= Len(t), g - j = e - i,
           \A x \in 1..(e - i) : t[j + x] = s[i + x]
    PROVE  SameSlice(s, i, e, t, j, g)
<1>. DEFINE a == SubSeq(s, i + 1, e)
            b == SubSeq(t, j + 1, g)
            n == e - i
<1>0. n \in Nat /\ j <= g
  OBVIOUS
<1>1. (\A k \in (i + 1)..e : s[k] \in S) /\ (\A k \in (j + 1)..g : t[k] \in S)
  BY ElementOfSeq
<1>2. i + 1 \in Int /\ j + 1 \in Int /\ e \in Int /\ g \in Int
  OBVIOUS
<1>3. /\ a \in Seq(S) /\ Len(a) = IF i + 1 <= e THEN e - (i + 1) + 1 ELSE 0
      /\ \A k \in 1..(e - (i + 1) + 1) : a[k] = s[i + 1 + k - 1]
  BY <1>1, <1>2, SubSeqProperties
<1>4. /\ b \in Seq(S) /\ Len(b) = IF j + 1 <= g THEN g - (j + 1) + 1 ELSE 0
      /\ \A k \in 1..(g - (j + 1) + 1) : b[k] = t[j + 1 + k - 1]
  BY <1>1, <1>2, SubSeqProperties
<1>5. /\ (IF i + 1 <= e THEN e - (i + 1) + 1 ELSE 0) = n /\ e - (i + 1) + 1 = n
      /\ (IF j + 1 <= g THEN g - (j + 1) + 1 ELSE 0) = n /\ g - (j + 1) + 1 = n
      /\ \A k \in 1..n : i + 1 + k - 1 = i + k /\ j + 1 + k - 1 = j + k
  BY <1>0
<1>6. \A x \in 1..n : t[j + x] = s[i + x]
  OBVIOUS
<1>. HIDE DEF a, b, n
<1>7. Len(a) = n /\ Len(b) = n /\ \A k \in 1..n : a[k] = s[i + k] /\ b[k] = t[j + k]
  BY <1>3, <1>4, <1>5
<1>8. a = b
  <2>1. \A k \in 1..Len(a) : a[k] = b[k]
    BY <1>6, <1>7
  <2>. QED BY <1>3, <1>4, <1>7, <2>1, SeqEqual
<1>. QED BY <1>8 DEF a, b, SameSlice

Covered(p, k) == \E i \in PlaceholdersAt(p) : i <= k /\ k <= NameEnd(p, i)

(* What stands for one token of a text. *)
Piece(p, f, k) ==
    IF k \in PlaceholdersAt(p) THEN f[NameAt(p, k)]
    ELSE IF Covered(p, k) THEN <<>>
    ELSE <<p[k]>>

LEMMA PieceBefore ==
    ASSUME NEW S, Slash \in S, NEW t \in Seq(S), NEW u \in Seq(S), NEW f, NEW k \in 1..Len(t)
    PROVE  Piece(Join(t, u), f, k) = Piece(t, f, k)
<1>. DEFINE p == Join(t, u)
            n == Len(t)
<1>1. Joined(p, S, t, u)
  BY JoinType
<1>2. \A i \in 1..n : /\ i \in PlaceholdersAt(p) <=> i \in PlaceholdersAt(t)
                      /\ NameEnd(p, i) = NameEnd(t, i)
  BY PlaceholdersBefore
<1>. HIDE DEF p
<1>3. /\ p \in Seq(S) /\ n \in Nat /\ n <= Len(p) /\ DOMAIN p = 1..Len(p) /\ DOMAIN t = 1..n
      /\ \A i \in 1..n : p[i] = t[i]
  BY <1>1 DEF Joined
<1>4. \A i \in PlaceholdersAt(p) : i \in Nat /\ i >= 1
  BY <1>3 DEF PlaceholdersAt
<1>5. \A i \in PlaceholdersAt(t) : i \in 1..n
  BY <1>3 DEF PlaceholdersAt
<1>6. Covered(p, k) <=> Covered(t, k)
  <2>1. ASSUME NEW i \in PlaceholdersAt(p), i <= k, k <= NameEnd(p, i)
        PROVE  Covered(t, k)
    <3>1. i \in 1..n
      BY <1>3, <1>4, <2>1
    <3>. QED BY <1>2, <2>1, <3>1 DEF Covered
  <2>2. ASSUME NEW i \in PlaceholdersAt(t), i <= k, k <= NameEnd(t, i)
        PROVE  Covered(p, k)
    BY <1>2, <1>5, <2>2 DEF Covered
  <2>. QED BY <2>1, <2>2 DEF Covered
<1>7. ASSUME k \in PlaceholdersAt(t)
      PROVE  NameAt(p, k) = NameAt(t, k)
  <2>. DEFINE e == NameEnd(t, k)
  <2>1. e \in (k + 1)..n
    BY <1>7, NameEndFound
  <2>2. e \in Nat /\ k \in Nat /\ k <= e /\ e <= n /\ e <= Len(p) /\ e - k = e - k
        /\ \A x \in 1..(e - k) : k + x \in 1..n
    BY <1>3, <2>1
  <2>. HIDE DEF e
  <2>3. \A x \in 1..(e - k) : p[k + x] = t[k + x]
    BY <1>3, <2>2
  <2>. DEFINE j == k
              g == e
  <2>4. j \in Nat /\ g \in Nat /\ g <= Len(p) /\ g - j = e - k
        /\ \A x \in 1..(e - k) : p[j + x] = t[k + x]
    BY <2>2, <2>3
  <2>. HIDE DEF j, g
  <2>5. SameSlice(t, k, e, p, j, g)
    BY <1>3, <2>2, <2>4, SameSubSeq
  <2>. QED BY <1>2, <2>5 DEF NameAt, SameSlice, e, j, g
<1>. QED BY <1>2, <1>3, <1>6, <1>7 DEF Piece, p

LEMMA PieceOfSlash ==
    ASSUME NEW S, Slash \in S, NEW t \in Seq(S), NEW u \in Seq(S), NEW f
    PROVE  /\ Piece(Join(t, u), f, Len(t) + 1) = <<Slash>>
           /\ \A i \in PlaceholdersAt(Join(t, u)) :
                  i \in 1..Len(t) => NameEnd(Join(t, u), i) <= Len(t)
           /\ Len(t) + 1 \notin PlaceholdersAt(Join(t, u))
<1>. DEFINE p == Join(t, u)
            n == Len(t)
            a == n + 1
<1>1. Joined(p, S, t, u)
  BY JoinType
<1>2. \A i \in 1..n : /\ i \in PlaceholdersAt(p) <=> i \in PlaceholdersAt(t)
                      /\ NameEnd(p, i) = NameEnd(t, i)
  BY PlaceholdersBefore
<1>. HIDE DEF p
<1>3. /\ p \in Seq(S) /\ n \in Nat /\ a \in 1..Len(p) /\ DOMAIN p = 1..Len(p) /\ p[a] = Slash
      /\ Len(p) \in Nat
  BY <1>1 DEF Joined
<1>. HIDE DEF a
<1>4. a \notin PlaceholdersAt(p)
  BY <1>3, NameEndIs, TokensDiffer
<1>5. ASSUME NEW i \in PlaceholdersAt(p), i \in 1..n
      PROVE  NameEnd(p, i) <= n
  <2>1. i \in PlaceholdersAt(t) /\ NameEnd(p, i) = NameEnd(t, i)
    BY <1>2, <1>5
  <2>2. NameEnd(t, i) \in (i + 1)..Len(t)
    BY <2>1, NameEndFound
  <2>. QED BY <1>3, <2>1, <2>2
<1>6. ~Covered(p, a)
  <2>1. SUFFICES ASSUME NEW i \in PlaceholdersAt(p), i <= a, a <= NameEnd(p, i) PROVE FALSE
    BY DEF Covered
  <2>2. i \in 1..Len(p) /\ i # a
    BY <1>3, <1>4 DEF PlaceholdersAt
  <2>3. i \in 1..n
    BY <1>3, <2>1, <2>2 DEF a
  <2>4. NameEnd(p, i) <= n /\ NameEnd(p, i) \in (i + 1)..Len(p)
    BY <1>3, <1>5, <2>3, NameEndFound
  <2>. QED BY <1>3, <2>1, <2>2, <2>4 DEF a
<1>. QED BY <1>3, <1>4, <1>5, <1>6 DEF Piece, p, a

LEMMA PieceAfter ==
    ASSUME NEW S, Slash \in S, NEW t \in Seq(S), NEW u \in Seq(S), NEW f, NEW k \in 1..Len(u)
    PROVE  Piece(Join(t, u), f, Len(t) + 1 + k) = Piece(u, f, k)
<1>. DEFINE p == Join(t, u)
            n == Len(t)
            m == Len(u)
            a == n + 1
            l == a + k
<1>1. Joined(p, S, t, u)
  BY JoinType
<1>2. \A i \in 1..m : /\ a + i \in PlaceholdersAt(p) <=> i \in PlaceholdersAt(u)
                      /\ i \in PlaceholdersAt(u) => NameEnd(p, a + i) = a + NameEnd(u, i)
  BY PlaceholdersAfter
<1>3. /\ \A i \in PlaceholdersAt(p) : i \in 1..n => NameEnd(p, i) <= n
      /\ a \notin PlaceholdersAt(p)
  BY PieceOfSlash
<1>. HIDE DEF p
<1>4. /\ p \in Seq(S) /\ n \in Nat /\ m \in Nat /\ Len(p) = a + m /\ a \in Nat
      /\ DOMAIN p = 1..Len(p) /\ DOMAIN u = 1..m /\ \A i \in 1..m : p[a + i] = u[i]
  BY <1>1 DEF Joined
<1>5. k \in 1..m /\ k \in Nat
  OBVIOUS
<1>8. l = a + k /\ a = n + 1
  OBVIOUS
<1>. HIDE DEF n, m, a, l
<1>6. Covered(p, l) <=> Covered(u, k)
  <2>1. ASSUME NEW i \in PlaceholdersAt(p), i <= l, l <= NameEnd(p, i)
        PROVE  Covered(u, k)
    <3>. DEFINE j == i - a
    <3>1. i \in 1..Len(p) /\ i # a
      BY <1>3, <1>4 DEF PlaceholdersAt
    <3>2. NameEnd(p, i) \in (i + 1)..Len(p)
      BY <1>4, NameEndFound
    <3>3. i \notin 1..n
      BY <1>3, <1>4, <1>5, <1>8, <2>1, <3>2
    <3>4. j \in 1..m /\ i = a + j /\ j <= k
      BY <1>4, <1>5, <1>8, <2>1, <3>1, <3>3
    <3>. HIDE DEF j
    <3>5. j \in PlaceholdersAt(u) /\ NameEnd(p, i) = a + NameEnd(u, j)
      BY <1>2, <3>4
    <3>6. NameEnd(u, j) \in (j + 1)..Len(u)
      BY <3>5, NameEndFound
    <3>7. k <= NameEnd(u, j)
      BY <1>4, <1>5, <1>8, <2>1, <3>5, <3>6
    <3>. QED BY <3>4, <3>5, <3>7 DEF Covered
  <2>2. ASSUME NEW i \in PlaceholdersAt(u), i <= k, k <= NameEnd(u, i)
        PROVE  Covered(p, l)
    <3>1. i \in 1..m /\ NameEnd(u, i) \in (i + 1)..Len(u)
      BY <1>4, NameEndFound DEF PlaceholdersAt
    <3>2. a + i \in PlaceholdersAt(p) /\ NameEnd(p, a + i) = a + NameEnd(u, i)
      BY <1>2, <3>1
    <3>3. a + i <= l /\ l <= a + NameEnd(u, i)
      BY <1>4, <1>5, <1>8, <2>2, <3>1
    <3>. QED BY <3>2, <3>3 DEF Covered
  <2>. QED BY <2>1, <2>2 DEF Covered
<1>7. ASSUME k \in PlaceholdersAt(u)
      PROVE  NameAt(p, l) = NameAt(u, k)
  <2>. DEFINE e == NameEnd(u, k)
              g == a + e
  <2>1. e \in (k + 1)..Len(u)
    BY <1>7, NameEndFound
  <2>2. NameEnd(p, l) = g
    BY <1>2, <1>5, <1>7, <1>8
  <2>3. m = Len(u)
    BY DEF m
  <2>. HIDE DEF e
  <2>4. e \in Nat /\ k \in Nat /\ l \in Nat /\ g \in Nat /\ k <= e /\ e <= Len(u)
        /\ g <= Len(p) /\ g - l = e - k
    BY <1>4, <1>5, <1>8, <2>1, <2>3
  <2>5. ASSUME NEW x \in 1..(e - k)
        PROVE  p[l + x] = u[k + x]
    <3>. DEFINE i == k + x
    <3>1. i \in 1..m /\ l + x = a + i
      BY <1>4, <1>5, <1>8, <2>3, <2>4
    <3>. HIDE DEF i
    <3>2. p[a + i] = u[i]
      BY <1>4, <3>1
    <3>. QED BY <3>1, <3>2 DEF i
  <2>. HIDE DEF g
  <2>6. SameSlice(u, k, e, p, l, g)
    BY <1>4, <2>4, <2>5, SameSubSeq
  <2>. QED BY <2>2, <2>6 DEF NameAt, SameSlice, e
<1>9. (l \in PlaceholdersAt(p) <=> k \in PlaceholdersAt(u)) /\ p[l] = u[k]
  BY <1>2, <1>4, <1>5, <1>8
<1>10. Piece(p, f, l) = Piece(u, f, k)
  BY <1>6, <1>7, <1>9 DEF Piece
<1>. QED BY <1>10 DEF p, l, a, n

(* Substitution, between slashes. *)
Pieces(p, f) == [k \in 1..Len(p) |-> Piece(p, f, k)]

(* The values are texts without a slash. *)
IsValue(v, S) == v \in Seq(S) /\ ~Has(v, Slash)

Fills(f, p, S) == \A i \in PlaceholdersAt(p) : IsValue(Piece(p, f, i), S)

LEMMA SubstituteIs ==
    ASSUME NEW S, NEW p \in Seq(S), NEW f
    PROVE  substitute(p, f) = FlattenSeq(Pieces(p, f))
<1>1. DOMAIN p = 1..Len(p)
  OBVIOUS
<1>2. \A k : Piece(p, f, k) = IF k \in PlaceholdersAt(p) THEN f[NameAt(p, k)]
                              ELSE IF \E i \in PlaceholdersAt(p) : i <= k /\ k <= NameEnd(p, i) THEN <<>>
                              ELSE <<p[k]>>
  BY DEF Piece, Covered
<1>. QED BY <1>1, <1>2 DEF substitute, Pieces

LEMMA PiecesType ==
    ASSUME NEW S, NEW p \in Seq(S), NEW f, Fills(f, p, S)
    PROVE  /\ Pieces(p, f) \in Seq(Seq(S)) /\ Len(Pieces(p, f)) = Len(p)
           /\ \A k \in 1..Len(p) : Pieces(p, f)[k] = Piece(p, f, k)
           /\ substitute(p, f) \in Seq(S)
<1>1. ASSUME NEW k \in 1..Len(p)
      PROVE  Piece(p, f, k) \in Seq(S)
  <2>1. p[k] \in S
    BY ElementOfSeq
  <2>2. <<p[k]>> \in Seq(S) /\ <<>> \in Seq(S)
    BY <2>1
  <2>3. k \in PlaceholdersAt(p) => Piece(p, f, k) \in Seq(S)
    BY DEF Fills, IsValue
  <2>4. k \notin PlaceholdersAt(p) => Piece(p, f, k) \in {<<>>, <<p[k]>>}
    BY DEF Piece
  <2>. QED BY <2>2, <2>3, <2>4
<1>. DEFINE Q == Seq(S)
            n == Len(p)
<1>2. n \in Nat /\ \A k \in 1..n : Piece(p, f, k) \in Q
  BY <1>1
<1>. HIDE DEF Q, n
<1>3. [k \in 1..n |-> Piece(p, f, k)] \in Seq(Q) /\ Len([k \in 1..n |-> Piece(p, f, k)]) = n
  BY <1>2
<1>4. Pieces(p, f) \in Seq(Q) /\ Len(Pieces(p, f)) = n
  BY <1>3 DEF Pieces, n
<1>5. substitute(p, f) \in Seq(S)
  BY <1>4, FlattenType, SubstituteIs DEF Q
<1>. QED BY <1>4, <1>5 DEF Pieces, Q, n

LEMMA SubstituteJoin ==
    ASSUME NEW S, Slash \in S, NEW t \in Seq(S), NEW u \in Seq(S), NEW f,
           Fills(f, Join(t, u), S)
    PROVE  /\ Fills(f, t, S) /\ Fills(f, u, S)
           /\ substitute(Join(t, u), f) = Join(substitute(t, f), substitute(u, f))
<1>. DEFINE p == Join(t, u)
            n == Len(t)
            m == Len(u)
            a == n + 1
<1>0. p \in Seq(S) /\ n \in Nat /\ m \in Nat /\ Len(p) = a + m /\ DOMAIN t = 1..n /\ DOMAIN u = 1..m
  <2>1. Joined(p, S, t, u)
    BY JoinType
  <2>. QED BY <2>1 DEF Joined
<1>1. \A k \in 1..n : /\ Piece(p, f, k) = Piece(t, f, k)
                      /\ k \in PlaceholdersAt(p) <=> k \in PlaceholdersAt(t)
  BY PieceBefore, PlaceholdersBefore
<1>2. Piece(p, f, a) = <<Slash>>
  BY PieceOfSlash
<1>3. \A k \in 1..m : Piece(p, f, a + k) = Piece(u, f, k)
  BY PieceAfter
<1>4. \A k \in 1..m : a + k \in PlaceholdersAt(p) <=> k \in PlaceholdersAt(u)
  BY PlaceholdersAfter
<1>5. Fills(f, p, S)
  OBVIOUS
<1>. HIDE DEF p, n, m, a
<1>6. Fills(f, t, S)
  <2>1. \A i \in PlaceholdersAt(t) : i \in 1..n
    BY <1>0 DEF PlaceholdersAt
  <2>. QED BY <1>1, <1>5, <2>1 DEF Fills
<1>7. Fills(f, u, S)
  <2>1. \A i \in PlaceholdersAt(u) : i \in 1..m
    BY <1>0 DEF PlaceholdersAt
  <2>. QED BY <1>3, <1>4, <1>5, <2>1 DEF Fills
<1>. DEFINE x == Pieces(t, f)
            y == Pieces(u, f)
            z == Append(x, <<Slash>>)
            Q == Seq(S)
<1>8. /\ x \in Seq(Q) /\ Len(x) = n /\ \A k \in 1..n : x[k] = Piece(t, f, k)
      /\ y \in Seq(Q) /\ Len(y) = m /\ \A k \in 1..m : y[k] = Piece(u, f, k)
  BY <1>6, <1>7, PiecesType DEF n, m
<1>9. /\ Pieces(p, f) \in Seq(Q) /\ Len(Pieces(p, f)) = a + m
      /\ \A k \in 1..(a + m) : Pieces(p, f)[k] = Piece(p, f, k)
  BY <1>0, <1>5, PiecesType
<1>10. <<Slash>> \in Q
  OBVIOUS
<1>. HIDE DEF x, y, Q
<1>11. /\ z \in Seq(Q) /\ Len(z) = a /\ z[a] = <<Slash>> /\ \A k \in 1..n : z[k] = x[k]
  BY <1>8, <1>10, AppendProperties DEF a
<1>. HIDE DEF z
<1>12. Pieces(p, f) = z \o y
  <2>1. /\ z \o y \in Seq(Q) /\ Len(z \o y) = a + m
        /\ \A k \in 1..(a + m) : (z \o y)[k] = IF k <= a THEN z[k] ELSE y[k - a]
    BY <1>8, <1>11, ConcatProperties, ZenonT(30)
  <2>2. ASSUME NEW k \in 1..(a + m)
        PROVE  Pieces(p, f)[k] = (z \o y)[k]
    <3>1. CASE k \in 1..n
      <4>1. k <= a
        BY <1>0, <3>1 DEF a
      <4>. QED BY <1>1, <1>8, <1>9, <1>11, <2>1, <3>1, <4>1
    <3>2. CASE k = a
      <4>1. k <= a
        BY <1>0, <3>2 DEF a
      <4>. QED BY <1>2, <1>9, <1>11, <2>1, <3>2, <4>1
    <3>3. CASE k \notin 1..n /\ k # a
      <4>. DEFINE i == k - a
      <4>1. i \in 1..m /\ k = a + i /\ ~(k <= a)
        BY <1>0, <3>3 DEF a
      <4>. HIDE DEF i
      <4>2. Pieces(p, f)[k] = y[i]
        BY <1>3, <1>8, <1>9, <4>1
      <4>3. (z \o y)[k] = y[k - a]
        BY <2>1, <4>1
      <4>. QED BY <4>2, <4>3 DEF i
    <3>. QED BY <3>1, <3>2, <3>3
  <2>3. \A k \in 1..Len(Pieces(p, f)) : Pieces(p, f)[k] = (z \o y)[k]
    BY <1>9, <2>2
  <2>4. Len(Pieces(p, f)) = Len(z \o y)
    BY <1>9, <2>1
  <2>. QED BY <1>9, <2>1, <2>3, <2>4, SeqEqual
<1>13. FlattenSeq(z \o y) = FlattenSeq(z) \o FlattenSeq(y)
  BY <1>8, <1>11, FlattenConcat DEF Q
<1>14. FlattenSeq(z) = FlattenSeq(x) \o <<Slash>>
  BY <1>8, <1>10, FlattenAppend DEF z, Q
<1>15. /\ substitute(p, f) = FlattenSeq(Pieces(p, f)) /\ substitute(t, f) = FlattenSeq(x)
       /\ substitute(u, f) = FlattenSeq(y)
  BY <1>0, SubstituteIs DEF x, y
<1>. QED BY <1>6, <1>7, <1>12, <1>13, <1>14, <1>15 DEF Join, p

(* Filling in a component leaves it one component. *)
LEMMA SubstituteKeeps ==
    ASSUME NEW S, NEW c \in Seq(S), SlashFree(c), NEW f, Fills(f, c, S)
    PROVE  substitute(c, f) \in Seq(S) /\ SlashFree(substitute(c, f))
<1>. DEFINE out == substitute(c, f)
            q == Pieces(c, f)
            n == Len(c)
<1>1. /\ out \in Seq(S) /\ q \in Seq(Seq(S)) /\ Len(q) = n /\ n \in Nat
      /\ \A k \in 1..n : q[k] = Piece(c, f, k)
  BY PiecesType
<1>2. out = FlattenSeq(q)
  BY SubstituteIs
<1>. HIDE DEF out, q
<1>3. \A y : Has(out, y) <=> \E k \in 1..n : Has(Piece(c, f, k), y)
  BY <1>1, <1>2, HasOfFlatten
<1>4. ASSUME NEW k \in 1..n
      PROVE  ~Has(Piece(c, f, k), Slash)
  <2>1. CASE k \in PlaceholdersAt(c)
    BY <2>1 DEF Fills, IsValue
  <2>2. CASE k \notin PlaceholdersAt(c)
    <3>1. Piece(c, f, k) \in {<<>>, <<c[k]>>}
      BY <2>2 DEF Piece
    <3>2. ~Has(<<>>, Slash) /\ ~Has(<<c[k]>>, Slash)
      BY DEF Has, SlashFree
    <3>. QED BY <3>1, <3>2
  <2>. QED BY <2>1, <2>2
<1>5. SlashFree(out)
  BY <1>1, <1>3, <1>4, SlashFreeIs
<1>. QED BY <1>1, <1>5 DEF out

(* Substitution and the components of a text. *)
Filled(comps, f) == [k \in 1..Len(comps) |-> substitute(comps[k], f)]

(* Components that can be filled in. *)
Fillable(S, f) == {c \in Seq(S) : SlashFree(c) /\ Fills(f, c, S)}

LEMMA FilledFacts ==
    ASSUME NEW S, NEW f, NEW o \in Seq(Fillable(S, f))
    PROVE  /\ Filled(o, f) \in Seq(Seq(S)) /\ Len(Filled(o, f)) = Len(o) /\ Len(o) \in Nat
           /\ \A k \in 1..Len(o) : Filled(o, f)[k] = substitute(o[k], f)
           /\ Filled(o, f) = <<>> <=> o = <<>>
           /\ \A c \in Fillable(S, f) : substitute(c, f) \in Seq(S)
<1>. DEFINE P == Fillable(S, f)
            Q == Seq(S)
            n == Len(o)
<1>1. \A c \in P : substitute(c, f) \in Q
  BY SubstituteKeeps DEF Fillable
<1>2. \A k \in 1..n : o[k] \in P
  BY ElementOfSeq
<1>3. n \in Nat
  OBVIOUS
<1>4. \A k \in 1..n : substitute(o[k], f) \in Q
  BY <1>1, <1>2
<1>. HIDE DEF P, Q, n
<1>5. [k \in 1..n |-> substitute(o[k], f)] \in Seq(Q) /\ Len([k \in 1..n |-> substitute(o[k], f)]) = n
  BY <1>3, <1>4
<1>6. Filled(o, f) \in Seq(Q) /\ Len(Filled(o, f)) = n
  BY <1>5 DEF Filled, n
<1>7. (Filled(o, f) = <<>> <=> n = 0) /\ (o = <<>> <=> n = 0)
  BY <1>6, EmptySeq DEF n
<1>. QED BY <1>1, <1>3, <1>6, <1>7 DEF Filled, P, Q, n

LEMMA FilledAppend ==
    ASSUME NEW S, NEW f, NEW o \in Seq(Fillable(S, f)), NEW c \in Fillable(S, f)
    PROVE  Filled(Append(o, c), f) = Append(Filled(o, f), substitute(c, f))
<1>. DEFINE P == Fillable(S, f)
            Q == Seq(S)
            n == Len(o)
            u == Append(o, c)
            a == Filled(o, f)
            x == substitute(c, f)
<1>1. /\ u \in Seq(P) /\ Len(u) = n + 1 /\ u[n + 1] = c /\ \A k \in 1..n : u[k] = o[k]
  <2>. HIDE DEF P
  <2>. QED BY AppendProperties DEF P
<1>2. /\ a \in Seq(Q) /\ Len(a) = n /\ n \in Nat /\ x \in Q
      /\ \A k \in 1..n : a[k] = substitute(o[k], f)
  BY FilledFacts
<1>3. /\ Filled(u, f) \in Seq(Q) /\ Len(Filled(u, f)) = n + 1
      /\ \A k \in 1..(n + 1) : Filled(u, f)[k] = substitute(u[k], f)
  <2>. HIDE DEF u, n
  <2>. QED BY <1>1, FilledFacts
<1>. HIDE DEF P, Q, n, u, a
<1>4. /\ Append(a, x) \in Seq(Q) /\ Len(Append(a, x)) = n + 1
      /\ (\A k \in 1..n : Append(a, x)[k] = a[k]) /\ Append(a, x)[n + 1] = x
  <2>. HIDE DEF x
  <2>. QED BY <1>2, AppendProperties
<1>5. ASSUME NEW k \in 1..(n + 1)
      PROVE  Filled(u, f)[k] = Append(a, x)[k]
  <2>1. CASE k = n + 1
    BY <1>1, <1>3, <1>4, <2>1
  <2>2. CASE k # n + 1
    <3>1. k \in 1..n
      BY <1>2, <2>2
    <3>. QED BY <1>1, <1>2, <1>3, <1>4, <3>1
  <2>. QED BY <2>1, <2>2
<1>6. Filled(u, f) = Append(a, x)
  <2>1. \A k \in 1..Len(Filled(u, f)) : Filled(u, f)[k] = Append(a, x)[k]
    BY <1>3, <1>5
  <2>. QED BY <1>3, <1>4, <2>1, SeqEqual
<1>. QED BY <1>6 DEF u, a

(* The components of the expanded text are the components of the pattern, each
   filled in. *)
LEMMA ComponentsSubstitute ==
    ASSUME NEW S, Slash \in S, NEW p \in Seq(S), NEW f, Fills(f, p, S)
    PROVE  /\ Components(p) \in Seq(Fillable(S, f))
           /\ Components(substitute(p, f)) = Filled(Components(p), f)
<1>. DEFINE P == Fillable(S, f)
            Good(t) == /\ Components(t) \in Seq(P)
                       /\ Components(substitute(t, f)) = Filled(Components(t), f)
            T == {n \in Nat : \E t \in Seq(S) : Len(t) = n /\ Fills(f, t, S) /\ ~Good(t)}
<1>. SUFFICES ASSUME T # {} PROVE FALSE
  <2>1. Len(p) \in Nat
    OBVIOUS
  <2>. QED BY <2>1
<1>1. T \in SUBSET Nat
  OBVIOUS
<1>2. PICK n \in T : \A k \in T : n <= k
  BY <1>1, Least
<1>3. PICK t \in Seq(S) : Len(t) = n /\ Fills(f, t, S) /\ ~Good(t)
  BY <1>2
<1>4. CASE SlashFree(t)
  <2>1. t \in P
    BY <1>3, <1>4 DEF Fillable
  <2>2. substitute(t, f) \in Seq(S) /\ SlashFree(substitute(t, f))
    BY <1>3, <1>4, SubstituteKeeps
  <2>3. Components(t) = <<t>> /\ Components(substitute(t, f)) = <<substitute(t, f)>>
    BY <1>4, <2>2, SlashFreeIsOne
  <2>4. <<t>> \in Seq(P) /\ Filled(<<t>>, f) = <<substitute(t, f)>>
    <3>1. Len(<<t>>) = 1 /\ <<t>>[1] = t
      OBVIOUS
    <3>2. Filled(<<t>>, f) = [k \in 1..1 |-> substitute(t, f)]
      BY <3>1 DEF Filled
    <3>3. <<substitute(t, f)>> = [k \in 1..1 |-> substitute(t, f)]
      OBVIOUS
    <3>. HIDE DEF P
    <3>. QED BY <2>1, <3>2, <3>3
  <2>. QED BY <1>3, <2>3, <2>4
<1>5. CASE ~SlashFree(t)
  <2>1. PICK a, b \in Seq(S) : t = Join(a, b) /\ SlashFree(b)
    BY <1>5, AroundSlash
  <2>. DEFINE x == substitute(a, f)
              y == substitute(b, f)
  <2>2. Fills(f, a, S) /\ Fills(f, b, S) /\ substitute(t, f) = Join(x, y)
    BY <1>3, <2>1, SubstituteJoin
  <2>3. Len(a) \in Nat /\ Len(a) < n
    <3>1. Joined(t, S, a, b)
      BY <2>1, JoinType
    <3>. QED BY <1>3, <3>1 DEF Joined
  <2>4. Good(a)
    <3>1. Len(a) \notin T
      BY <1>1, <1>2, <2>3
    <3>. QED BY <2>2, <2>3, <3>1
  <2>5. x \in Seq(S) /\ y \in Seq(S) /\ SlashFree(y) /\ b \in P
    BY <2>1, <2>2, PiecesType, SubstituteKeeps DEF Fillable
  <2>. HIDE DEF x, y
  <2>6. Components(b) = <<b>> /\ Components(y) = <<y>>
    BY <2>1, <2>5, SlashFreeIsOne
  <2>7. Components(t) = Append(Components(a), b)
    <3>1. Components(t) = Components(a) \o <<b>>
      BY <2>1, <2>6, ComponentsJoin
    <3>. HIDE DEF P
    <3>2. Append(Components(a), b) = Components(a) \o <<b>>
      BY <2>4, <2>5, AppendIsConcat
    <3>. QED BY <3>1, <3>2
  <2>8. Components(substitute(t, f)) = Append(Components(x), y)
    <3>1. Components(substitute(t, f)) = Components(x) \o <<y>>
      BY <2>2, <2>5, <2>6, ComponentsJoin
    <3>2. Components(x) \in Seq(Seq(S))
      BY <2>5, ComponentsType
    <3>3. Append(Components(x), y) = Components(x) \o <<y>>
      BY <2>5, <3>2, AppendIsConcat
    <3>. QED BY <3>1, <3>3
  <2>9. Filled(Append(Components(a), b), f) = Append(Filled(Components(a), f), y)
    BY <2>4, <2>5, FilledAppend DEF y
  <2>10. Append(Components(a), b) \in Seq(P)
    <3>. HIDE DEF P
    <3>. QED BY <2>4, <2>5, AppendProperties
  <2>11. Components(x) = Filled(Components(a), f)
    BY <2>4 DEF x
  <2>. QED BY <1>3, <2>7, <2>8, <2>9, <2>10, <2>11
<1>. QED BY <1>4, <1>5

LEMMA DotsDiffer ==
    /\ Dot # DotDot /\ Dot # <<>> /\ DotDot # <<>>
  BY DEF Dot, DotDot

LEMMA FrontType ==
    ASSUME NEW S, NEW s \in Seq(S), s # <<>>
    PROVE  Front(s) \in Seq(S) /\ Last(s) \in S
<1>1. PICK u \in Seq(S), x \in S : s = Append(u, x)
  BY SequenceEmptyOrAppend
<1>2. Front(s) = u /\ Last(s) = x
  BY <1>1, FrontOfAppend
<1>. QED BY <1>2

(* Cleaning keeps what it does not skip. *)
LEMMA CleanStepType ==
    ASSUME NEW N, NEW rooted \in BOOLEAN, NEW o \in Seq(N), NEW c,
           c \in N \cup {<<>>, Dot} \/ (rooted /\ c = DotDot /\ DotDot \notin N)
    PROVE  CleanStep(rooted, o, c) \in Seq(N)
<1>1. CASE c \in {<<>>, Dot}
  BY <1>1 DEF CleanStep
<1>2. CASE c \notin {<<>>, Dot} /\ c = DotDot /\ o # <<>> /\ Last(o) # DotDot
  <2>1. CleanStep(rooted, o, c) = Front(o)
    BY <1>2 DEF CleanStep
  <2>. QED BY <1>2, <2>1, FrontType
<1>3. CASE c \notin {<<>>, Dot} /\ ~(c = DotDot /\ o # <<>> /\ Last(o) # DotDot)
  <2>1. CASE c = DotDot /\ o = <<>> /\ rooted
    BY <1>3, <2>1 DEF CleanStep
  <2>2. CASE ~(c = DotDot /\ o = <<>> /\ rooted)
    <3>1. CleanStep(rooted, o, c) = Append(o, c)
      BY <1>3, <2>2 DEF CleanStep
    <3>2. c \in N
      <4>1. SUFFICES ASSUME c \notin N PROVE FALSE
        OBVIOUS
      <4>2. rooted /\ c = DotDot /\ DotDot \notin N /\ o # <<>> /\ Last(o) = DotDot
        BY <1>3, <2>2, <4>1
      <4>3. Last(o) \in N
        BY <4>2, FrontType
      <4>. QED BY <4>2, <4>3
    <3>. QED BY <3>1, <3>2, AppendProperties
  <2>. QED BY <2>1, <2>2
<1>. QED BY <1>1, <1>2, <1>3

LEMMA StepIsClean ==
    ASSUME NEW rooted \in BOOLEAN
    PROVE  \A out, c : Step(WhatOf(rooted), out, c) = CleanStep(rooted, out, c)
  BY DEF Step, WhatOf, NotSplits

(* Components with a slash before each. *)
Slashed(comps) == [i \in 1..Len(comps) |-> <<Slash>> \o comps[i]]

Whole(S) == {c \in Seq(S) : SlashFree(c)}

WithSlashesOf(S, whole, comps) ==
    /\ whole \in Seq(S) /\ whole = WithSlashes(comps)
    /\ \A c \in Seq(S) : WithSlashes(Append(comps, c)) = Join(whole, c)

LEMMA WithSlashesNext ==
    ASSUME NEW S, Slash \in S, NEW comps \in Seq(Seq(S))
    PROVE  /\ WithSlashes(<<>>) = <<>>
           /\ WithSlashesOf(S, WithSlashes(comps), comps)
<1>. DEFINE Q == Seq(S)
            n == Len(comps)
            before(c) == <<Slash>> \o c
<1>1. \A c \in Q : before(c) \in Q
  <2>1. <<Slash>> \in Seq(S)
    OBVIOUS
  <2>. QED BY <2>1, ConcatProperties
<1>2. comps \in Seq(Q) /\ n \in Nat /\ DOMAIN comps = 1..n /\ \A i \in 1..n : comps[i] \in Q
  BY ElementOfSeq
<1>3. \A i \in 1..n : before(comps[i]) \in Q
  BY <1>1, <1>2
<1>4. WithSlashes(comps) = FlattenSeq(Slashed(comps))
  BY <1>2 DEF WithSlashes, Slashed, Slash
<1>. HIDE DEF Q, n, before
<1>5. [i \in 1..n |-> before(comps[i])] \in Seq(Q) /\ Len([i \in 1..n |-> before(comps[i])]) = n
  BY <1>2, <1>3
<1>6. /\ Slashed(comps) \in Seq(Q) /\ Len(Slashed(comps)) = n
      /\ \A i \in 1..n : Slashed(comps)[i] = before(comps[i])
  BY <1>5 DEF Slashed, before, n
<1>7. WithSlashes(<<>>) = <<>>
  BY DEF WithSlashes, FlattenSeq
<1>8. WithSlashes(comps) \in Seq(S)
  BY <1>4, <1>6, FlattenType DEF Q
<1>9. ASSUME NEW c \in Seq(S)
      PROVE  WithSlashes(Append(comps, c)) = Join(WithSlashes(comps), c)
  <2>. DEFINE more == Append(comps, c)
  <2>1. /\ more \in Seq(Q) /\ Len(more) = n + 1 /\ more[n + 1] = c
        /\ \A i \in 1..n : more[i] = comps[i]
    BY <1>2, <1>9, AppendProperties DEF Q, n
  <2>. HIDE DEF more
  <2>2. DOMAIN more = 1..(n + 1)
    BY <1>2, <2>1
  <2>3. Slashed(more) = [i \in 1..(n + 1) |-> before(more[i])]
    BY <2>1 DEF Slashed, before
  <2>4. c \in Q /\ before(c) \in Q
    BY <1>1 DEF Q
  <2>. DEFINE a == Append(Slashed(comps), before(c))
  <2>5. /\ a \in Seq(Q) /\ Len(a) = n + 1 /\ a[n + 1] = before(c)
        /\ \A i \in 1..n : a[i] = before(comps[i])
    BY <1>6, <2>4, AppendProperties
  <2>. HIDE DEF a
  <2>6. DOMAIN a = 1..(n + 1)
    BY <1>2, <2>5
  <2>7. \A i \in 1..(n + 1) : a[i] = before(more[i])
    <3>1. \A i \in 1..(n + 1) : i \in 1..n \/ i = n + 1
      BY <1>2
    <3>. QED BY <2>1, <2>5, <3>1
  <2>8. a = [i \in 1..(n + 1) |-> a[i]]
    BY <2>5, <2>6
  <2>9. Slashed(more) = a
    BY <2>3, <2>7, <2>8
  <2>10. WithSlashes(more) = FlattenSeq(a)
    BY <2>1, <2>2, <2>9 DEF WithSlashes, Slashed, Slash
  <2>11. FlattenSeq(a) = FlattenSeq(Slashed(comps)) \o before(c)
    BY <1>6, <2>4, FlattenAppend DEF Q, a
  <2>12. WithSlashes(comps) \o before(c) = Join(WithSlashes(comps), c)
    <3>1. <<Slash>> \in Seq(S)
      OBVIOUS
    <3>2. (WithSlashes(comps) \o <<Slash>>) \o c = WithSlashes(comps) \o (<<Slash>> \o c)
      BY <1>8, <3>1, ConcatAssociative
    <3>. QED BY <3>2 DEF before, Join
  <2>. QED BY <1>4, <2>10, <2>11, <2>12 DEF more
<1>. QED BY <1>7, <1>8, <1>9 DEF WithSlashesOf

JoinsAfter(s, t, c) == Join(s \o t, c) = s \o Join(t, c)

LEMMA JoinOfConcat ==
    ASSUME NEW S, Slash \in S, NEW s \in Seq(S), NEW t \in Seq(S), NEW c \in Seq(S)
    PROVE  JoinsAfter(s, t, c)
<1>. DEFINE one == <<Slash>>
            u == t \o one
<1>1. one \in Seq(S)
  OBVIOUS
<1>. HIDE DEF one
<1>2. u \in Seq(S)
  BY <1>1, ConcatProperties
<1>3. (s \o t) \o one = s \o u
  BY <1>1, ConcatAssociative
<1>. HIDE DEF u
<1>4. (s \o u) \o c = s \o (u \o c)
  BY <1>2, ConcatAssociative, SMTT(20)
<1>. QED BY <1>3, <1>4 DEF JoinsAfter, Join, one, u

LEMMA WithSlashesConcat ==
    ASSUME NEW S, Slash \in S, NEW a \in Seq(Seq(S)), NEW b \in Seq(Seq(S))
    PROVE  WithSlashes(a \o b) = WithSlashes(a) \o WithSlashes(b)
<1>. DEFINE Q == Seq(S)
            x == WithSlashes(a)
            T == {r \in Seq(Q) : WithSlashes(a \o r) = x \o WithSlashes(r)}
<1>1. x \in Seq(S) /\ WithSlashes(<<>>) = <<>> /\ a \in Seq(Q) /\ b \in Seq(Q)
  BY WithSlashesNext DEF WithSlashesOf
<1>. HIDE DEF x
<1>2. x \o <<>> = x
  BY <1>1, ConcatEmptySeq
<1>3. <<>> \in T
  <2>. HIDE DEF Q
  <2>1. a \o <<>> = a /\ <<>> \in Seq(Q)
    BY <1>1, ConcatEmptySeq
  <2>. QED BY <1>1, <1>2, <2>1 DEF x
<1>4. ASSUME NEW r \in Seq(Q), NEW c \in Q, r \in T
      PROVE  Append(r, c) \in T
  <2>. DEFINE y == WithSlashes(r)
              z == WithSlashes(a \o r)
  <2>1. y \in Seq(S) /\ WithSlashes(Append(r, c)) = Join(y, c)
    BY WithSlashesNext DEF WithSlashesOf
  <2>2. a \o r \in Seq(Q) /\ Append(r, c) \in Seq(Q) /\ a \o Append(r, c) = Append(a \o r, c)
    <3>. HIDE DEF Q
    <3>1. AppendsAfter(a, r, c)
      BY <1>1, AppendToConcat
    <3>. QED BY <1>1, <3>1, ConcatProperties, AppendProperties DEF AppendsAfter
  <2>3. z = x \o y
    BY <1>4
  <2>4. WithSlashes(Append(a \o r, c)) = Join(z, c)
    <3>1. a \o r \in Seq(Seq(S))
      BY <2>2
    <3>2. WithSlashesOf(S, z, a \o r)
      BY <3>1, WithSlashesNext
    <3>. QED BY <3>2 DEF WithSlashesOf
  <2>. HIDE DEF y, z
  <2>5. Join(x \o y, c) = x \o Join(y, c)
    <3>1. c \in Seq(S)
      OBVIOUS
    <3>2. JoinsAfter(x, y, c)
      BY <1>1, <2>1, <3>1, JoinOfConcat
    <3>. QED BY <3>2 DEF JoinsAfter
  <2>. QED BY <2>1, <2>2, <2>3, <2>4, <2>5
<1>. HIDE DEF T, Q
<1>5. b \in T
  BY <1>1, <1>3, <1>4, TokenByToken
<1>. QED BY <1>5 DEF T, x

(* The components of a text that components make. *)
LEMMA ComponentsOfSlashed ==
    ASSUME NEW S, Slash \in S, NEW comps \in Seq(Whole(S))
    PROVE  /\ comps \in Seq(Seq(S)) /\ WithSlashes(comps) \in Seq(S)
           /\ Components(WithSlashes(comps)) = <<<<>>>> \o comps
<1>. DEFINE W == Whole(S)
            Q == Seq(S)
            e == <<<<>>>>
            Good(r) == WithSlashes(r) \in Q /\ Components(WithSlashes(r)) = e \o r
            T == {r \in Seq(W) : r \in Seq(Q) /\ Good(r)}
<1>0. W \subseteq Q /\ <<>> \in Q /\ <<>> \in W
  BY DEF Whole, SlashFree
<1>1. e \in Seq(Q) /\ <<>> \in Seq(Q)
  <2>. HIDE DEF Q
  <2>. QED BY <1>0
<1>2. Good(<<>>)
  <2>1. WithSlashes(<<>>) = <<>>
    <3>1. <<>> \in Seq(Seq(S))
      BY <1>1
    <3>. QED BY <3>1, WithSlashesNext
  <2>. HIDE DEF Q, e
  <2>2. e \o <<>> = e
    BY <1>1, ConcatEmptySeq
  <2>. QED BY <1>0, <2>1, <2>2, ComponentsOfNone DEF e
<1>3. ASSUME NEW r \in Seq(W), NEW c \in W, r \in Seq(Q), Good(r)
      PROVE  Append(r, c) \in Seq(Q) /\ Append(r, c) \in Seq(W) /\ Good(Append(r, c))
  <2>. DEFINE y == WithSlashes(r)
  <2>1. y \in Seq(S) /\ c \in Seq(S) /\ SlashFree(c) /\ Components(y) = e \o r
    BY <1>3 DEF Whole
  <2>2. WithSlashes(Append(r, c)) = Join(y, c)
    BY <1>3, <2>1, WithSlashesNext DEF WithSlashesOf
  <2>. HIDE DEF y
  <2>3. Join(y, c) \in Seq(S) /\ Components(Join(y, c)) = Components(y) \o <<c>>
    BY <2>1, JoinType, ComponentsJoin, SlashFreeIsOne DEF Joined
  <2>4. (e \o r) \o <<c>> = e \o Append(r, c)
    <3>. HIDE DEF e
    <3>1. r \in Seq(Q) /\ c \in Q
      BY <1>3, <2>1
    <3>. HIDE DEF Q
    <3>2. AppendsAfter(e, r, c)
      BY <1>1, <3>1, AppendToConcat
    <3>3. e \o r \in Seq(Q)
      BY <1>1, <3>1, ConcatProperties
    <3>4. Append(e \o r, c) = (e \o r) \o <<c>>
      BY <3>1, <3>3, AppendIsConcat
    <3>. QED BY <3>2, <3>4 DEF AppendsAfter
  <2>5. Append(r, c) \in Seq(Q) /\ Append(r, c) \in Seq(W)
    <3>. HIDE DEF W, Q
    <3>. QED BY <1>0, <1>3, AppendProperties
  <2>. QED BY <2>1, <2>2, <2>3, <2>4, <2>5
<1>. HIDE DEF Good
<1>4. <<>> \in T
  <2>. HIDE DEF W, Q
  <2>. QED BY <1>1, <1>2
<1>5. ASSUME NEW r \in Seq(W), NEW c \in W, r \in T
      PROVE  Append(r, c) \in T
  BY <1>3, <1>5
<1>. HIDE DEF T, W
<1>6. comps \in T
  BY <1>4, <1>5, TokenByToken DEF W
<1>. QED BY <1>6 DEF T, Good, e, Q

(* Prefixes. *)
GoesOn(S, s, t) == \E r \in Seq(S) : t = s \o r

LEMMA PrefixIs ==
    ASSUME NEW S, NEW s \in Seq(S), NEW t \in Seq(S)
    PROVE  /\ IsPrefix(s, t) <=> /\ Len(s) <= Len(t)
                                 /\ \A k \in 1..Len(s) : s[k] = t[k]
           /\ IsPrefix(s, t) <=> GoesOn(S, s, t)
<1>. DEFINE n == Len(s)
            m == Len(t)
            a == SubSeq(t, 1, n)
<1>1. n \in Nat /\ m \in Nat
  OBVIOUS
<1>2. SubSeq(s, 1, n) = s
  BY SubSeqFull
<1>3. IsPrefix(s, t) <=> n <= m /\ s = a
  BY <1>2 DEF IsPrefix
<1>4. ASSUME n <= m
      PROVE  a \in Seq(S) /\ Len(a) = n /\ \A k \in 1..n : a[k] = t[k]
  <2>1. \A k \in 1..n : k \in 1..m /\ 1 + k - 1 = k
    BY <1>1, <1>4
  <2>2. \A k \in 1..n : t[k] \in S
    BY <2>1, ElementOfSeq
  <2>3. n - 1 + 1 = n /\ (IF 1 <= n THEN n - 1 + 1 ELSE 0) = n
    BY <1>1
  <2>. HIDE DEF n
  <2>4. /\ SubSeq(t, 1, n) \in Seq(S) /\ Len(SubSeq(t, 1, n)) = IF 1 <= n THEN n - 1 + 1 ELSE 0
        /\ \A k \in 1..(n - 1 + 1) : SubSeq(t, 1, n)[k] = t[1 + k - 1]
    BY <1>1, <2>2, SubSeqProperties
  <2>. QED BY <2>1, <2>3, <2>4
<1>. HIDE DEF n, m, a
<1>5. ASSUME n <= m
      PROVE  s = a <=> \A k \in 1..n : s[k] = t[k]
  <2>1. (\A k \in 1..n : s[k] = a[k]) => s = a
    BY <1>4, <1>5, SeqEqual DEF n
  <2>. QED BY <1>4, <1>5, <2>1
<1>6. ASSUME n <= m, s = a
      PROVE  \E r \in Seq(S) : t = s \o r
  <2>1. CASE n = m
    <3>1. a = t
      BY <2>1, SubSeqFull DEF a, m
    <3>2. <<>> \in Seq(S) /\ t \o <<>> = t
      BY ConcatEmptySeq
    <3>. QED BY <1>6, <3>1, <3>2
  <2>2. CASE n # m
    <3>. DEFINE r == SubSeq(t, n + 1, m)
    <3>1. 1 \in 1..(m + 1) /\ n \in (1 - 1)..m /\ m \in n..m /\ n + 1 \in Int /\ m \in Int
      BY <1>1, <1>6
    <3>2. \A k \in (n + 1)..m : k \in 1..m
      BY <1>1
    <3>3. \A k \in (n + 1)..m : t[k] \in S
      BY <3>2, ElementOfSeq DEF m
    <3>4. r \in Seq(S)
      BY <3>1, <3>3, SubSeqProperties
    <3>5. SubSeq(t, 1, n) \o SubSeq(t, n + 1, m) = SubSeq(t, 1, m)
      BY <3>1, ConcatAdjacentSubSeq DEF m
    <3>6. SubSeq(t, 1, m) = t
      BY SubSeqFull DEF m
    <3>. QED BY <1>6, <3>4, <3>5, <3>6 DEF a
  <2>. QED BY <2>1, <2>2
<1>7. ASSUME NEW r \in Seq(S), t = s \o r
      PROVE  n <= m /\ \A k \in 1..n : s[k] = t[k]
  <2>1. /\ Len(s \o r) = n + Len(r) /\ Len(r) \in Nat
        /\ \A k \in 1..(n + Len(r)) : (s \o r)[k] = IF k <= n THEN s[k] ELSE r[k - n]
    BY ConcatProperties DEF n
  <2>2. \A k \in 1..n : k \in 1..(n + Len(r)) /\ k <= n
    BY <1>1, <2>1
  <2>. QED BY <1>1, <1>7, <2>1, <2>2 DEF m
<1>. QED BY <1>3, <1>5, <1>6, <1>7 DEF n, m, GoesOn

(* Components as cleaning leaves them: not empty, of course without a slash. *)
Parts(S) == {c \in Seq(S) : SlashFree(c) /\ c # <<>>}

LEMMA WithSlashesBegins ==
    ASSUME NEW S, Slash \in S, NEW comps \in Seq(Parts(S)), comps # <<>>
    PROVE  \E r \in Seq(S) : /\ WithSlashes(comps) = Join(<<>>, r)
                             /\ r # <<>> /\ r[1] # Slash
<1>. DEFINE P == Parts(S)
            Q == Seq(S)
            Begins(w) == \E r \in Seq(S) : w = Join(<<>>, r) /\ r # <<>> /\ r[1] # Slash
            T == {a \in Seq(P) : a \in Seq(Q) /\ (a = <<>> \/ Begins(WithSlashes(a)))}
<1>0. P \subseteq Q /\ <<>> \in Q
  BY DEF Parts
<1>1. <<>> \in T
  <2>. HIDE DEF P, Q, Begins
  <2>. QED OBVIOUS
<1>2. ASSUME NEW a \in Seq(P), NEW c \in P, a \in Seq(Q), a = <<>> \/ Begins(WithSlashes(a))
      PROVE  Begins(WithSlashes(Append(a, c)))
  <2>. DEFINE w == WithSlashes(a)
  <2>1. c \in Seq(S) /\ SlashFree(c) /\ c # <<>> /\ 1 \in 1..Len(c)
    BY EmptySeq DEF Parts
  <2>2. WithSlashes(Append(a, c)) = Join(w, c) /\ w \in Seq(S) /\ WithSlashes(<<>>) = <<>>
    BY <1>2, <2>1, WithSlashesNext DEF WithSlashesOf
  <2>3. c[1] # Slash
    BY <2>1 DEF SlashFree
  <2>4. CASE a = <<>>
    <3>1. w = <<>>
      BY <2>2, <2>4
    <3>. QED BY <2>1, <2>2, <2>3, <3>1
  <2>5. CASE a # <<>>
    <3>1. PICK r \in Seq(S) : w = Join(<<>>, r) /\ r # <<>> /\ r[1] # Slash
      BY <1>2, <2>5
    <3>. DEFINE x == Join(r, c)
    <3>2. x \in Seq(S) /\ x # <<>> /\ x[1] = r[1]
      <4>1. Joined(x, S, r, c)
        BY <2>1, JoinType
      <4>2. 1 \in 1..Len(r)
        BY <3>1, EmptySeq
      <4>. QED BY <4>1, <4>2 DEF Joined
    <3>3. Join(Join(<<>>, r), c) = Join(<<>>, x)
      <4>. DEFINE e == <<>> \o <<Slash>>
      <4>1. e \in Seq(S)
        <5>1. <<>> \in Seq(S) /\ <<Slash>> \in Seq(S)
          OBVIOUS
        <5>. QED BY <5>1, ConcatProperties
      <4>. HIDE DEF e
      <4>2. JoinsAfter(e, r, c)
        BY <2>1, <4>1, JoinOfConcat
      <4>3. Join(<<>>, r) = e \o r /\ Join(<<>>, x) = e \o x
        BY DEF Join, e
      <4>. QED BY <4>2, <4>3 DEF JoinsAfter
    <3>. QED BY <2>2, <3>1, <3>2, <3>3
  <2>. QED BY <2>4, <2>5
<1>. HIDE DEF Begins
<1>3. ASSUME NEW a \in Seq(P), NEW c \in P, a \in T
      PROVE  Append(a, c) \in T
  <2>1. Begins(WithSlashes(Append(a, c)))
    BY <1>2, <1>3
  <2>. HIDE DEF P, Q
  <2>2. Append(a, c) \in Seq(P) /\ Append(a, c) \in Seq(Q)
    BY <1>0, <1>3, AppendProperties
  <2>. QED BY <2>1, <2>2
<1>. HIDE DEF T, P
<1>4. comps \in T
  BY <1>1, <1>3, TokenByToken DEF P
<1>. QED BY <1>4 DEF T, Begins

(* What cleaning leaves. *)
Names(S) == Parts(S) \ {Dot, DotDot}

LEMMA CleanComponentsType ==
    ASSUME NEW S, Slash \in S, NEW t \in Seq(S)
    PROVE  /\ CleanComponents(t) \in Seq(Parts(S)) /\ CleanComponents(t) \in Seq(Seq(S))
           /\ Rooted(t) => CleanComponents(t) \in Seq(Names(S))
<1>. DEFINE r == Rooted(t)
            N == IF r THEN Names(S) ELSE Parts(S)
            a == Components(t)
            n == Len(a)
            Q == Seq(S)
<1>1. /\ a \in Seq(Q) /\ n \in Nat /\ \A k \in 1..n : a[k] \in Seq(S) /\ SlashFree(a[k])
      /\ DOMAIN a = 1..n
  <2>1. a \in Seq(Q) /\ n \in Nat /\ \A k \in 1..n : a[k] \in Seq(S) /\ SlashFree(a[k])
    BY ComponentsType
  <2>. HIDE DEF Q, a
  <2>. QED BY <2>1
<1>2. r \in BOOLEAN
  BY DEF Rooted
<1>3. \A k \in 1..n : a[k] \in N \cup {<<>>, Dot} \/ (r /\ a[k] = DotDot /\ DotDot \notin N)
  BY <1>1, <1>2 DEF Names, Parts
<1>4. PICK g : Reaches(g, WhatOf(r), <<>>, a) /\ CleanComponents(t) = g[n]
  BY <1>1, CleanReaches
<1>. HIDE DEF a, n, r
<1>5. g[0] = <<>> /\ \A k \in 1..n : g[k] = CleanStep(r, g[k - 1], a[k])
  BY <1>2, <1>4, StepIsClean DEF Reaches, n
<1>. HIDE DEF N
<1>. DEFINE T == {k \in 0..n : g[k] \in Seq(N)}
<1>6. 0 \in T
  <2>1. <<>> \in Seq(N) /\ 0 \in 0..n
    BY <1>1
  <2>. QED BY <1>5, <2>1
<1>7. ASSUME NEW k \in 1..n, k - 1 \in T
      PROVE  k \in T
  <2>. DEFINE o == g[k - 1]
              c == a[k]
  <2>1. o \in Seq(N) /\ (c \in N \cup {<<>>, Dot} \/ (r /\ c = DotDot /\ DotDot \notin N))
    BY <1>3, <1>7
  <2>. HIDE DEF o, c
  <2>2. CleanStep(r, o, c) \in Seq(N)
    BY <1>2, <2>1, CleanStepType
  <2>3. k \in 0..n
    BY <1>1
  <2>. QED BY <1>5, <2>2, <2>3 DEF o, c
<1>. HIDE DEF T
<1>8. \A k \in 0..n : k \in T
  BY <1>1, <1>6, <1>7, UpTo
<1>9. n \in T
  BY <1>1, <1>8
<1>10. CleanComponents(t) \in Seq(N)
  BY <1>4, <1>9 DEF T
<1>11. N \subseteq Parts(S) /\ N \subseteq Q /\ (r => N = Names(S))
  BY DEF N, Names, Parts
<1>12. CleanComponents(t) \in Seq(Parts(S)) /\ CleanComponents(t) \in Seq(Q)
  <2>. HIDE DEF Q
  <2>. QED BY <1>10, <1>11, SeqMonotonic
<1>. QED BY <1>10, <1>11, <1>12 DEF r

(* Rooted, of a text and of its components. *)
LEMMA RootedByComponents ==
    ASSUME NEW S, Slash \in S, NEW q \in Seq(S)
    PROVE  Rooted(q) <=> Comp!Rooted(Components(q))
<1>. DEFINE a == Components(q)
            Q == Seq(S)
            none == <<>>
<1>0. none \in Seq(S) /\ SlashFree(none)
  BY DEF SlashFree
<1>1. Comp!Rooted(a) <=> Len(a) > 1 /\ a[1] = none
  BY DEF Comp!Rooted
<1>2. ASSUME NEW x \in Seq(S), NEW b \in Seq(S), q = Join(x, b), SlashFree(x)
      PROVE  Len(a) > 1 /\ a[1] = x
  <2>. DEFINE c == Components(b)
              one == <<x>>
  <2>1. Components(x) = one /\ a = Components(x) \o c
    BY <1>2, SlashFreeIsOne, ComponentsJoin
  <2>2. c \in Seq(Q) /\ Len(c) \in Nat \ {0}
    BY ComponentsType
  <2>3. one \in Seq(Q) /\ Len(one) = 1 /\ one[1] = x
    OBVIOUS
  <2>4. a = one \o c
    BY <2>1
  <2>. HIDE DEF a, c, one, Q
  <2>5. Len(one \o c) = Len(one) + Len(c) /\ (one \o c)[1] = one[1]
    <3>1. /\ Len(one \o c) = Len(one) + Len(c)
          /\ \A i \in 1..(Len(one) + Len(c)) :
                 (one \o c)[i] = IF i <= Len(one) THEN one[i] ELSE c[i - Len(one)]
      BY <2>2, <2>3, ConcatProperties
    <3>2. 1 \in 1..(Len(one) + Len(c)) /\ 1 <= Len(one)
      BY <2>2, <2>3
    <3>. QED BY <3>1, <3>2
  <2>. QED BY <2>2, <2>3, <2>4, <2>5
<1>3. ASSUME Rooted(q)
      PROVE  Len(a) > 1 /\ a[1] = none
  <2>1. PICK b \in Seq(S) : q = Join(none, b)
    BY <1>3, RootedIs
  <2>. HIDE DEF a, none
  <2>. QED BY <1>0, <1>2, <2>1
<1>4. ASSUME Len(a) > 1, a[1] = none
      PROVE  Rooted(q)
  <2>1. ~SlashFree(q)
    <3>1. SUFFICES ASSUME SlashFree(q) PROVE FALSE
      OBVIOUS
    <3>2. a = <<q>>
      BY <3>1, SlashFreeIsOne
    <3>3. Len(<<q>>) = 1
      OBVIOUS
    <3>. QED BY <1>4, <3>2, <3>3
  <2>2. PICK x, b \in Seq(S) : q = Join(x, b) /\ SlashFree(x)
    BY <2>1, AroundSlash
  <2>3. x = none
    <3>. HIDE DEF a, none
    <3>. QED BY <1>2, <1>4, <2>2
  <2>. QED BY <2>2, <2>3, RootedIs
<1>. QED BY <1>1, <1>3, <1>4

(* Below the root, one step of the cleaning of components. *)
LEMMA StepByComponents ==
    ASSUME NEW S, NEW o \in Seq(Names(S)), NEW c
    PROVE  Comp!CleanStep(o, c) = CleanStep(TRUE, o, c)
<1>1. Comp!CleanStep(o, c) = IF c \in {<<>>, Dot} THEN o
                             ELSE IF c = DotDot THEN Front(o) ELSE Append(o, c)
  BY DEF Comp!CleanStep, Comp!Dot, Comp!DotDot, Comp!Front, Front, Dot, DotDot
<1>2. CleanStep(TRUE, o, c) = IF c \in {<<>>, Dot} THEN o
                              ELSE IF c = DotDot /\ o # <<>> /\ Last(o) # DotDot THEN Front(o)
                              ELSE IF c = DotDot /\ o = <<>> THEN o
                              ELSE Append(o, c)
  BY DEF CleanStep
<1>3. o # <<>> => Last(o) # DotDot
  <2>1. o # <<>> => Last(o) \in Names(S)
    BY FrontType
  <2>2. DotDot \notin Names(S)
    BY DEF Names
  <2>. QED BY <2>1, <2>2
<1>4. o = <<>> => Front(o) = o
  BY DEF Front
<1>. DEFINE skip == c \in {<<>>, Dot}
            none == o = <<>>
            l == Last(o)
            front == Front(o)
            more == Append(o, c)
<1>5. Comp!CleanStep(o, c) = IF skip THEN o ELSE IF c = DotDot THEN front ELSE more
  BY <1>1
<1>6. CleanStep(TRUE, o, c) = IF skip THEN o
                              ELSE IF c = DotDot /\ ~none /\ l # DotDot THEN front
                              ELSE IF c = DotDot /\ none THEN o
                              ELSE more
  BY <1>2
<1>7. (~none => l # DotDot) /\ (none => front = o)
  BY <1>3, <1>4
<1>. HIDE DEF skip, none, l, front, more
<1>8. CASE skip
  BY <1>5, <1>6, <1>8
<1>9. CASE ~skip /\ c = DotDot
  BY <1>5, <1>6, <1>7, <1>9
<1>10. CASE ~skip /\ c # DotDot
  BY <1>5, <1>6, <1>10
<1>. QED BY <1>8, <1>9, <1>10

(* What the recursive function of PathComponents computes. *)
CleansTo(g, a) ==
    g = [k \in 0..Len(a) |-> IF k = 0 THEN <<>> ELSE Comp!CleanStep(g[k - 1], a[k])]

LEMMA CleanByComponents ==
    ASSUME NEW S, Slash \in S, NEW q \in Seq(S), Rooted(q)
    PROVE  Comp!normalizePrefix(Components(q)) = CleanComponents(q)
<1>. DEFINE N == Names(S)
            a == Components(q)
            n == Len(a)
            Q == Seq(S)
            C == CHOOSE g : CleansTo(g, a)
<1>0. Comp!normalizePrefix(a) = C[n]
  BY DEF Comp!normalizePrefix, CleansTo
<1>1. /\ a \in Seq(Q) /\ n \in Nat /\ \A k \in 1..n : a[k] \in Seq(S) /\ SlashFree(a[k])
      /\ DOMAIN a = 1..n
  <2>1. a \in Seq(Q) /\ n \in Nat /\ \A k \in 1..n : a[k] \in Seq(S) /\ SlashFree(a[k])
    BY ComponentsType
  <2>. HIDE DEF Q, a
  <2>. QED BY <2>1
<1>2. Rooted(q) = TRUE
  BY DEF Rooted
<1>3. \A k \in 1..n : a[k] \in N \cup {<<>>, Dot} \/ (a[k] = DotDot /\ DotDot \notin N)
  BY <1>1 DEF Names, Parts
<1>4. PICK g : Reaches(g, WhatOf(TRUE), <<>>, a) /\ CleanComponents(q) = g[n]
  BY <1>1, <1>2, CleanReaches
<1>. HIDE DEF a, n, C, Q
<1>5. g[0] = <<>> /\ \A k \in 1..n : g[k] = CleanStep(TRUE, g[k - 1], a[k])
  BY <1>4, StepIsClean DEF Reaches, n
<1>. HIDE DEF N
<1>6. \A k \in 0..n : g[k] \in Seq(N)
  <2>. DEFINE T == {k \in 0..n : g[k] \in Seq(N)}
  <2>1. 0 \in T
    <3>1. <<>> \in Seq(N) /\ 0 \in 0..n
      BY <1>1
    <3>. QED BY <1>5, <3>1
  <2>2. ASSUME NEW k \in 1..n, k - 1 \in T
        PROVE  k \in T
    <3>. DEFINE o == g[k - 1]
                c == a[k]
    <3>1. o \in Seq(N) /\ (c \in N \cup {<<>>, Dot} \/ (c = DotDot /\ DotDot \notin N))
      BY <1>3, <2>2
    <3>. HIDE DEF o, c
    <3>2. CleanStep(TRUE, o, c) \in Seq(N)
      BY <3>1, CleanStepType
    <3>3. k \in 0..n
      BY <1>1
    <3>. QED BY <1>5, <3>2, <3>3 DEF o, c
  <2>. HIDE DEF T
  <2>3. \A k \in 0..n : k \in T
    BY <1>1, <2>1, <2>2, UpTo
  <2>. QED BY <2>3 DEF T
<1>7. \A k \in 1..n : k - 1 \in 0..n /\ k \in 0..n /\ g[k] = Comp!CleanStep(g[k - 1], a[k])
  <2>. SUFFICES ASSUME NEW k \in 1..n
                PROVE  k - 1 \in 0..n /\ k \in 0..n /\ g[k] = Comp!CleanStep(g[k - 1], a[k])
    OBVIOUS
  <2>1. k - 1 \in 0..n /\ k \in 0..n
    BY <1>1
  <2>2. g[k - 1] \in Seq(Names(S))
    BY <1>6, <2>1 DEF N
  <2>3. g[k] = CleanStep(TRUE, g[k - 1], a[k])
    BY <1>5
  <2>. QED BY <2>1, <2>2, <2>3, StepByComponents
<1>8. \E h : CleansTo(h, a)
  <2>. DEFINE h == [k \in 0..n |-> g[k]]
  <2>1. ASSUME NEW k \in 0..n
        PROVE  h[k] = IF k = 0 THEN <<>> ELSE Comp!CleanStep(h[k - 1], a[k])
    <3>1. CASE k = 0
      BY <1>5, <3>1
    <3>2. CASE k # 0
      <4>1. k \in 1..n
        BY <1>1, <3>2
      <4>. QED BY <1>7, <3>2, <4>1
    <3>. QED BY <3>1, <3>2
  <2>2. CleansTo(h, a)
    BY <2>1 DEF CleansTo, n
  <2>. QED BY <2>2
<1>9. CleansTo(C, a)
  BY <1>8 DEF C
<1>10. \A k \in 0..n : C[k] = g[k]
  <2>. DEFINE T == {k \in 0..n : C[k] = g[k]}
  <2>0. \A k \in 0..n : C[k] = IF k = 0 THEN <<>> ELSE Comp!CleanStep(C[k - 1], a[k])
    BY <1>9 DEF CleansTo, n
  <2>1. 0 \in T
    <3>1. 0 \in 0..n
      BY <1>1
    <3>. QED BY <1>5, <2>0, <3>1
  <2>2. ASSUME NEW k \in 1..n, k - 1 \in T
        PROVE  k \in T
    <3>1. C[k - 1] = g[k - 1] /\ k \in 0..n /\ k # 0
      BY <1>7, <2>2
    <3>2. C[k] = Comp!CleanStep(C[k - 1], a[k])
      BY <2>0, <3>1
    <3>. QED BY <1>7, <3>1, <3>2
  <2>. HIDE DEF T
  <2>3. \A k \in 0..n : k \in T
    BY <1>1, <2>1, <2>2, UpTo
  <2>. QED BY <2>3 DEF T
<1>11. n \in 0..n
  BY <1>1
<1>. QED BY <1>0, <1>4, <1>10, <1>11 DEF a

LEMMA CleanIs ==
    ASSUME NEW t
    PROVE  /\ Rooted(t) => Clean(t) = IF WithSlashes(CleanComponents(t)) = <<>> THEN <<Slash>>
                                      ELSE WithSlashes(CleanComponents(t))
           /\ ~Rooted(t) => Clean(t) = IF WithSlashes(CleanComponents(t)) = <<>> THEN Dot
                                       ELSE Tail(WithSlashes(CleanComponents(t)))
<1>. DEFINE out == WithSlashes(CleanComponents(t))
            r == Rooted(t)
            yes == IF out = <<>> THEN <<"/">> ELSE out
            no == IF out = <<>> THEN Dot ELSE Tail(out)
<1>1. Clean(t) = CASE r -> yes [] ~r -> no
  BY DEF Clean
<1>2. yes = IF out = <<>> THEN <<Slash>> ELSE out
  BY DEF Slash
<1>. HIDE DEF r, yes, no, out
<1>3. CASE r
  <2>1. Clean(t) = yes
    BY <1>1, <1>3
  <2>. QED BY <1>2, <1>3, <2>1 DEF out, r
<1>4. CASE ~r
  <2>1. Clean(t) = no
    BY <1>1, <1>4
  <2>. QED BY <1>4, <2>1 DEF out, r, no
<1>. QED BY <1>3, <1>4

LEMMA Cancels ==
    ASSUME NEW S, NEW s \in Seq(S), NEW t \in Seq(S), NEW v \in Seq(S), s \o t = s \o v
    PROVE  t = v
  BY ConcatSimplifications

(* Texts with a slash before each component, one a beginning of the other up to
   a slash: the same of their components. *)
LEMMA BeginsByComponent ==
    ASSUME NEW S, Slash \in S, NEW a \in Seq(Parts(S)), NEW b \in Seq(Parts(S))
    PROVE  (WithSlashes(b) = WithSlashes(a) \/ IsPrefix(Append(WithSlashes(a), Slash), WithSlashes(b)))
             <=> IsPrefix(a, b)
<1>. DEFINE Q == Seq(S)
            e == <<<<>>>>
            x == WithSlashes(a)
            y == WithSlashes(b)
<1>1. Parts(S) \subseteq Whole(S) /\ Parts(S) \subseteq Q /\ <<>> \in Q
  BY DEF Parts, Whole
<1>2. /\ a \in Seq(Whole(S)) /\ b \in Seq(Whole(S)) /\ a \in Seq(Q) /\ b \in Seq(Q)
  <2>. HIDE DEF Q
  <2>. QED BY <1>1, SeqMonotonic
<1>3. /\ x \in Seq(S) /\ y \in Seq(S) /\ Components(x) = e \o a /\ Components(y) = e \o b
  BY <1>2, ComponentsOfSlashed
<1>4. e \in Seq(Q)
  <2>. HIDE DEF Q
  <2>. QED BY <1>1
<1>. HIDE DEF e, x, y
<1>5. Append(x, Slash) \in Seq(S) /\ Append(x, Slash) = x \o <<Slash>>
  BY <1>3, AppendProperties, AppendIsConcat
<1>6. ASSUME y = x
      PROVE  IsPrefix(a, b)
  <2>. HIDE DEF Q
  <2>1. a = b
    BY <1>2, <1>3, <1>4, <1>6, Cancels
  <2>2. a \o <<>> = a /\ <<>> \in Seq(Parts(S))
    BY ConcatEmptySeq
  <2>. QED BY <2>1, <2>2, PrefixIs DEF GoesOn
<1>7. ASSUME IsPrefix(Append(x, Slash), y)
      PROVE  IsPrefix(a, b)
  <2>. DEFINE z == Append(x, Slash)
  <2>0. z \in Seq(S) /\ IsPrefix(z, y)
    BY <1>5, <1>7
  <2>. HIDE DEF z
  <2>1. PICK r \in Seq(S) : y = z \o r
    <3>1. GoesOn(S, z, y)
      BY <1>3, <2>0, PrefixIs
    <3>. QED BY <3>1 DEF GoesOn
  <2>2. y = Join(x, r)
    BY <1>5, <2>1 DEF Join, z
  <2>. DEFINE c == Components(r)
  <2>3. c \in Seq(Q) /\ Components(y) = Components(x) \o c
    BY <1>3, <2>2, ComponentsType, ComponentsJoin
  <2>. HIDE DEF Q, c
  <2>4. (e \o a) \o c = e \o (a \o c) /\ a \o c \in Seq(Q)
    BY <1>2, <1>4, <2>3, ConcatAssociative, ConcatProperties, SMTT(20)
  <2>5. e \o b = e \o (a \o c)
    BY <1>3, <2>3, <2>4
  <2>6. b = a \o c
    BY <1>2, <1>4, <2>4, <2>5, Cancels
  <2>. QED BY <1>2, <2>3, <2>6, PrefixIs DEF GoesOn
<1>8. ASSUME IsPrefix(a, b)
      PROVE  y = x \/ IsPrefix(Append(x, Slash), y)
  <2>1. PICK c \in Seq(Parts(S)) : b = a \o c
    BY <1>8, PrefixIs DEF GoesOn
  <2>2. CASE c = <<>>
    <3>1. b = a
      BY <2>1, <2>2, ConcatEmptySeq
    <3>. QED BY <3>1 DEF x, y
  <2>3. CASE c # <<>>
    <3>1. PICK r \in Seq(S) : WithSlashes(c) = Join(<<>>, r)
      BY <2>3, WithSlashesBegins
    <3>2. y = x \o WithSlashes(c)
      <4>1. c \in Seq(Seq(S))
        <5>. HIDE DEF Q
        <5>1. c \in Seq(Q)
          BY <1>1, SeqMonotonic
        <5>. QED BY <5>1 DEF Q
      <4>. QED BY <1>2, <2>1, <4>1, WithSlashesConcat DEF x, y
    <3>3. x \o Join(<<>>, r) = Append(x, Slash) \o r
      <4>. DEFINE none == <<>>
      <4>1. none \in Seq(S)
        OBVIOUS
      <4>. HIDE DEF none
      <4>2. JoinsAfter(x, none, r)
        BY <1>3, <4>1, JoinOfConcat
      <4>3. x \o none = x
        BY <1>3, ConcatEmptySeq DEF none
      <4>. QED BY <1>5, <4>2, <4>3 DEF JoinsAfter, Join, none
    <3>4. y = Append(x, Slash) \o r
      BY <3>1, <3>2, <3>3
    <3>. QED BY <1>3, <1>5, <3>4, PrefixIs DEF GoesOn
  <2>. QED BY <2>2, <2>3
<1>. QED BY <1>6, <1>7, <1>8 DEF x, y

(* The paths a request is decided on: filepath.Clean changes nothing. *)
IsCanonical(path) == Rooted(path) /\ Clean(path) = path

LEMMA SlashedFacts ==
    ASSUME NEW S, Slash \in S, NEW comps \in Seq(Parts(S))
    PROVE  /\ comps = <<>> => WithSlashes(comps) = <<>>
           /\ comps # <<>> => /\ WithSlashes(comps) \in Seq(S) /\ Len(WithSlashes(comps)) \in Nat
                              /\ Len(WithSlashes(comps)) >= 2 /\ WithSlashes(comps) # <<>>
                              /\ WithSlashes(comps)[1] = Slash /\ WithSlashes(comps)[2] # Slash
<1>1. comps = <<>> => WithSlashes(comps) = <<>>
  BY DEF WithSlashes, FlattenSeq
<1>2. ASSUME comps # <<>>
      PROVE  /\ WithSlashes(comps) \in Seq(S) /\ Len(WithSlashes(comps)) \in Nat
             /\ Len(WithSlashes(comps)) >= 2 /\ WithSlashes(comps) # <<>>
             /\ WithSlashes(comps)[1] = Slash /\ WithSlashes(comps)[2] # Slash
  <2>1. PICK r \in Seq(S) : WithSlashes(comps) = Join(<<>>, r) /\ r # <<>> /\ r[1] # Slash
    BY <1>2, WithSlashesBegins
  <2>. DEFINE w == WithSlashes(comps)
              none == <<>>
  <2>2. none \in Seq(S) /\ Len(none) = 0 /\ w = Join(none, r)
    BY <2>1
  <2>. HIDE DEF none, w
  <2>3. Joined(w, S, none, r)
    BY <2>2, JoinType
  <2>4. Len(r) \in Nat \ {0} /\ 1 \in 1..Len(r)
    BY <2>1, EmptySeq
  <2>5. w \in Seq(S) /\ Len(w) = 0 + 1 + Len(r) /\ w # <<>> /\ w[0 + 1] = Slash /\ w[0 + 1 + 1] = r[1]
    BY <2>2, <2>3, <2>4 DEF Joined
  <2>6. w \in Seq(S) /\ Len(w) \in Nat /\ Len(w) >= 2 /\ w # <<>> /\ w[1] = Slash /\ w[2] = r[1]
    BY <2>4, <2>5
  <2>. QED BY <2>1, <2>6 DEF w
<1>. QED BY <1>1, <1>2

LEMMA AllowedIs ==
    ASSUME NEW prefix, NEW path
    PROVE  /\ Allowed(<<Slash>>, path) <=> path = <<Slash>> \/ IsPrefix(<<Slash>>, path)
           /\ prefix # <<Slash>> =>
                 (Allowed(prefix, path) <=> path = prefix \/ IsPrefix(Append(prefix, Slash), path))
  BY DEF Allowed, Slash

(* Allowed compares texts and a character, and comes to comparing components:
   a prefix is never matched by a part of a component, a relative one never
   (the comment on Allowed, mounts.go:608-637). *)
THEOREM AllowsByComponent ==
    ASSUME NEW S, Slash \in S, NEW p \in Seq(S), NEW path \in Seq(S), IsCanonical(path)
    PROVE  Allowed(normalizePrefix(p), path) <=>
               Rooted(p) /\ IsPrefix(CleanComponents(p), CleanComponents(path))
<1>. DEFINE c == CleanComponents(p)
            g == CleanComponents(path)
            x == WithSlashes(c)
            y == WithSlashes(g)
            v == Clean(p)
            P == Parts(S)
<1>1. c \in Seq(P) /\ g \in Seq(P)
  BY CleanComponentsType
<1>2. path = IF y = <<>> THEN <<Slash>> ELSE y
  BY CleanIs DEF IsCanonical
<1>3. Rooted(p) => v = IF x = <<>> THEN <<Slash>> ELSE x
  BY CleanIs
<1>4. ~Rooted(p) => v = IF x = <<>> THEN Dot ELSE Tail(x)
  BY CleanIs
<1>5. /\ c = <<>> => x = <<>>
      /\ c # <<>> => /\ x \in Seq(S) /\ Len(x) \in Nat /\ Len(x) >= 2 /\ x # <<>>
                     /\ x[1] = Slash /\ x[2] # Slash
  BY <1>1, SlashedFacts
<1>6. (g = <<>> => y = <<>>) /\ (g # <<>> => y # <<>>)
  BY <1>1, SlashedFacts
<1>7. Len(path) \in Nat /\ path # <<>> /\ Len(path) >= 1 /\ path[1] = Slash
  <2>1. path # <<>> /\ path[1] = Slash
    BY DEF IsCanonical, Rooted, Slash
  <2>. QED BY <2>1, EmptySeq
<1>8. (x = y \/ y = x \/ IsPrefix(Append(x, Slash), y)) <=> IsPrefix(c, g)
  BY <1>1, BeginsByComponent
<1>9. normalizePrefix(p) = v
  BY DEF normalizePrefix
<1>. HIDE DEF c, g, x, y, v, P
<1>10. CASE Rooted(p) /\ c = <<>>
  <2>1. v = <<Slash>>
    BY <1>3, <1>5, <1>10
  <2>2. IsPrefix(<<Slash>>, path)
    <3>. DEFINE one == <<Slash>>
    <3>1. one \in Seq(S) /\ Len(one) = 1 /\ one[1] = Slash
      OBVIOUS
    <3>. HIDE DEF one
    <3>2. Len(one) <= Len(path) /\ \A k \in 1..Len(one) : one[k] = path[k]
      BY <1>7, <3>1
    <3>3. IsPrefix(one, path)
      BY <3>1, <3>2, PrefixIs
    <3>. QED BY <3>3 DEF one
  <2>3. Allowed(v, path)
    BY <2>1, <2>2, AllowedIs
  <2>4. IsPrefix(c, g)
    <3>1. Len(c) = 0 /\ Len(g) \in Nat
      BY <1>1, <1>10, EmptySeq
    <3>2. Len(c) <= Len(g) /\ \A k \in 1..Len(c) : c[k] = g[k]
      BY <3>1
    <3>. QED BY <1>1, <3>2, PrefixIs
  <2>. QED BY <1>9, <1>10, <2>3, <2>4 DEF c, g
<1>11. CASE Rooted(p) /\ c # <<>>
  <2>1. v = x /\ Len(<<Slash>>) = 1
    BY <1>3, <1>5, <1>11
  <2>2. x # <<Slash>>
    <3>1. Len(x) # 1
      BY <1>5, <1>11
    <3>. QED BY <2>1, <3>1
  <2>3. Allowed(v, path) <=> path = x \/ IsPrefix(Append(x, Slash), path)
    BY <2>1, <2>2, AllowedIs
  <2>4. CASE g = <<>>
    <3>1. path = <<Slash>>
      BY <1>2, <1>6, <2>4
    <3>. DEFINE z == Append(x, Slash)
    <3>2. z \in Seq(S) /\ Len(z) = Len(x) + 1
      BY <1>5, <1>11, AppendProperties
    <3>. HIDE DEF z
    <3>3. ~(Len(z) <= Len(path))
      BY <1>5, <1>11, <2>1, <3>1, <3>2
    <3>4. ~IsPrefix(z, path)
      BY <3>2, <3>3, PrefixIs
    <3>5. ~IsPrefix(c, g)
      <4>1. Len(c) \in Nat \ {0} /\ Len(g) = 0
        BY <1>1, <1>11, <2>4, EmptySeq
      <4>2. ~(Len(c) <= Len(g))
        BY <4>1
      <4>. QED BY <1>1, <4>2, PrefixIs
    <3>. QED BY <1>9, <2>2, <2>3, <3>1, <3>4, <3>5 DEF z, c, g
  <2>5. CASE g # <<>>
    <3>1. path = y
      BY <1>2, <1>6, <2>5
    <3>. QED BY <1>8, <1>9, <1>11, <2>3, <3>1 DEF c, g
  <2>. QED BY <2>4, <2>5
<1>12. CASE ~Rooted(p)
  <2>. DEFINE R == S \cup {Period}
              z == Append(v, Slash)
  <2>1. v \in Seq(R) /\ v # <<>> /\ v[1] # Slash
    <3>1. CASE c = <<>>
      <4>1. v = <<Period>>
        BY <1>4, <1>5, <1>12, <3>1 DEF Dot, Period
      <4>. QED BY <4>1, TokensDiffer
    <3>2. CASE c # <<>>
      <4>1. v = Tail(x)
        BY <1>4, <1>5, <1>12, <3>2
      <4>2. Tail(x) \in Seq(S) /\ Len(Tail(x)) = Len(x) - 1
            /\ \A i \in 1..Len(Tail(x)) : Tail(x)[i] = x[i + 1]
        BY <1>5, <3>2, HeadTailProperties
      <4>3. 1 \in 1..Len(Tail(x)) /\ 1 + 1 = 2
        BY <1>5, <3>2, <4>2
      <4>4. Tail(x)[1] # Slash /\ Tail(x) # <<>>
        <5>1. Tail(x)[1] = x[2]
          BY <4>2, <4>3
        <5>2. Tail(x) # <<>>
          <6>. DEFINE w == Tail(x)
          <6>1. 1 \in 1..Len(w) /\ Len(<<>>) = 0 /\ ~(1 \in 1..0)
            BY <4>3
          <6>. HIDE DEF w
          <6>2. w # <<>>
            BY <6>1
          <6>. QED BY <6>2 DEF w
        <5>. QED BY <1>5, <3>2, <5>1, <5>2
      <4>5. Tail(x) \in Seq(R)
        BY <4>2, SeqMonotonic
      <4>. QED BY <4>1, <4>4, <4>5
    <3>. QED BY <3>1, <3>2
  <2>2. Slash \in R /\ path \in Seq(R)
    BY SeqMonotonic
  <2>3. 1 \in 1..Len(v)
    BY <2>1, EmptySeq
  <2>. HIDE DEF R
  <2>4. z \in Seq(R) /\ z[1] = v[1] /\ 1 \in 1..Len(z)
    <3>1. z \in Seq(R) /\ (\A i \in 1..Len(v) : z[i] = v[i]) /\ z # <<>>
      BY <2>1, <2>2, AppendProperties
    <3>. HIDE DEF z
    <3>2. 1 \in 1..Len(z)
      BY <3>1, EmptySeq
    <3>. QED BY <2>3, <3>1, <3>2
  <2>. HIDE DEF z
  <2>5. ~IsPrefix(z, path)
    <3>1. z[1] # path[1]
      BY <1>7, <2>1, <2>4
    <3>. QED BY <2>2, <2>4, <3>1, PrefixIs
  <2>6. v # <<Slash>> /\ path # v
    BY <1>7, <2>1
  <2>7. Allowed(v, path) <=> path = v \/ IsPrefix(z, path)
    BY <2>6, AllowedIs DEF z
  <2>. QED BY <1>9, <1>12, <2>5, <2>6, <2>7
<1>. QED BY <1>10, <1>11, <1>12

(* The values are texts; one with a slash is not used. *)
GivenVars(vars, S) ==
    \A n \in DOMAIN vars : \A v \in vars[n] : isSafeVarValue(v) => v \in Seq(S)

LEMMA CombosFill ==
    ASSUME NEW S, NEW p \in Seq(S), NEW vars, GivenVars(vars, S), NEW f \in Combos(p, vars)
    PROVE  Fills(f, p, S)
<1>. DEFINE Values(n) == IF n \in DOMAIN vars THEN vars[n] ELSE {}
            Usable(n) == {v \in Values(n) : isSafeVarValue(v)}
<1>1. /\ f \in [placeholderNames(p) -> UNION {Usable(n) : n \in placeholderNames(p)}]
      /\ \A n \in DOMAIN f : f[n] \in Usable(n)
  BY DEF Combos
<1>2. \A n \in placeholderNames(p) : f[n] \in Usable(n)
  BY <1>1
<1>. SUFFICES ASSUME NEW i \in PlaceholdersAt(p)
              PROVE  IsValue(Piece(p, f, i), S)
  BY DEF Fills
<1>3. PICK n \in placeholderNames(p) : n = NameAt(p, i)
  BY DEF placeholderNames
<1>4. Piece(p, f, i) = f[n]
  BY <1>3 DEF Piece
<1>5. f[n] \in Usable(n)
  BY <1>2
<1>. DEFINE v == f[n]
<1>6. n \in DOMAIN vars /\ v \in vars[n] /\ isSafeVarValue(v)
  BY <1>5
<1>. HIDE DEF v
<1>7. v \in Seq(S)
  BY <1>6 DEF GivenVars
<1>8. ~Has(v, Slash)
  <2>1. DOMAIN v = 1..Len(v)
    BY <1>7
  <2>2. \A j \in DOMAIN v : v[j] # Slash
    BY <1>6 DEF isSafeVarValue, Range, Slash
  <2>. QED BY <2>1, <2>2 DEF Has
<1>. QED BY <1>4, <1>7, <1>8 DEF IsValue, v

(* A pattern reads component by component, whatever its text, the path and the
   values the variables have, those made of dots or empty included
   (mounts.go:470-637). *)
THEOREM EveryPatternReads ==
    ASSUME NEW S, Slash \in S, NEW pattern \in Seq(S), NEW path \in Seq(S), IsCanonical(path),
           NEW vars, GivenVars(vars, S)
    PROVE  ReadsByComponent(pattern, vars, path)
<1>. DEFINE parts == Components(pattern)
            g == CleanComponents(path)
            C == Combos(pattern, vars)
            Q == Seq(S)
            InParts(f) == [k \in DOMAIN parts |-> substitute(parts[k], f)]
            Under(q) == Comp!Rooted(q) /\ Comp!IsPrefix(Comp!normalizePrefix(q), g)
<1>1. PatternAllows(pattern, vars, path)
        <=> \E f \in C : Allowed(normalizePrefix(substitute(pattern, f)), path)
  BY DEF PatternAllows, Expand
<1>2. DOMAIN parts = 1..Len(parts)
  <2>1. parts \in Seq(Q)
    BY ComponentsType
  <2>. HIDE DEF parts, Q
  <2>. QED BY <2>1
<1>3. ASSUME NEW f \in C
      PROVE  Allowed(normalizePrefix(substitute(pattern, f)), path) <=> Under(InParts(f))
  <2>. DEFINE q == substitute(pattern, f)
  <2>1. Fills(f, pattern, S)
    BY CombosFill
  <2>2. q \in Seq(S)
    BY <2>1, PiecesType
  <2>3. Components(q) = InParts(f)
    <3>1. Components(q) = Filled(parts, f)
      BY <2>1, ComponentsSubstitute
    <3>. QED BY <1>2, <3>1 DEF Filled
  <2>. HIDE DEF q, InParts
  <2>4. Allowed(normalizePrefix(q), path) <=> Rooted(q) /\ IsPrefix(CleanComponents(q), g)
    BY <2>2, AllowsByComponent
  <2>5. Rooted(q) <=> Comp!Rooted(InParts(f))
    BY <2>2, <2>3, RootedByComponents
  <2>6. Rooted(q) => Comp!normalizePrefix(InParts(f)) = CleanComponents(q)
    BY <2>2, <2>3, CleanByComponents
  <2>7. \A s, t : Comp!IsPrefix(s, t) <=> IsPrefix(s, t)
    BY DEF Comp!IsPrefix, IsPrefix
  <2>. HIDE DEF g
  <2>. QED BY <2>4, <2>5, <2>6, <2>7 DEF q
<1>4. Comp!Allowed({InParts(f) : f \in C}, g) <=> \E f \in C : Under(InParts(f))
  <2>1. Comp!Allowed({InParts(f) : f \in C}, g) <=> \E q \in {InParts(f) : f \in C} : Under(q)
    BY DEF Comp!Allowed
  <2>. HIDE DEF InParts, C, Under
  <2>. QED BY <2>1
<1>5. ReadsByComponent(pattern, vars, path) <=>
        (PatternAllows(pattern, vars, path) <=> Comp!Allowed({InParts(f) : f \in C}, g))
  BY DEF ReadsByComponent
<1>. HIDE DEF g, C, InParts, Under
<1>. QED BY <1>1, <1>3, <1>4, <1>5

(* Names with a slash before each are a canonical path, and so is the root. *)
LEMMA CleanOfSlashed ==
    ASSUME NEW S, Slash \in S, NEW a \in Seq(Whole(S)), NEW t \in Seq(S), Rooted(t),
           Components(t) = <<<<>>>> \o a
    PROVE  /\ a \in Seq(Names(S)) => CleanComponents(t) = a
           /\ a = <<<<>>>> => CleanComponents(t) = <<>>
<1>. DEFINE Q == Seq(S)
            e == <<<<>>>>
            c == Components(t)
            n == Len(a)
<1>1. e \in Seq(Q) /\ a \in Seq(Q) /\ Len(e) = 1 /\ e[1] = <<>>
  BY ComponentsOfSlashed
<1>2. /\ n \in Nat /\ Len(c) = n + 1 /\ DOMAIN c = 1..(n + 1) /\ c[1] = <<>>
      /\ \A k \in 1..n : c[k + 1] = a[k]
  <2>. HIDE DEF Q, e, c
  <2>1. c = e \o a
    BY DEF c, e
  <2>2. /\ c \in Seq(Q) /\ Len(c) = 1 + n
        /\ \A k \in 1..(1 + n) : c[k] = IF k <= 1 THEN e[k] ELSE a[k - 1]
    <3>1. /\ e \o a \in Seq(Q) /\ Len(e \o a) = Len(e) + Len(a)
          /\ \A k \in 1..(Len(e) + Len(a)) : (e \o a)[k] = IF k <= Len(e) THEN e[k] ELSE a[k - Len(e)]
      BY <1>1, ConcatProperties
    <3>. HIDE DEF n
    <3>. QED BY <1>1, <2>1, <3>1 DEF n
  <2>3. n \in Nat /\ Len(c) = n + 1 /\ DOMAIN c = 1..(n + 1)
    BY <1>1, <2>2
  <2>4. c[1] = <<>>
    <3>1. 1 \in 1..(1 + n) /\ 1 <= 1
      BY <2>3
    <3>. QED BY <1>1, <2>2, <3>1
  <2>5. ASSUME NEW k \in 1..n
        PROVE  c[k + 1] = a[k]
    <3>1. k + 1 \in 1..(1 + n) /\ ~(k + 1 <= 1) /\ k + 1 - 1 = k
      BY <2>3
    <3>. QED BY <2>2, <3>1
  <2>. QED BY <2>3, <2>4, <2>5
<1>3. PICK g : Reaches(g, WhatOf(TRUE), <<>>, c) /\ CleanComponents(t) = g[n + 1]
  <2>1. Rooted(t) = TRUE
    BY DEF Rooted
  <2>2. PICK g : /\ Reaches(g, WhatOf(Rooted(t)), <<>>, Components(t))
                 /\ CleanComponents(t) = g[Len(Components(t))]
    <3>1. DOMAIN Components(t) = 1..Len(Components(t)) /\ Len(Components(t)) \in Nat
      BY <1>2
    <3>. HIDE DEF c, n
    <3>. QED BY <3>1, CleanReaches
  <2>. QED BY <1>2, <2>1, <2>2
<1>. HIDE DEF c, n
<1>4. g[0] = <<>> /\ \A k \in 1..(n + 1) : g[k] = CleanStep(TRUE, g[k - 1], c[k])
  BY <1>2, <1>3, StepIsClean DEF Reaches
<1>5. g[1] = <<>>
  <2>1. 1 \in 1..(n + 1) /\ 1 - 1 = 0
    BY <1>2
  <2>2. CleanStep(TRUE, <<>>, <<>>) = <<>>
    BY DEF CleanStep
  <2>. QED BY <1>2, <1>4, <2>1, <2>2
<1>6. \A k \in 1..n : g[k + 1] = CleanStep(TRUE, g[k], a[k])
  <2>. SUFFICES ASSUME NEW k \in 1..n
                PROVE  g[k + 1] = CleanStep(TRUE, g[k], a[k])
    OBVIOUS
  <2>. DEFINE i == k + 1
  <2>1. i \in 1..(n + 1) /\ i - 1 = k
    BY <1>2
  <2>. HIDE DEF i
  <2>2. g[i] = CleanStep(TRUE, g[i - 1], c[i])
    BY <1>4, <2>1
  <2>3. c[i] = a[k]
    BY <1>2 DEF i
  <2>. QED BY <2>1, <2>2, <2>3 DEF i
<1>7. ASSUME a \in Seq(Names(S))
      PROVE  CleanComponents(t) = a
  <2>. DEFINE T == {k \in 0..n : g[k + 1] = SubSeq(a, 1, k)}
  <2>1. 0 \in T
    <3>1. SubSeq(a, 1, 0) = <<>>
      BY SubSeqEmpty
    <3>2. 0 \in 0..n /\ 0 + 1 = 1
      BY <1>2
    <3>. QED BY <1>5, <3>1, <3>2
  <2>2. ASSUME NEW k \in 1..n, k - 1 \in T
        PROVE  k \in T
    <3>. DEFINE s == SubSeq(a, 1, k - 1)
    <3>1. k - 1 + 1 = k /\ k \in 0..n /\ 1 \in 1..n /\ k \in 1..n
      BY <1>2, <2>2
    <3>2. SubSeq(a, 1, k) = s \o <<a[k]>>
      BY <1>1, <3>1, SubSeqRecursiveSecond DEF n
    <3>3. g[k] = s
      BY <2>2, <3>1
    <3>4. a[k] \in Names(S)
      BY <1>7, ElementOfSeq DEF n
    <3>5. a[k] \notin {<<>>, Dot, DotDot} /\ a[k] \in Q
      BY <3>4 DEF Names, Parts
    <3>6. s \in Seq(Q)
      <4>. HIDE DEF Q, s
      <4>1. \A i \in 1..(k - 1) : i \in 1..n
        BY <1>2
      <4>2. \A i \in 1..(k - 1) : a[i] \in Q
        BY <1>1, <4>1, ElementOfSeq DEF n
      <4>3. 1 \in Int /\ k - 1 \in Int
        BY <1>2
      <4>. QED BY <4>2, <4>3, SubSeqProperties DEF s
    <3>. HIDE DEF s
    <3>7. CleanStep(TRUE, s, a[k]) = Append(s, a[k])
      BY <3>5 DEF CleanStep
    <3>8. Append(s, a[k]) = s \o <<a[k]>>
      <4>. HIDE DEF Q
      <4>. QED BY <3>5, <3>6, AppendIsConcat
    <3>. QED BY <1>6, <3>1, <3>2, <3>3, <3>7, <3>8
  <2>. HIDE DEF T
  <2>3. \A k \in 0..n : k \in T
    BY <1>2, <2>1, <2>2, UpTo
  <2>4. n \in T
    BY <1>2, <2>3
  <2>5. SubSeq(a, 1, n) = a
    BY <1>1, SubSeqFull DEF n
  <2>. QED BY <1>3, <2>4, <2>5 DEF T
<1>8. ASSUME a = <<<<>>>>
      PROVE  CleanComponents(t) = <<>>
  <2>1. n = 1 /\ a[1] = <<>>
    BY <1>1, <1>8 DEF n
  <2>2. 1 \in 1..n /\ n + 1 = 1 + 1
    BY <2>1
  <2>3. CleanStep(TRUE, <<>>, <<>>) = <<>>
    BY DEF CleanStep
  <2>4. g[1 + 1] = CleanStep(TRUE, g[1], a[1])
    BY <1>6, <2>2
  <2>. QED BY <1>3, <1>5, <2>1, <2>2, <2>3, <2>4
<1>. QED BY <1>7, <1>8

LEMMA SlashedIsCanonical ==
    ASSUME NEW S, Slash \in S, NEW a \in Seq(Names(S))
    PROVE  /\ a # <<>> => WithSlashes(a) \in Seq(S) /\ IsCanonical(WithSlashes(a))
           /\ <<Slash>> \in Seq(S) /\ IsCanonical(<<Slash>>)
<1>1. Names(S) \subseteq Whole(S) /\ Names(S) \subseteq Parts(S) /\ <<>> \in Whole(S)
  BY DEF Names, Parts, Whole, SlashFree
<1>2. a \in Seq(Whole(S)) /\ a \in Seq(Parts(S))
  BY <1>1, SeqMonotonic
<1>3. ASSUME a # <<>>
      PROVE  WithSlashes(a) \in Seq(S) /\ IsCanonical(WithSlashes(a))
  <2>. DEFINE w == WithSlashes(a)
  <2>1. w \in Seq(S) /\ Components(w) = <<<<>>>> \o a
    BY <1>2, ComponentsOfSlashed
  <2>2. w # <<>> /\ w[1] = Slash
    BY <1>2, <1>3, SlashedFacts
  <2>3. Rooted(w)
    BY <2>2 DEF Rooted, Slash
  <2>. HIDE DEF w
  <2>4. CleanComponents(w) = a
    BY <1>2, <2>1, <2>3, CleanOfSlashed
  <2>5. Clean(w) = w
    BY <2>2, <2>3, <2>4, CleanIs DEF w
  <2>. QED BY <2>1, <2>3, <2>5 DEF IsCanonical, w
<1>4. IsCanonical(<<Slash>>) /\ <<Slash>> \in Seq(S)
  <2>. DEFINE e == <<<<>>>>
              t == <<Slash>>
  <2>1. e \in Seq(Whole(S))
    BY <1>1
  <2>2. t \in Seq(S) /\ t # <<>> /\ t[1] = Slash
    OBVIOUS
  <2>3. Rooted(t)
    BY <2>2 DEF Rooted, Slash
  <2>4. Components(t) = <<<<>>>> \o e
    <3>1. Append(<<>>, Slash) = t /\ <<>> \in Seq(S)
      OBVIOUS
    <3>2. Components(Append(<<>>, Slash)) = Append(<<<<>>>>, <<>>)
      BY <3>1, ComponentsNext, ComponentsOfNone DEF NextParts
    <3>3. Append(<<<<>>>>, <<>>) = <<<<>>>> \o <<<<>>>>
      <4>. DEFINE none == <<>>
      <4>1. <<none>> \in Seq({none}) /\ none \in {none}
        OBVIOUS
      <4>. HIDE DEF none
      <4>2. Append(<<none>>, none) = <<none>> \o <<none>>
        BY <4>1, AppendIsConcat
      <4>. QED BY <4>2 DEF none
    <3>. QED BY <3>1, <3>2, <3>3
  <2>. HIDE DEF t
  <2>5. CleanComponents(t) = <<>>
    BY <2>1, <2>2, <2>3, <2>4, CleanOfSlashed
  <2>6. WithSlashes(<<>>) = <<>>
    BY DEF WithSlashes, FlattenSeq
  <2>7. Clean(t) = t
    BY <2>3, <2>5, <2>6, CleanIs DEF t
  <2>. QED BY <2>2, <2>3, <2>7 DEF IsCanonical, t
<1>. QED BY <1>3, <1>4

(* Cleaning a path that begins with a slash leaves nothing to clean, whatever
   the path (filepath.Clean, as mounts.go uses it). *)
THEOREM CleanIsCanonical ==
    ASSUME NEW S, Slash \in S, NEW p \in Seq(S), Rooted(p)
    PROVE  Clean(p) \in Seq(S) /\ IsCanonical(Clean(p))
<1>. DEFINE c == CleanComponents(p)
<1>1. c \in Seq(Names(S))
  BY CleanComponentsType
<1>2. Clean(p) = IF WithSlashes(c) = <<>> THEN <<Slash>> ELSE WithSlashes(c)
  BY CleanIs
<1>3. WithSlashes(<<>>) = <<>>
  BY DEF WithSlashes, FlattenSeq
<1>. HIDE DEF c
<1>. QED BY <1>1, <1>2, <1>3, SlashedIsCanonical

(* The paths and the values of MCTexts. *)
LEMMA TupleIs ==
    ASSUME NEW S, NEW s \in Seq(S), NEW t \in Seq(S), NEW x \in S,
           Len(s) = Len(t) + 1, s[Len(t) + 1] = x, \A i \in 1..Len(t) : s[i] = t[i]
    PROVE  Append(t, x) = s
<1>. DEFINE u == Append(t, x)
            n == Len(t)
<1>1. u \in Seq(S) /\ Len(u) = n + 1 /\ n \in Nat /\ u[n + 1] = x /\ \A i \in 1..n : u[i] = t[i]
  BY AppendProperties
<1>2. Len(s) = n + 1 /\ s[n + 1] = x /\ \A i \in 1..n : s[i] = t[i]
  OBVIOUS
<1>. HIDE DEF u, n
<1>3. \A i \in 1..(n + 1) : i \in 1..n \/ i = n + 1
  BY <1>1
<1>4. Len(u) = Len(s) /\ \A i \in 1..Len(u) : u[i] = s[i]
  BY <1>1, <1>2, <1>3
<1>5. u = s
  BY <1>1, <1>4, SeqEqual
<1>. QED BY <1>5 DEF u

Grows(p, q, r, s) ==
    /\ Append(<<>>, p) = <<p>> /\ Append(<<p>>, q) = <<p, q>>
    /\ Append(<<p, q>>, r) = <<p, q, r>> /\ Append(<<p, q, r>>, s) = <<p, q, r, s>>

LEMMA Tuples ==
    ASSUME NEW S, NEW p \in S, NEW q \in S, NEW r \in S, NEW s \in S
    PROVE  Grows(p, q, r, s)
<1>. DEFINE a == <<>>
            b == <<p>>
            c == <<p, q>>
            d == <<p, q, r>>
            e == <<p, q, r, s>>
<1>1. /\ a \in Seq(S) /\ b \in Seq(S) /\ c \in Seq(S) /\ d \in Seq(S) /\ e \in Seq(S)
      /\ Len(a) = 0 /\ Len(b) = 1 /\ Len(c) = 2 /\ Len(d) = 3 /\ Len(e) = 4
  OBVIOUS
<1>2. /\ b[1] = p /\ c[1] = p /\ c[2] = q /\ d[1] = p /\ d[2] = q /\ d[3] = r
      /\ e[1] = p /\ e[2] = q /\ e[3] = r /\ e[4] = s
  OBVIOUS
<1>. HIDE DEF a, b, c, d, e
<1>3. \A i \in 1..0 : FALSE
  OBVIOUS
<1>4. (\A i \in 1..1 : i = 1) /\ (\A i \in 1..2 : i = 1 \/ i = 2)
      /\ (\A i \in 1..3 : i = 1 \/ i = 2 \/ i = 3)
  OBVIOUS
<1>5. Append(a, p) = b
  <2>1. Len(b) = Len(a) + 1 /\ b[Len(a) + 1] = p /\ \A i \in 1..Len(a) : b[i] = a[i]
    BY <1>1, <1>2, <1>3, <1>4
  <2>. QED BY <1>1, <2>1, TupleIs
<1>6. Append(b, q) = c
  <2>1. Len(c) = Len(b) + 1 /\ c[Len(b) + 1] = q /\ \A i \in 1..Len(b) : c[i] = b[i]
    <3>1. Len(b) = 1 /\ Len(b) + 1 = 2 /\ Len(c) = 2
      BY <1>1
    <3>2. \A i \in 1..1 : c[i] = b[i]
      BY <1>2, <1>4
    <3>. QED BY <1>2, <3>1, <3>2
  <2>. QED BY <1>1, <2>1, TupleIs, ZenonT(30)
<1>7. Append(c, r) = d
  <2>1. Len(d) = Len(c) + 1 /\ d[Len(c) + 1] = r /\ \A i \in 1..Len(c) : d[i] = c[i]
    <3>1. Len(c) = 2 /\ Len(c) + 1 = 3 /\ Len(d) = 3
      BY <1>1
    <3>2. \A i \in 1..2 : d[i] = c[i]
      BY <1>2, <1>4
    <3>. QED BY <1>2, <3>1, <3>2
  <2>. QED BY <1>1, <2>1, TupleIs, ZenonT(30)
<1>8. Append(d, s) = e
  <2>1. Len(e) = Len(d) + 1 /\ e[Len(d) + 1] = s /\ \A i \in 1..Len(d) : e[i] = d[i]
    <3>1. Len(d) = 3 /\ Len(d) + 1 = 4 /\ Len(e) = 4
      BY <1>1
    <3>2. \A i \in 1..3 : e[i] = d[i]
      BY <1>2, <1>4
    <3>. QED BY <1>2, <3>1, <3>2
  <2>. QED BY <1>1, <2>1, TupleIs, ZenonT(30)
<1>. QED BY <1>5, <1>6, <1>7, <1>8 DEF Grows, a, b, c, d, e

LEMMA ShortPaths ==
    ASSUME NEW S, Slash \in S, NEW a \in S, NEW b \in S, {a, b} \cap {Slash, Period} = {}
    PROVE  /\ IsCanonical(<<Slash, a>>) /\ IsCanonical(<<Slash, a, b>>)
           /\ IsCanonical(<<Slash, a, Slash, b>>)
<1>. DEFINE x == <<a>>
            y == <<b>>
            z == <<a, b>>
            N == Names(S)
            Q == Seq(S)
<1>1. x \in N /\ y \in N /\ z \in N
  <2>1. /\ x \in Seq(S) /\ Len(x) = 1 /\ x[1] = a
        /\ y \in Seq(S) /\ Len(y) = 1 /\ y[1] = b
        /\ z \in Seq(S) /\ Len(z) = 2 /\ z[1] = a /\ z[2] = b
    OBVIOUS
  <2>2. Dot[1] = Period /\ DotDot[1] = Period /\ Len(<<>>) = 0
    BY DEF Dot, DotDot, Period
  <2>3. a # Slash /\ a # Period /\ b # Slash /\ b # Period
    OBVIOUS
  <2>. HIDE DEF x, y, z
  <2>4. SlashFree(x) /\ SlashFree(y) /\ SlashFree(z)
    <3>1. \A i \in 1..1 : i = 1
      OBVIOUS
    <3>2. \A i \in 1..2 : i = 1 \/ i = 2
      OBVIOUS
    <3>. QED BY <2>1, <2>3, <3>1, <3>2 DEF SlashFree
  <2>5. \A s \in {x, y, z} : s # <<>> /\ s # Dot /\ s # DotDot
    BY <2>1, <2>2, <2>3
  <2>. QED BY <2>1, <2>4, <2>5 DEF Names, Parts
<1>2. N \subseteq Q
  BY DEF Names, Parts
<1>3. \A c \in N : WithSlashes(<<c>>) = Join(<<>>, c)
  <2>. SUFFICES ASSUME NEW c \in N
                PROVE  WithSlashes(<<c>>) = Join(<<>>, c)
    BY Zenon
  <2>1. <<>> \in Seq(Seq(S)) /\ c \in Seq(S)
    BY <1>2
  <2>2. WithSlashesOf(S, WithSlashes(<<>>), <<>>) /\ WithSlashes(<<>>) = <<>>
    BY <2>1, WithSlashesNext
  <2>3. WithSlashes(Append(<<>>, c)) = Join(<<>>, c)
    BY <2>1, <2>2 DEF WithSlashesOf
  <2>. HIDE DEF N, Q
  <2>4. Append(<<>>, c) = <<c>>
    <3>1. c \in {c}
      OBVIOUS
    <3>2. Grows(c, c, c, c)
      BY <3>1, Tuples
    <3>. QED BY <3>2 DEF Grows
  <2>. QED BY <2>3, <2>4
<1>4. WithSlashes(<<x, y>>) = Join(Join(<<>>, x), y)
  <2>. HIDE DEF x, y
  <2>1. <<x>> \in Seq(Q) /\ y \in Seq(S)
    <3>1. x \in Q /\ y \in Q
      BY <1>1, <1>2
    <3>. HIDE DEF Q
    <3>2. <<x>> \in Seq(Q)
      BY <3>1
    <3>. QED BY <3>1, <3>2 DEF Q
  <2>2. WithSlashesOf(S, WithSlashes(<<x>>), <<x>>)
    BY <2>1, WithSlashesNext
  <2>3. WithSlashes(Append(<<x>>, y)) = Join(WithSlashes(<<x>>), y)
    BY <2>1, <2>2 DEF WithSlashesOf
  <2>4. Append(<<x>>, y) = <<x, y>>
    <3>1. Grows(x, y, y, y)
      BY <1>1, Tuples
    <3>. QED BY <3>1 DEF Grows
  <2>. QED BY <1>1, <1>3, <2>3, <2>4
<1>. DEFINE Extends(t) == /\ Join(t, <<>>) = Append(t, Slash)
                          /\ Join(t, <<a>>) = Append(Append(t, Slash), a)
                          /\ Join(t, <<b>>) = Append(Append(t, Slash), b)
                          /\ Join(t, <<a, b>>) = Append(Append(Append(t, Slash), a), b)
<1>5. ASSUME NEW t \in Seq(S)
      PROVE  Extends(t)
  <2>. DEFINE none == <<>>
  <2>0. none \in Seq(S) /\ x \in Seq(S)
    OBVIOUS
  <2>1. none \in Seq(S) /\ Append(none, a) = x /\ Append(none, b) = y /\ Append(x, b) = z
        /\ x \in Seq(S)
    <3>1. Grows(a, b, b, b) /\ Grows(b, b, b, b)
      BY Tuples
    <3>. QED BY <2>0, <3>1 DEF Grows
  <2>2. Joins(S, t)
    BY JoinNext
  <2>. HIDE DEF none, x, y, z
  <2>3. /\ Join(t, x) = Append(Join(t, none), a) /\ Join(t, y) = Append(Join(t, none), b)
        /\ Join(t, z) = Append(Join(t, x), b)
    BY <2>1, <2>2 DEF Joins
  <2>4. Join(t, none) = Append(t, Slash)
    BY <2>2 DEF Joins, none
  <2>. QED BY <2>3, <2>4 DEF none, x, y, z
<1>6. <<>> \in Seq(S) /\ <<Slash, a>> \in Seq(S)
  OBVIOUS
<1>7. Join(<<>>, x) = <<Slash, a>> /\ Join(<<>>, z) = <<Slash, a, b>>
  <2>0. /\ Append(<<>>, Slash) = <<Slash>> /\ Append(<<Slash>>, a) = <<Slash, a>>
        /\ Append(<<Slash, a>>, b) = <<Slash, a, b>>
    <3>1. Grows(Slash, a, b, b)
      BY Tuples
    <3>. QED BY <3>1 DEF Grows
  <2>1. /\ Append(Append(<<>>, Slash), a) = <<Slash, a>>
        /\ Append(Append(Append(<<>>, Slash), a), b) = <<Slash, a, b>>
    BY <2>0
  <2>2. Extends(<<>>)
    BY <1>5, <1>6
  <2>. QED BY <2>1, <2>2
<1>8. Join(<<Slash, a>>, y) = <<Slash, a, Slash, b>>
  <2>0. /\ Append(<<Slash, a>>, Slash) = <<Slash, a, Slash>>
        /\ Append(<<Slash, a, Slash>>, b) = <<Slash, a, Slash, b>>
    <3>1. Grows(Slash, a, Slash, b)
      BY Tuples
    <3>. QED BY <3>1 DEF Grows
  <2>1. Append(Append(<<Slash, a>>, Slash), b) = <<Slash, a, Slash, b>>
    BY <2>0
  <2>2. Extends(<<Slash, a>>)
    BY <1>5, <1>6
  <2>. QED BY <2>1, <2>2
<1>. HIDE DEF x, y, z, N, Extends
<1>9. /\ <<x>> \in Seq(N) /\ <<x>> # <<>> /\ <<z>> \in Seq(N) /\ <<z>> # <<>>
      /\ <<x, y>> \in Seq(N) /\ <<x, y>> # <<>>
  BY <1>1
<1>10. \A c \in Seq(N) : c # <<>> => IsCanonical(WithSlashes(c))
  BY SlashedIsCanonical DEF N
<1>11. IsCanonical(WithSlashes(<<x>>)) /\ IsCanonical(WithSlashes(<<z>>)) /\ IsCanonical(WithSlashes(<<x, y>>))
  BY <1>9, <1>10
<1>. QED BY <1>1, <1>3, <1>4, <1>7, <1>8, <1>11

LEMMA ShortTokens ==
    /\ Slash \in Tokens \cup {"ann"} /\ Period \in Tokens \cup {"ann"}
    /\ "ann" \in Tokens \cup {"ann"}
    /\ "x" \in Tokens \cup {"ann"} /\ "1" \in Tokens \cup {"ann"}
<1>1. "/" \in Tokens /\ "." \in Tokens /\ "1" \in Tokens
  BY Zenon DEF Tokens
<1>2. "x" \in Tokens
  <2>1. "pattern" \in Kinds /\ "x" \in Alphabet["pattern"]
    BY DEF Kinds, Alphabet
  <2>. QED BY <2>1, Zenon DEF Tokens
<1>. QED BY <1>1, <1>2, Zenon DEF Slash, Period

LEMMA PathsAreCanonical ==
    \A path \in CanonicalPaths : path \in Seq(Tokens \cup {"ann"}) /\ IsCanonical(path)
<1>. DEFINE S == Tokens \cup {"ann"}
            Ann == "ann"
            X == "x"
            One == "1"
<1>1. Slash \in S /\ Ann \in S /\ X \in S /\ One \in S
  BY ShortTokens
<1>2. {Ann, X, One} \cap {Slash, Period} = {}
  BY Zenon DEF Slash, Period
<1>3. \A path \in CanonicalPaths :
        path \in {<<Slash>>, <<Slash, Ann>>, <<Slash, Ann, X>>, <<Slash, One>>, <<Slash, One, X>>,
                  <<Slash, X, Slash, Ann>>, <<Slash, X, Ann>>, <<Slash, Ann, Slash, One>>}
  BY Zenon DEF CanonicalPaths, Slash
<1>. HIDE DEF S, Ann, X, One
<1>4. \A a, b \in {Ann, X, One} :
        /\ IsCanonical(<<Slash, a>>) /\ IsCanonical(<<Slash, a, b>>) /\ IsCanonical(<<Slash, a, Slash, b>>)
  <2>. SUFFICES ASSUME NEW a \in {Ann, X, One}, NEW b \in {Ann, X, One}
                PROVE  /\ IsCanonical(<<Slash, a>>) /\ IsCanonical(<<Slash, a, b>>)
                       /\ IsCanonical(<<Slash, a, Slash, b>>)
    OBVIOUS
  <2>1. a \in S /\ b \in S /\ {a, b} \cap {Slash, Period} = {}
    BY <1>1, <1>2
  <2>. QED BY <1>1, <2>1, ShortPaths
<1>5. IsCanonical(<<Slash>>)
  <2>1. <<>> \in Seq(Names(S))
    OBVIOUS
  <2>. QED BY <1>1, <2>1, SlashedIsCanonical
<1>6. \A a, b \in S : /\ <<Slash>> \in Seq(S) /\ <<Slash, a>> \in Seq(S) /\ <<Slash, a, b>> \in Seq(S)
                      /\ <<Slash, a, Slash, b>> \in Seq(S)
  BY <1>1
<1>7. \A path \in CanonicalPaths : path \in Seq(S)
  BY <1>1, <1>3, <1>6
<1>8. \A path \in CanonicalPaths : IsCanonical(path)
  BY <1>3, <1>4, <1>5
<1>. QED BY <1>7, <1>8 DEF S

LEMMA VarsAreGiven == GivenVars(Vars, Tokens \cup {"ann"})
<1>. DEFINE S == Tokens \cup {"ann"}
            Ann == "ann"
            X == "x"
            One == "1"
            values == {<<Ann>>, <<Ann, X>>, <<Period, Period>>, <<One>>, <<>>, <<X, Slash, One>>}
<1>1. \A n \in DOMAIN Vars : \A v \in Vars[n] : v \in values
  BY Zenon DEF Vars, Slash, Period
<1>2. Slash \in S /\ Period \in S /\ Ann \in S /\ X \in S /\ One \in S
  BY ShortTokens
<1>. HIDE DEF S, Ann, X, One
<1>3. /\ <<Ann>> \in Seq(S) /\ <<Ann, X>> \in Seq(S) /\ <<Period, Period>> \in Seq(S)
      /\ <<One>> \in Seq(S) /\ <<>> \in Seq(S) /\ <<X, Slash, One>> \in Seq(S)
  BY <1>2
<1>4. \A v \in values : v \in Seq(S)
  BY <1>3
<1>. HIDE DEF values
<1>. QED BY <1>1, <1>4 DEF GivenVars, S

(* The same of the patterns of the run, with its paths and values. *)
THEOREM PatternsRead == Spec => []PatternsReadByComponent
<1>. DEFINE S == Tokens \cup {"ann"}
<1>1. Slash \in S
  BY ShortTokens
<1>2. \A path \in CanonicalPaths : path \in Seq(S) /\ IsCanonical(path)
  BY PathsAreCanonical
<1>3. GivenVars(Vars, S)
  BY VarsAreGiven
<1>4. TextInv => text \in Seq(S)
  BY SeqMonotonic DEF TextInv
<1>. HIDE DEF S
<1>5. TextInv => PatternsReadByComponent
  BY <1>1, <1>2, <1>3, <1>4, EveryPatternReads DEF PatternsReadByComponent
<1>. QED BY <1>5, TextAlways, PTL
=============================================================================
