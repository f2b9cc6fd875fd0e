-------------------------- MODULE RuleChainProofs ---------------------------
(***************************************************************************)
(* Proofs about RuleChain, for any configurations, requests, datasources   *)
(* and paths.                                                              *)
(***************************************************************************)
EXTENDS AuthZPhases, WellFoundedInduction, TLAPS

-----------------------------------------------------------------------------
(* What Union computes, in terms of what was said. *)

LEMMA UnionIsSaid ==
    ASSUME NEW answers, NEW v \in Variables, NEW n
    PROVE  n \in Union(answers)[v] <=> Said(answers, v, n)
  BY DEF Union, Contributions, Said

LEMMA AdminIsAdminBy ==
    ASSUME NEW answers
    PROVE  IsAdmin(Union(answers)) <=> AdminBy(answers)
<1>. "USER" \in Variables /\ "GROUP" \in Variables
  BY DEF Variables
<1>. QED BY UnionIsSaid DEF IsAdmin, AdminBy

LEMMA PrefixByComponent ==
    ASSUME NEW S, NEW q \in Seq(S), NEW path \in Seq(S)
    PROVE  IsPrefix(q, path) <=>
               /\ Len(q) <= Len(path)
               /\ \A k \in 1..Len(q) : q[k] = path[k]
  BY DEF IsPrefix

-----------------------------------------------------------------------------
(* Cleaning a pattern that is in place takes nothing away but the empty
   component before its first slash. *)

LEMMA LeastPosition ==
    ASSUME NEW T \in SUBSET Nat, T # {}
    PROVE  \E m \in T : \A n \in T : m <= n
<1>. DEFINE R == OpToRel(<, Nat)
<1>1. IsWellFoundedOn(R, Nat)
  BY NatLessThanWellFounded
<1>2. \A m, n \in Nat : <<m, n>> \in R <=> m < n
  BY DEF OpToRel
<1>. HIDE DEF R
<1>3. PICK m \in T : \A n \in T : ~(<<n, m>> \in R)
  BY <1>1, WFMin
<1>4. m \in Nat /\ \A n \in T : n \in Nat /\ ~(n < m)
  BY <1>2, <1>3
<1>. QED BY <1>3, <1>4

(* The function that normalizePrefix goes through. *)
Cleans(g, q) ==
    g = [k \in 0..Len(q) |-> IF k = 0 THEN <<>> ELSE CleanStep(g[k - 1], q[k])]

(* The components of q up to the k-th, without the first. *)
Below(q, k) == SubSeq(q, 2, k)

LEMMA BelowIs ==
    ASSUME NEW S, NEW q \in Seq(S), NEW k \in 1..Len(q)
    PROVE  /\ Below(q, k) \in Seq(S)
           /\ Len(Below(q, k)) = k - 1
           /\ \A j \in 1..(k - 1) : Below(q, k)[j] = q[j + 1]
  BY DEF Below

LEMMA NothingBelow ==
    ASSUME NEW S, NEW q \in Seq(S)
    PROVE  Below(q, 0) = <<>> /\ Below(q, 1) = <<>>
  BY DEF Below

LEMMA BelowGrows ==
    ASSUME NEW S, NEW q \in Seq(S), NEW k \in 2..Len(q)
    PROVE  Append(Below(q, k - 1), q[k]) = Below(q, k)
<1>. DEFINE short == Below(q, k - 1)
            long == Below(q, k)
<1>1. k - 1 \in 1..Len(q) /\ k \in 1..Len(q) /\ q[k] \in S
  OBVIOUS
<1>2. /\ short \in Seq(S) /\ Len(short) = k - 2
      /\ \A j \in 1..(k - 2) : short[j] = q[j + 1]
  <2>1. /\ short \in Seq(S) /\ Len(short) = (k - 1) - 1
        /\ \A j \in 1..((k - 1) - 1) : short[j] = q[j + 1]
    BY <1>1, BelowIs
  <2>2. (k - 1) - 1 = k - 2
    BY <1>1
  <2>. QED BY <2>1, <2>2
<1>3. /\ long \in Seq(S) /\ Len(long) = k - 1
      /\ \A j \in 1..(k - 1) : long[j] = q[j + 1]
  BY <1>1, BelowIs
<1>. HIDE DEF short, long
<1>4. /\ Append(short, q[k]) \in Seq(S) /\ Len(Append(short, q[k])) = k - 1
      /\ \A j \in 1..(k - 2) : Append(short, q[k])[j] = q[j + 1]
      /\ Append(short, q[k])[k - 1] = q[k]
  BY <1>1, <1>2
<1>5. \A j \in 1..(k - 1) : Append(short, q[k])[j] = long[j]
  BY <1>3, <1>4
<1>6. Append(short, q[k]) = long
  BY <1>3, <1>4, <1>5
<1>. QED BY <1>6 DEF short, long

LEMMA InPlaceStep ==
    ASSUME NEW S, NEW q \in Seq(S), InPlace(q), NEW k \in 1..Len(q)
    PROVE  CleanStep(Below(q, k - 1), q[k]) = Below(q, k)
<1>1. CASE k = 1
  <2>1. q[k] = <<>> /\ Below(q, k - 1) = <<>> /\ Below(q, k) = <<>>
    BY <1>1, NothingBelow DEF InPlace, Rooted
  <2>. QED BY <2>1 DEF CleanStep
<1>2. CASE k # 1
  <2>1. k \in 2..Len(q)
    BY <1>2
  <2>2. q[k] \notin {<<>>, Dot, DotDot}
    BY <2>1 DEF InPlace
  <2>3. CleanStep(Below(q, k - 1), q[k]) = Append(Below(q, k - 1), q[k])
    BY <2>2 DEF CleanStep
  <2>. QED BY <2>1, <2>3, BelowGrows
<1>. QED BY <1>1, <1>2

LEMMA InPlaceCleans ==
    ASSUME NEW S, NEW q \in Seq(S), InPlace(q)
    PROVE  normalizePrefix(q) = Below(q, Len(q))
<1>. DEFINE n == Len(q)
            C == CHOOSE g : Cleans(g, q)
<1>0. n \in Nat
  OBVIOUS
<1>1. normalizePrefix(q) = C[n]
  BY DEF normalizePrefix, Cleans
<1>2. \E g : Cleans(g, q)
  <2>. DEFINE g == [k \in 0..n |-> Below(q, k)]
  <2>1. ASSUME NEW k \in 0..n
        PROVE  g[k] = IF k = 0 THEN <<>> ELSE CleanStep(g[k - 1], q[k])
    <3>1. CASE k = 0
      BY <3>1, NothingBelow
    <3>2. CASE k # 0
      <4>1. k \in 1..n /\ k - 1 \in 0..n
        BY <1>0, <3>2
      <4>2. g[k] = Below(q, k) /\ g[k - 1] = Below(q, k - 1)
        BY <4>1
      <4>3. CleanStep(Below(q, k - 1), q[k]) = Below(q, k)
        BY <4>1, InPlaceStep
      <4>. QED BY <3>2, <4>2, <4>3
    <3>. QED BY <3>1, <3>2
  <2>2. Cleans(g, q)
    BY <2>1 DEF Cleans
  <2>. QED BY <2>2
<1>3. Cleans(C, q)
  BY <1>2
<1>. HIDE DEF C
<1>. DEFINE T == {k \in 0..n : C[k] # Below(q, k)}
<1>4. ASSUME T # {} PROVE FALSE
  <2>0. T \in SUBSET Nat
    BY <1>0
  <2>. HIDE DEF T
  <2>1. PICK k \in T : \A j \in T : k <= j
    BY <1>4, <2>0, LeastPosition
  <2>. USE DEF T
  <2>2. k \in 0..n /\ C[k] # Below(q, k)
    OBVIOUS
  <2>3. CASE k = 0
    BY <1>3, <2>2, <2>3, NothingBelow DEF Cleans
  <2>4. CASE k # 0
    <3>1. k \in 1..n /\ k - 1 \in 0..n /\ ~(k <= k - 1)
      BY <1>0, <2>2, <2>4
    <3>2. C[k - 1] = Below(q, k - 1)
      BY <2>1, <3>1
    <3>3. C[k] = CleanStep(C[k - 1], q[k])
      BY <1>3, <2>2, <2>4 DEF Cleans
    <3>. QED BY <2>2, <3>1, <3>2, <3>3, InPlaceStep
  <2>. QED BY <2>3, <2>4
<1>5. n \in 0..n
  BY <1>0
<1>. QED BY <1>1, <1>4, <1>5

-----------------------------------------------------------------------------
(* Expanding the allowlist, cleaning the results and comparing prefixes is
   asking whether a path is under a pattern filled in with what was said. *)

LEMMA UnderIsPrefix ==
    ASSUME NEW S, NEW q \in Seq(S), NEW path \in Seq(S)
    PROVE  Under(path, q) <=> Rooted(q) /\ IsPrefix(normalizePrefix(q), path)
<1>1. CASE ~InPlace(q)
  BY <1>1 DEF Under
<1>2. CASE InPlace(q)
  <2>. DEFINE clean == Below(q, Len(q))
  <2>1. Len(q) \in 1..Len(q) /\ Len(q) \in Nat /\ Rooted(q)
    BY <1>2 DEF InPlace, Rooted
  <2>2. /\ clean \in Seq(S) /\ Len(clean) = Len(q) - 1
        /\ \A j \in 1..(Len(q) - 1) : clean[j] = q[j + 1]
    BY <2>1, BelowIs
  <2>3. normalizePrefix(q) = clean
    BY <1>2, InPlaceCleans
  <2>. HIDE DEF clean
  <2>4. IsPrefix(clean, path) <=>
            /\ Len(clean) <= Len(path)
            /\ \A k \in 1..Len(clean) : clean[k] = path[k]
    BY <2>2, PrefixByComponent
  <2>5. (\A k \in 1..Len(clean) : clean[k] = path[k])
            <=> (\A k \in 2..Len(q) : path[k - 1] = q[k])
    <3>1. ASSUME \A k \in 1..Len(clean) : clean[k] = path[k], NEW k \in 2..Len(q)
          PROVE  path[k - 1] = q[k]
      <4>1. k - 1 \in 1..(Len(q) - 1) /\ (k - 1) + 1 = k
        BY <2>1
      <4>. QED BY <2>2, <3>1, <4>1
    <3>2. ASSUME \A k \in 2..Len(q) : path[k - 1] = q[k], NEW k \in 1..Len(clean)
          PROVE  clean[k] = path[k]
      <4>1. k + 1 \in 2..Len(q) /\ (k + 1) - 1 = k /\ k \in 1..(Len(q) - 1)
        BY <2>1, <2>2
      <4>. QED BY <2>2, <3>2, <4>1
    <3>. QED BY <3>1, <3>2
  <2>6. Len(clean) <= Len(path) <=> Len(q) <= Len(path) + 1
    BY <2>1, <2>2
  <2>. QED BY <1>2, <2>1, <2>3, <2>4, <2>5, <2>6 DEF Under
<1>. QED BY <1>1, <1>2

(* A pattern with its placeholders replaced is a sequence of as many
   components. *)
LEMMA FilledIsSequence ==
    ASSUME NEW p \in Patterns, NEW f
    PROVE  \E S : Filled(p, f) \in Seq(S)
<1>. DEFINE S == {Fill(p[k], f) : k \in DOMAIN p}
<1>1. Len(p) \in Nat /\ DOMAIN p = 1..Len(p)
  BY DEF Patterns
<1>2. Filled(p, f) \in [1..Len(p) -> S]
  BY <1>1 DEF Filled
<1>. HIDE DEF S
<1>3. Filled(p, f) \in Seq(S)
  BY <1>1, <1>2
<1>. QED BY <1>3

LEMMA GivenIsCombos ==
    ASSUME NEW p, NEW answers
    PROVE  Given(p, answers) = Combos(p, Union(answers))
<1>. DEFINE U == UNION {Usable(Union(answers), v) : v \in Placeholders(p)}
<1>1. ASSUME NEW v \in Placeholders(p), NEW n
      PROVE  n \in Usable(Union(answers), v)
                 <=> Said(answers, v, n) /\ Range(n) \cap Unsafe = {}
  <2>1. v \in Variables
    BY DEF Placeholders
  <2>. QED BY <2>1, UnionIsSaid DEF Usable
<1>2. ASSUME NEW v \in Placeholders(p), NEW n, Said(answers, v, n)
      PROVE  n \in Spoken(answers)
  <2>1. v \in Variables
    BY DEF Placeholders
  <2>. QED BY <1>2, <2>1 DEF Said, Spoken
<1>3. ASSUME NEW f \in Given(p, answers) PROVE f \in Combos(p, Union(answers))
  <2>1. f \in [Placeholders(p) -> Spoken(answers)]
    BY DEF Given
  <2>2. \A v \in Placeholders(p) : f[v] \in Usable(Union(answers), v)
    BY <1>1 DEF Given
  <2>3. f \in [Placeholders(p) -> U]
    BY <2>1, <2>2
  <2>. QED BY <2>2, <2>3 DEF Combos
<1>4. ASSUME NEW f \in Combos(p, Union(answers)) PROVE f \in Given(p, answers)
  <2>1. f \in [Placeholders(p) -> U]
    BY DEF Combos
  <2>2. \A v \in Placeholders(p) : Said(answers, v, f[v]) /\ Range(f[v]) \cap Unsafe = {}
    BY <1>1 DEF Combos
  <2>3. f \in [Placeholders(p) -> Spoken(answers)]
    BY <1>2, <2>1, <2>2
  <2>. QED BY <2>2, <2>3 DEF Given
<1>. QED BY <1>3, <1>4

LEMMA AllowedIsUnder ==
    ASSUME NEW p \in Patterns, NEW path \in Paths, NEW answers
    PROVE  Allowed(Expand(p, Union(answers)), path)
               <=> \E f \in Given(p, answers) : Under(path, Filled(p, f))
<1>1. ASSUME NEW f
      PROVE  Rooted(Filled(p, f)) /\ IsPrefix(normalizePrefix(Filled(p, f)), path)
                 <=> Under(path, Filled(p, f))
  <2>. DEFINE q == Filled(p, f)
  <2>1. PICK S : q \in Seq(S)
    BY FilledIsSequence
  <2>. DEFINE T == S \cup (Values \ {<<>>, Dot, DotDot})
  <2>. HIDE DEF q
  <2>2. q \in Seq(T) /\ path \in Seq(T)
    BY <2>1 DEF Paths
  <2>. HIDE DEF T
  <2>3. Under(path, q) <=> Rooted(q) /\ IsPrefix(normalizePrefix(q), path)
    BY <2>2, UnderIsPrefix
  <2>. QED BY <2>3 DEF q
<1>2. Allowed(Expand(p, Union(answers)), path)
          <=> \E f \in Combos(p, Union(answers)) :
                  Rooted(Filled(p, f)) /\ IsPrefix(normalizePrefix(Filled(p, f)), path)
  BY DEF Allowed, Expand
<1>. QED BY <1>1, <1>2, GivenIsCombos

LEMMA CoveredIsAllowed ==
    ASSUME TypeOK, NEW answers, NEW m \in Mounts
    PROVE  Canon[m] # Nil /\ Allowed(Expanded(Union(answers)), Canon[m]) <=> Covered(m, answers)
<1>1. CASE Canon[m] = Nil
  BY <1>1 DEF Covered
<1>2. CASE Canon[m] # Nil
  <2>1. Canon[m] \in Paths
    BY <1>2, CanonAssumption
  <2>2. config.allowlist \subseteq Patterns
    BY ConfigsAssumption DEF TypeOK
  <2>3. \A p \in config.allowlist :
            Allowed(Expand(p, Union(answers)), Canon[m])
                <=> \E f \in Given(p, answers) : Under(Canon[m], Filled(p, f))
    BY <2>1, <2>2, AllowedIsUnder
  <2>4. Allowed(Expanded(Union(answers)), Canon[m])
            <=> \E p \in config.allowlist : Allowed(Expand(p, Union(answers)), Canon[m])
    BY DEF Allowed, Expanded
  <2>. QED BY <1>2, <2>3, <2>4 DEF Covered
<1>. QED BY <1>1, <1>2

(* No datasource is asked for a request without an identity, which comes to the
   same as asking them all and hearing nothing. *)
LEMMA NothingHeard ==
    /\ Union(NotAsked) = NoValues
    /\ ~AdminBy(NotAsked)
<1>1. \A s \in Sources : NotAsked[s] \notin Answers
  BY AnswersAssumption DEF NotAsked
<1>. QED BY <1>1 DEF Union, NoValues, Contributions, AdminBy, Said

-----------------------------------------------------------------------------
(* What the chain has found out on its way to a rule. *)
Passed(r) ==
    /\ rule > 1 => ~AdminBy(heard["admin"])
    /\ rule > 2 /\ r.endpoint = "container_create" => r.mounts = {}
    /\ rule > 3 => r.mounts = {}
    /\ \A k \in 4..7 : rule > k => ~Concerns(Chain[k], r)

ChainInv ==
    /\ TypeOK
    /\ request = Nil => verdict = Nil /\ rule = 1 /\ heard = [l \in {"admin", "allowlist"} |-> NotAsked]
    /\ request # Nil =>
        /\ ~request.identified => heard = [l \in {"admin", "allowlist"} |-> NotAsked]
        /\ Passed(request)
    /\ SameAnswersSameVerdict

LEMMA ChainFacts ==
    /\ Len(Chain) = 7
    /\ Chain[1] = "admin" /\ Chain[2] = "mounts" /\ Chain[3] = "volume"
    /\ Chain[4] = "host_network" /\ Chain[5] = "privileged"
    /\ Chain[6] = "docker_cp" /\ Chain[7] = "docker_exec"
  BY DEF Chain

LEMMA ResolvedIsUnion ==
    ASSUME ChainInv, request # Nil, NEW l \in {"admin", "allowlist"}
    PROVE  Resolved(l) = Union(heard[l])
  BY NothingHeard DEF ChainInv, Resolved

LEMMA GateDecides ==
    ASSUME NEW r, NEW k \in 4..7, Concerns(Chain[k], r),
           \A j \in 4..7 : j < k => ~Concerns(Chain[j], r)
    PROVE  FirstGate(r) = config.checks[Chain[k]]
<1>. DEFINE met == {j \in 4..Len(Chain) : Concerns(Chain[j], r)}
<1>1. k \in met /\ \A j \in met : k <= j
  BY ChainFacts
<1>2. Min(met) = k
  BY <1>1 DEF Min
<1>. QED BY <1>1, <1>2 DEF FirstGate

LEMMA NoGateAllows ==
    ASSUME NEW r, \A k \in 4..7 : ~Concerns(Chain[k], r)
    PROVE  FirstGate(r) = "allow"
  BY ChainFacts DEF FirstGate

-----------------------------------------------------------------------------
LEMMA ChainInit == Init => ChainInv
<1>. SUFFICES ASSUME Init PROVE ChainInv
  OBVIOUS
<1>1. TypeOK
  BY DEF Init, TypeOK, Position, NotAsked, Chain
<1>. QED BY <1>1 DEF Init, ChainInv, SameAnswersSameVerdict

(* The next rule is reached by a rule that abstains. *)
LEMMA NextRuleKeeps ==
    ASSUME ChainInv, Undecided, rule <= Len(Chain), NextRule,
           rule = 1 => ~AdminBy(heard["admin"]),
           rule > 1 => ~Concerns(Chain[rule], request)
    PROVE  ChainInv'
<1>. USE DEF NextRule
<1>1. rule \in 1..7 /\ rule' = rule + 1
  BY ChainFacts DEF ChainInv, TypeOK, Position
<1>2. TypeOK'
  BY <1>1, ChainFacts DEF ChainInv, TypeOK, Position
<1>3. request # Nil /\ request \in Requests /\ verdict = Nil
  BY DEF Undecided, ChainInv, TypeOK
<1>4. \A r : \A k \in 4..7 : Concerns(Chain[k], r)' = Concerns(Chain[k], r)
  BY DEF Concerns
<1>5. Passed(request)'
  <2>1. AdminBy(heard["admin"])' = AdminBy(heard["admin"])
    BY DEF AdminBy, Said
  <2>2. rule' > 1 => ~AdminBy(heard["admin"])'
    BY <1>1, <1>3, <2>1 DEF ChainInv, Passed
  <2>3. rule' > 2 /\ request.endpoint = "container_create" => request.mounts = {}
    BY <1>1, <1>3, ChainFacts DEF ChainInv, Passed, Concerns
  <2>4. rule' > 3 => request.mounts = {}
    BY <1>1, <1>3, <2>3, ChainFacts, RequestsAssumption DEF ChainInv, Passed, Concerns
  <2>5. ASSUME NEW k \in 4..7, rule' > k PROVE ~Concerns(Chain[k], request)'
    BY <1>1, <1>3, <1>4, <2>5 DEF ChainInv, Passed
  <2>. QED BY <2>2, <2>3, <2>4, <2>5 DEF Passed
<1>. QED BY <1>2, <1>3, <1>5 DEF ChainInv, SameAnswersSameVerdict

LEMMA VerdictForKeeps ==
    ASSUME UNCHANGED <<config, request, heard>>
    PROVE  VerdictFor(request, heard["admin"], heard["allowlist"])'
               = VerdictFor(request, heard["admin"], heard["allowlist"])
<1>1. AdminBy(heard["admin"])' <=> AdminBy(heard["admin"])
  BY DEF AdminBy, Said
<1>2. ASSUME NEW m PROVE Covered(m, heard["allowlist"])' <=> Covered(m, heard["allowlist"])
  BY DEF Covered
<1>3. FirstGate(request)' = FirstGate(request)
  BY DEF FirstGate, Concerns
<1>. QED BY <1>1, <1>2, <1>3 DEF VerdictFor

(* A verdict is right. *)
LEMMA RulesKeeps ==
    ASSUME ChainInv, Undecided, NEW v \in {"allow", "deny"}, Rules(v),
           v = VerdictFor(request, heard["admin"], heard["allowlist"])
    PROVE  ChainInv'
<1>. USE DEF Rules
<1>1. TypeOK'
  BY DEF ChainInv, TypeOK
<1>2. Passed(request)' = Passed(request)
  BY DEF Passed, AdminBy, Said, Concerns
<1>3. VerdictFor(request, heard["admin"], heard["allowlist"])'
          = VerdictFor(request, heard["admin"], heard["allowlist"])
  BY VerdictForKeeps
<1>4. request # Nil
  BY DEF Undecided
<1>. QED BY <1>1, <1>2, <1>3, <1>4 DEF ChainInv, SameAnswersSameVerdict

LEMMA AbstainKeeps == ASSUME ChainInv, Abstain PROVE ChainInv'
<1>1. rule = 1 => ~AdminBy(heard["admin"])
  BY ChainFacts DEF Abstain, Concerns, AdminBy
<1>. QED BY <1>1, NextRuleKeeps DEF Abstain

LEMMA ReceiveKeeps ==
    ASSUME ChainInv, NEW r \in Requests, Receive(r) PROVE ChainInv'
<1>. USE DEF Receive
<1>1. TypeOK'
  BY DEF ChainInv, TypeOK
<1>2. Passed(request)'
  BY DEF ChainInv, Passed
<1>. QED BY <1>1, <1>2 DEF ChainInv, SameAnswersSameVerdict

LEMMA ContributeKeeps ==
    ASSUME ChainInv, NEW l \in {"admin", "allowlist"}, NEW s \in Sources, Contribute(l, s)
    PROVE  ChainInv'
<1>. USE DEF Contribute
<1>1. TypeOK'
  BY DEF ChainInv, TypeOK
<1>2. request # Nil /\ verdict = Nil
  BY DEF Looking, At, Undecided
<1>3. rule > 1 => heard'["admin"] = heard["admin"]
  <2>1. rule > 1 => l = "allowlist"
    <3>1. rule \in 1..8
      BY ChainFacts DEF ChainInv, TypeOK, Position
    <3>. QED BY <3>1, ChainFacts DEF Looking, At
  <2>2. l = "allowlist" => heard'["admin"] = heard["admin"]
    BY DEF ChainInv, TypeOK
  <2>. QED BY <2>1, <2>2
<1>4. Passed(request)'
  BY <1>2, <1>3 DEF ChainInv, Passed, AdminBy, Said, Concerns
<1>. QED BY <1>1, <1>2, <1>4 DEF ChainInv, SameAnswersSameVerdict

LEMMA AdminRuleKeeps == ASSUME ChainInv, AdminRule PROVE ChainInv'
<1>1. Undecided /\ rule = 1 /\ request # Nil
  BY ChainFacts DEF AdminRule, LookedUp, Looking, At, Undecided, ChainInv, TypeOK, Position
<1>2. IsAdmin(Resolved("admin")) <=> AdminBy(heard["admin"])
  BY <1>1, ResolvedIsUnion, AdminIsAdminBy
<1>3. CASE IsAdmin(Resolved("admin"))
  <2>1. VerdictFor(request, heard["admin"], heard["allowlist"]) = "allow"
    BY <1>2, <1>3 DEF VerdictFor
  <2>. QED BY <1>1, <1>3, <2>1, RulesKeeps DEF AdminRule
<1>4. CASE ~IsAdmin(Resolved("admin"))
  BY <1>1, <1>2, <1>4, ChainFacts, NextRuleKeeps DEF AdminRule
<1>. QED BY <1>3, <1>4

LEMMA AllowlistRuleKeeps == ASSUME ChainInv, AllowlistRule PROVE ChainInv'
<1>1. Undecided /\ rule \in {2, 3} /\ request # Nil /\ request \in Requests /\ request.mounts # {}
  BY ChainFacts
  DEF AllowlistRule, LookedUp, Looking, At, Concerns, Undecided, ChainInv, TypeOK, Position
<1>2. ~AdminBy(heard["admin"])
  BY <1>1 DEF ChainInv, Passed
<1>3. request.mounts \subseteq Mounts
  BY <1>1, RequestsAssumption
<1>4. PathsAllowed(Resolved("allowlist"))
          <=> \A m \in request.mounts : Covered(m, heard["allowlist"])
  <2>1. Resolved("allowlist") = Union(heard["allowlist"])
    BY <1>1, ResolvedIsUnion
  <2>. QED BY <1>3, <2>1, CoveredIsAllowed DEF PathsAllowed, ChainInv
<1>5. VerdictFor(request, heard["admin"], heard["allowlist"])
          = IF PathsAllowed(Resolved("allowlist")) THEN "allow" ELSE "deny"
  BY <1>1, <1>2, <1>4 DEF VerdictFor
<1>. QED BY <1>1, <1>5, RulesKeeps DEF AllowlistRule

LEMMA GateRuleKeeps ==
    ASSUME ChainInv, NEW g \in Gates, GateRule(g) PROVE ChainInv'
<1>1. Undecided /\ rule \in 4..7 /\ Chain[rule] = g /\ request # Nil
  BY ChainFacts DEF GateRule, At, Gates, Undecided, ChainInv, TypeOK, Position
<1>2. ~AdminBy(heard["admin"]) /\ request.mounts = {}
  BY <1>1 DEF ChainInv, Passed
<1>3. FirstGate(request) = config.checks[g]
  BY <1>1, GateDecides DEF GateRule, ChainInv, Passed
<1>4. VerdictFor(request, heard["admin"], heard["allowlist"]) = config.checks[g]
  BY <1>2, <1>3 DEF VerdictFor
<1>5. config.checks[g] \in {"allow", "deny"}
  BY ConfigsAssumption DEF ChainInv, TypeOK
<1>. QED BY <1>1, <1>4, <1>5, RulesKeeps DEF GateRule

LEMMA DefaultAllowKeeps == ASSUME ChainInv, DefaultAllow PROVE ChainInv'
<1>1. Undecided /\ rule = 8 /\ request # Nil
  BY ChainFacts DEF DefaultAllow, Undecided, ChainInv, TypeOK, Position
<1>2. ~AdminBy(heard["admin"]) /\ request.mounts = {}
  BY <1>1 DEF ChainInv, Passed
<1>3. FirstGate(request) = "allow"
  BY <1>1, NoGateAllows DEF ChainInv, Passed
<1>. QED BY <1>1, <1>2, <1>3, RulesKeeps DEF DefaultAllow, VerdictFor

LEMMA RespondKeeps == ASSUME ChainInv, Respond PROVE ChainInv'
<1>1. TypeOK'
  BY DEF Respond, ChainInv, TypeOK, NotAsked, Position, Chain
<1>. QED BY <1>1 DEF Respond, ChainInv, SameAnswersSameVerdict

(* Whatever a step leaves alone of the request and its answers. *)
LEMMA UnseenKeeps ==
    ASSUME ChainInv, UNCHANGED <<config, request, rule, heard, verdict>>, TypeOK'
    PROVE  ChainInv'
<1>1. Passed(request)' = Passed(request)
  BY DEF Passed, AdminBy, Said, Concerns
<1>2. SameAnswersSameVerdict' = SameAnswersSameVerdict
  BY VerdictForKeeps DEF SameAnswersSameVerdict
<1>. QED BY <1>1, <1>2 DEF ChainInv

LEMMA SourceMovesKeeps ==
    ASSUME ChainInv, NEW s \in Sources, SourceMoves(s) PROVE ChainInv'
<1>1. TypeOK'
  BY DEF SourceMoves, ChainInv, TypeOK
<1>. QED BY <1>1, UnseenKeeps DEF SourceMoves

LEMMA ChainNext == ChainInv /\ [Next]_vars => ChainInv'
<1>. SUFFICES ASSUME ChainInv, [Next]_vars PROVE ChainInv'
  OBVIOUS
<1>1. CASE UNCHANGED vars
  <2>1. TypeOK'
    BY <1>1 DEF vars, ChainInv, TypeOK
  <2>. QED BY <1>1, <2>1, UnseenKeeps DEF vars
<1>2. CASE Next
  BY <1>2, ReceiveKeeps, AbstainKeeps, ContributeKeeps, AdminRuleKeeps, AllowlistRuleKeeps,
     GateRuleKeeps, DefaultAllowKeeps, RespondKeeps, SourceMovesKeeps DEF Next
<1>. QED BY <1>1, <1>2

(* What the chain has excluded before a rule holds whenever the rule is
   reached. *)
THEOREM ChainInductive == Spec => []ChainInv
  BY ChainInit, ChainNext, PTL DEF Spec

(* The state of a request keeps its types. *)
THEOREM ChainTypeCorrect == Spec => []TypeOK
<1>1. ChainInv => TypeOK
  BY DEF ChainInv
<1>. QED BY <1>1, ChainInductive, PTL

(* The verdict depends on the request and on the answers to its lookups only
   (Chain.Evaluate with the rules' lookups in Set.Resolve). *)
THEOREM VerdictIsFunction == Spec => []SameAnswersSameVerdict
<1>1. ChainInv => SameAnswersSameVerdict
  BY DEF ChainInv
<1>. QED BY <1>1, ChainInductive, PTL

(* What is mounted was allowed to an admin or is covered by the allowlist
   (MountAllowlistRule and VolumeBindMountRule). *)
THEOREM MountsAreCovered == Spec => []AllowedMountsAreCovered
<1>1. ChainInv => AllowedMountsAreCovered
  <2>. SUFFICES ASSUME ChainInv, request # Nil, verdict = "allow", request.mounts # {},
                       ~AdminBy(heard["admin"])
                PROVE  \A m \in request.mounts : Covered(m, heard["allowlist"])
    BY DEF AllowedMountsAreCovered
  <2>1. VerdictFor(request, heard["admin"], heard["allowlist"]) = "allow"
    BY NilAssumption DEF ChainInv, SameAnswersSameVerdict
  <2>. QED BY <2>1 DEF VerdictFor
<1>. QED BY <1>1, ChainInductive, PTL

LEMMA FirstGateDenies ==
    ASSUME NEW r, FirstGate(r) = "deny"
    PROVE  \E g \in Gates : Concerns(g, r) /\ config.checks[g] = "deny"
<1>1. PICK k \in 4..7 : Concerns(Chain[k], r)
  BY NoGateAllows
<1>2. PICK j \in 4..7 : Concerns(Chain[j], r) /\ \A i \in 4..7 : i < j => ~Concerns(Chain[i], r)
  <2>1. CASE Concerns(Chain[4], r)
    BY <2>1
  <2>2. CASE ~Concerns(Chain[4], r) /\ Concerns(Chain[5], r)
    BY <2>2
  <2>3. CASE ~Concerns(Chain[4], r) /\ ~Concerns(Chain[5], r) /\ Concerns(Chain[6], r)
    BY <2>3
  <2>4. CASE ~Concerns(Chain[4], r) /\ ~Concerns(Chain[5], r) /\ ~Concerns(Chain[6], r)
    BY <1>1, <2>4
  <2>. QED BY <2>1, <2>2, <2>3, <2>4
<1>3. FirstGate(r) = config.checks[Chain[j]]
  BY <1>2, GateDecides
<1>4. Chain[j] \in Gates
  BY ChainFacts DEF Gates
<1>. QED BY <1>2, <1>3, <1>4

(* A denial comes from a path outside the allowlist or from a check that is set
   to deny, and never meets an admin. *)
THEOREM DenialsHaveReasons == Spec => []DenialsAreEarned
<1>1. ChainInv => DenialsAreEarned
  <2>. SUFFICES ASSUME ChainInv, request # Nil, verdict = "deny"
                PROVE  /\ ~AdminBy(heard["admin"])
                       /\ \/ \E m \in request.mounts : ~Covered(m, heard["allowlist"])
                          \/ \E g \in Gates : Concerns(g, request) /\ config.checks[g] = "deny"
    BY DEF DenialsAreEarned
  <2>1. VerdictFor(request, heard["admin"], heard["allowlist"]) = "deny"
    BY NilAssumption DEF ChainInv, SameAnswersSameVerdict
  <2>2. ~AdminBy(heard["admin"])
    BY <2>1 DEF VerdictFor
  <2>3. CASE request.mounts # {}
    BY <2>1, <2>2, <2>3 DEF VerdictFor
  <2>4. CASE request.mounts = {}
    <3>1. FirstGate(request) = "deny"
      BY <2>1, <2>2, <2>4 DEF VerdictFor
    <3>. QED BY <2>2, <3>1, FirstGateDenies
  <2>. QED BY <2>3, <2>4
<1>. QED BY <1>1, ChainInductive, PTL

(* Whoever is told more is told of no fewer admins and paths. *)
LEMMA SaysMore ==
    ASSUME NEW answers, NEW full,
           \A v \in Variables : \A n : Said(answers, v, n) => Said(full, v, n)
    PROVE  /\ AdminBy(answers) => AdminBy(full)
           /\ \A m : Covered(m, answers) => Covered(m, full)
<1>1. AdminBy(answers) => AdminBy(full)
  <2>1. "USER" \in Variables /\ "GROUP" \in Variables
    BY DEF Variables
  <2>. QED BY <2>1 DEF AdminBy
<1>2. ASSUME NEW p, NEW f \in Given(p, answers) PROVE f \in Given(p, full)
  <2>1. \A v \in Placeholders(p) : v \in Variables
    BY DEF Placeholders
  <2>2. \A v \in Placeholders(p) : Said(full, v, f[v]) /\ Range(f[v]) \cap Unsafe = {}
    BY <2>1 DEF Given
  <2>3. \A v \in Placeholders(p) : f[v] \in Spoken(full)
    BY <2>1, <2>2 DEF Said, Spoken
  <2>4. f \in [Placeholders(p) -> Spoken(full)]
    BY <2>3 DEF Given
  <2>. QED BY <2>2, <2>4 DEF Given
<1>3. \A m : Covered(m, answers) => Covered(m, full)
  BY <1>2 DEF Covered
<1>. QED BY <1>1, <1>3

LEMMA CompletionSaysMore ==
    ASSUME NEW answers, NEW full \in Completions(answers)
    PROVE  /\ AdminBy(answers) => AdminBy(full)
           /\ \A m : Covered(m, answers) => Covered(m, full)
<1>1. \A v, n : Said(answers, v, n) => Said(full, v, n)
  BY DEF Completions, Said
<1>. QED BY <1>1, SaysMore

(* An allowed request stays allowed when datasources answer that had failed or
   were not asked (the swallowed error in Set.Resolve). *)
THEOREM FailureIsSafe == Spec => []FailureNeverWidens
<1>1. ChainInv => FailureNeverWidens
  <2>. SUFFICES ASSUME ChainInv, request # Nil, verdict = "allow",
                       NEW admin \in Completions(heard["admin"]),
                       NEW allowlist \in Completions(heard["allowlist"])
                PROVE  VerdictFor(request, admin, allowlist) = "allow"
    BY DEF FailureNeverWidens
  <2>1. VerdictFor(request, heard["admin"], heard["allowlist"]) = "allow"
    BY NilAssumption DEF ChainInv, SameAnswersSameVerdict
  <2>2. CASE AdminBy(admin)
    BY <2>2 DEF VerdictFor
  <2>3. CASE ~AdminBy(admin) /\ request.mounts # {}
    <3>1. ~AdminBy(heard["admin"])
      BY <2>3, CompletionSaysMore
    <3>2. \A m \in request.mounts : Covered(m, heard["allowlist"])
      BY <2>1, <2>3, <3>1 DEF VerdictFor
    <3>. QED BY <2>3, <3>2, CompletionSaysMore DEF VerdictFor
  <2>4. CASE ~AdminBy(admin) /\ request.mounts = {}
    <3>1. ~AdminBy(heard["admin"])
      BY <2>4, CompletionSaysMore
    <3>. QED BY <2>1, <2>4, <3>1 DEF VerdictFor
  <2>. QED BY <2>2, <2>3, <2>4
<1>. QED BY <1>1, ChainInductive, PTL

-----------------------------------------------------------------------------
(* The two phases of the protocol. *)

LEMMA PhaseStepIsChainStep == [PhasesNext]_phaseVars => [Next]_vars
  BY DEF PhasesNext, phaseVars, handleAuthZReq, handleAuthZRes, AnswerReq, AnswerRes,
         Between, Next

(* Each phase is one evaluation of the chain, so all that is proved of a verdict
   holds in both. *)
LEMMA PhasesAreChains == PhasesSpec => Spec
  BY PhaseStepIsChainStep, PTL DEF PhasesSpec, PhasesInit, Spec

(* What dockerd executed was allowed, and the second phase is about it. *)
FirstInv ==
    first # Nil =>
        /\ first.request \in Requests
        /\ VerdictFor(first.request, first.heard["admin"], first.heard["allowlist"]) = "allow"
        /\ request # Nil => request \in {first.request, WithoutBody(first.request)}

FirstVerdict ==
    VerdictFor(first.request, first.heard["admin"], first.heard["allowlist"])

(* What the first phase was allowed on stays what it was. *)
LEMMA FirstVerdictKeeps ==
    ASSUME UNCHANGED <<config, first>>
    PROVE  FirstVerdict' = FirstVerdict
<1>1. AdminBy(first.heard["admin"])' <=> AdminBy(first.heard["admin"])
  BY DEF AdminBy
<1>2. ASSUME NEW m
      PROVE  Covered(m, first.heard["allowlist"])' <=> Covered(m, first.heard["allowlist"])
  BY DEF Covered
<1>3. FirstGate(first.request)' = FirstGate(first.request)
  BY DEF FirstGate, Concerns
<1>. QED BY <1>1, <1>2, <1>3 DEF FirstVerdict, VerdictFor

LEMMA FirstVerdictIs ==
    ASSUME UNCHANGED config, first' = [request |-> request, heard |-> heard]
    PROVE  FirstVerdict' = VerdictFor(request, heard["admin"], heard["allowlist"])
<1>0. first'.request = request /\ first'.heard = heard
  OBVIOUS
<1>1. AdminBy(first.heard["admin"])' <=> AdminBy(heard["admin"])
  BY <1>0 DEF AdminBy
<1>2. ASSUME NEW m
      PROVE  Covered(m, first.heard["allowlist"])' <=> Covered(m, heard["allowlist"])
  BY <1>0 DEF Covered
<1>3. FirstGate(first.request)' = FirstGate(request)
  BY <1>0 DEF FirstGate, Concerns
<1>. QED BY <1>0, <1>1, <1>2, <1>3 DEF FirstVerdict, VerdictFor

LEMMA ConfigStays == [Next]_vars => UNCHANGED config
  BY DEF Next, vars, Receive, Abstain, NextRule, Contribute, AdminRule, AllowlistRule,
         GateRule, DefaultAllow, Rules, Respond, SourceMoves

LEMMA FirstStays ==
    ASSUME FirstInv, UNCHANGED <<config, first>>,
           first # Nil /\ request' # Nil =>
               request' \in {first.request, WithoutBody(first.request)}
    PROVE  FirstInv'
<1>1. FirstVerdict' = FirstVerdict
  BY FirstVerdictKeeps
<1>. QED BY <1>1 DEF FirstInv, FirstVerdict, WithoutBody

LEMMA FirstNext ==
    ASSUME ChainInv, FirstInv, [PhasesNext]_phaseVars
    PROVE  FirstInv'
<1>1. UNCHANGED config
  BY PhaseStepIsChainStep, ConfigStays
<1>2. ASSUME NEW r \in Requests, handleAuthZReq(r)
      PROVE  FirstInv'
  BY <1>2 DEF handleAuthZReq, FirstInv
<1>3. ASSUME NEW r \in Requests, handleAuthZRes(r)
      PROVE  FirstInv'
  BY <1>1, <1>3, FirstStays DEF handleAuthZRes, Receive
<1>4. CASE AnswerReq
  <2>1. CASE verdict = "allow"
    <3>1. first' = [request |-> request, heard |-> heard] /\ request' = Nil
      BY <1>4, <2>1 DEF AnswerReq, Respond
    <3>2. request \in Requests
      BY <1>4, <2>1, NilAssumption DEF AnswerReq, Respond, ChainInv, TypeOK
    <3>3. VerdictFor(request, heard["admin"], heard["allowlist"]) = "allow"
      BY <2>1, <3>2, RequestsAssumption, NilAssumption DEF ChainInv, SameAnswersSameVerdict
    <3>4. FirstVerdict' = "allow"
      BY <1>1, <3>1, <3>3, FirstVerdictIs
    <3>. QED BY <3>1, <3>2, <3>4 DEF FirstInv, FirstVerdict
  <2>2. CASE verdict # "allow"
    BY <1>4, <2>2 DEF AnswerReq, FirstInv
  <2>. QED BY <2>1, <2>2
<1>5. CASE AnswerRes
  BY <1>5 DEF AnswerRes, FirstInv
<1>6. CASE Between
  <2>1. UNCHANGED <<first, request>>
    BY <1>6 DEF Between, Abstain, NextRule, Contribute, AdminRule, AllowlistRule, GateRule,
                DefaultAllow, Rules, SourceMoves
  <2>. QED BY <1>1, <2>1, FirstStays DEF FirstInv
<1>7. CASE UNCHANGED phaseVars
  BY <1>1, <1>7, FirstStays DEF phaseVars, vars, FirstInv
<1>. QED BY <1>2, <1>3, <1>4, <1>5, <1>6, <1>7 DEF PhasesNext

(* A request without its body meets no check that it did not meet with it. *)
LEMMA BodylessGate ==
    ASSUME NEW r \in Requests, r.mounts # {} \/ FirstGate(r) = "allow"
    PROVE  FirstGate(WithoutBody(r)) = "allow"
<1>. DEFINE w == WithoutBody(r)
<1>1. /\ w.endpoint = r.endpoint /\ w.mounts = {}
      /\ ~w.host_network /\ ~w.privileged
  BY RequestsAssumption DEF WithoutBody
<1>. HIDE DEF w
<1>2. /\ ~Concerns(Chain[4], w) /\ ~Concerns(Chain[5], w)
      /\ Concerns(Chain[6], w) <=> r.endpoint = "docker_cp"
      /\ Concerns(Chain[7], w) <=> r.endpoint = "docker_exec"
  BY <1>1, ChainFacts DEF Concerns
<1>3. CASE r.endpoint \in {"docker_cp", "docker_exec"}
  <2>1. r.mounts = {} /\ ~r.host_network /\ ~r.privileged
    BY <1>3, RequestsAssumption
  <2>2. \A k \in 4..7 : Concerns(Chain[k], w) <=> Concerns(Chain[k], r)
    <3>1. /\ ~Concerns(Chain[4], r) /\ ~Concerns(Chain[5], r)
          /\ Concerns(Chain[6], r) <=> r.endpoint = "docker_cp"
          /\ Concerns(Chain[7], r) <=> r.endpoint = "docker_exec"
      BY <2>1, ChainFacts DEF Concerns
    <3>. QED BY <1>2, <3>1
  <2>3. FirstGate(w) = FirstGate(r)
    BY <2>2, ChainFacts DEF FirstGate
  <2>. QED BY <2>1, <2>3 DEF w
<1>4. CASE r.endpoint \notin {"docker_cp", "docker_exec"}
  <2>1. \A k \in 4..7 : ~Concerns(Chain[k], w)
    BY <1>2, <1>4
  <2>. QED BY <2>1, NoGateAllows DEF w
<1>. QED BY <1>3, <1>4

LEMMA PhasesMustAgree ==
    ASSUME ChainInv, FirstInv
    PROVE  PhasesAgree
<1>. SUFFICES ASSUME first # Nil, request # Nil, verdict # Nil,
                     ToldAsMuch(first.heard["admin"], heard["admin"]),
                     request.mounts # {} =>
                         ToldAsMuch(first.heard["allowlist"], heard["allowlist"])
              PROVE  VerdictFor(request, heard["admin"], heard["allowlist"]) = "allow"
  BY DEF PhasesAgree, ChainInv, SameAnswersSameVerdict
<1>. DEFINE r == first.request
<1>1. /\ r \in Requests /\ request \in {r, WithoutBody(r)}
      /\ VerdictFor(r, first.heard["admin"], first.heard["allowlist"]) = "allow"
  BY DEF FirstInv
<1>. HIDE DEF r
<1>2. ASSUME NEW before, NEW now, ToldAsMuch(before, now)
      PROVE  \A v \in Variables : \A n : Said(before, v, n) => Said(now, v, n)
  BY <1>2 DEF ToldAsMuch, Said
<1>3. AdminBy(first.heard["admin"]) => AdminBy(heard["admin"])
  BY <1>2, SaysMore
<1>4. CASE AdminBy(heard["admin"])
  BY <1>4 DEF VerdictFor
<1>5. CASE ~AdminBy(heard["admin"]) /\ request.mounts # {}
  <2>1. request = r
    BY <1>1, <1>5, RequestsAssumption DEF WithoutBody
  <2>2. \A m \in r.mounts : Covered(m, first.heard["allowlist"])
    BY <1>1, <1>3, <1>5, <2>1 DEF VerdictFor
  <2>3. \A m : Covered(m, first.heard["allowlist"]) => Covered(m, heard["allowlist"])
    BY <1>2, <1>5, SaysMore
  <2>. QED BY <1>5, <2>1, <2>2, <2>3 DEF VerdictFor
<1>6. CASE ~AdminBy(heard["admin"]) /\ request.mounts = {}
  <2>1. r.mounts # {} \/ FirstGate(r) = "allow"
    BY <1>1, <1>3, <1>6 DEF VerdictFor
  <2>2. FirstGate(request) = "allow"
    BY <1>1, <1>6, <2>1, BodylessGate
  <2>. QED BY <1>6, <2>2 DEF VerdictFor
<1>. QED BY <1>4, <1>5, <1>6

(* The second phase allows what the first allowed, with or without its body,
   unless a lookup of it was told less (Handler.handleAuthZReq and
   handleAuthZRes). *)
THEOREM SecondPhaseAgrees == PhasesSpec => []PhasesAgree
<1>1. PhasesInit => FirstInv
  BY DEF PhasesInit, FirstInv
<1>2. PhasesSpec => []ChainInv
  BY PhasesAreChains, ChainInductive, PTL
<1>3. ChainInv /\ FirstInv /\ [PhasesNext]_phaseVars => FirstInv'
  BY FirstNext
<1>4. PhasesSpec => []FirstInv
  BY <1>1, <1>2, <1>3, PTL DEF PhasesSpec
<1>5. ChainInv /\ FirstInv => PhasesAgree
  BY PhasesMustAgree
<1>. QED BY <1>2, <1>4, <1>5, PTL
=============================================================================
