----------------------------- MODULE RuleChain ------------------------------
(***************************************************************************)
(* internal/rules: one request through the built-in chain of decision.go,  *)
(* with the rules of admin.go and mounts.go and the datasource lookups     *)
(* (provider.go, Set.Resolve) that two of them make.                       *)
(*                                                                         *)
(* The chain itself keeps nothing between requests and the rules of one    *)
(* request run in order.  What is concurrent is the datasources: a lookup  *)
(* asks all of them at once, each answers when it can, what they know      *)
(* changes meanwhile, and a request makes up to two lookups, one for the   *)
(* admin rule and one for the allowlist.                                   *)
(*                                                                         *)
(* A path component, a username and a group name are sequences of tokens.  *)
(* A pattern is the sequence of its components (PathComponents), which may *)
(* hold placeholders; the path a request asks for is in the form that      *)
(* Canonicalize gives it.  A request is what the chain sees of it: an      *)
(* endpoint, and the fields of its body, all absent when the body does not *)
(* decode.                                                                 *)
(***************************************************************************)
EXTENDS RequestText, PathComponents

CONSTANTS
    Sources,  \* the configured datasources
    Names,    \* what path components, usernames and group names are made of,
              \* besides the dot
    Unsafe,   \* those isSafeVarValue rejects: the control characters, and the
              \* slash, which occurs in values only
    Answers,  \* what a datasource may answer for the identity of a request
    Mounts,   \* host paths as requests write them
    Canon,    \* what each of them is on the filesystem: a path, or Nil when
              \* Canonicalize gives an error
    Configs,  \* admin_users, admin_groups, allowlist and the four checks
    Requests, \* as RequestText shapes them; Nil is no request, or a
              \* datasource that fails
    Pending   \* a datasource that was not asked, or has not answered yet

Variables == {"USER", "GROUP"}

Gates == {"host_network", "privileged", "docker_cp", "docker_exec"}

Tokens == Names \cup {"."}

Values == Seq(Tokens)

Paths == Seq(Values \ {<<>>, Dot, DotDot})

Patterns == Seq(Seq(Tokens \cup Variables))

ASSUME NamesAssumption == Tokens \cap Variables = {} /\ Unsafe \subseteq Names

ASSUME AnswersAssumption ==
    /\ Answers \subseteq [Variables -> SUBSET Values]
    /\ {Nil, Pending} \cap Answers = {}
    /\ Nil # Pending

ASSUME CanonAssumption ==
    /\ DOMAIN Canon = Mounts
    /\ \A m \in Mounts : Canon[m] = Nil \/ Canon[m] \in Paths
    /\ Nil \notin Paths

ASSUME ConfigsAssumption ==
    \A c \in Configs :
        /\ DOMAIN c = {"admin_users", "admin_groups", "allowlist", "checks"}
        /\ c.admin_users \subseteq Values
        /\ c.admin_groups \subseteq Values
        /\ c.allowlist \subseteq Patterns
        /\ c.checks \in [Gates -> {"allow", "deny"}]

Endpoints == {"container_create", "volume_create", "docker_cp", "docker_exec", "other"}

ASSUME NilAssumption == Nil \notin {"allow", "deny"}

(* Only a container-create names several mounts or sets the two flags; the
   one mount of a volume-create is the device of a local bind. *)
ASSUME RequestsAssumption ==
    /\ Nil \notin Requests
    /\ \A r \in Requests :
        /\ DOMAIN r = {"identified", "endpoint", "mounts", "host_network", "privileged"}
        /\ {r.identified, r.host_network, r.privileged} \subseteq BOOLEAN
        /\ r.endpoint \in Endpoints
        /\ r.mounts \subseteq Mounts
        /\ r.endpoint \notin {"container_create", "volume_create"} => r.mounts = {}
        /\ r.endpoint # "container_create" => ~r.host_network /\ ~r.privileged
        /\ r.endpoint = "volume_create" => \A m, n \in r.mounts : m = n

(* RequestBody is absent from the call of the response phase (dockerapi/types.go,
   lines 21-22), which carries the other fields. *)
WithoutBody(r) == [r EXCEPT !.mounts = {}, !.host_network = FALSE, !.privileged = FALSE]

ASSUME BodylessAssumption == \A r \in Requests : WithoutBody(r) \in Requests

VARIABLES
    config,   \* the configuration the chain was built from
    known,    \* what each datasource would answer now
    request,  \* the request being decided, or Nil
    rule,     \* the position in the chain
    heard,    \* the answers of each datasource to the two lookups
    verdict   \* Nil until the chain has decided

vars == <<config, known, request, rule, heard, verdict>>

-----------------------------------------------------------------------------
(* Expand: every combination of usable values, the same value for every
   occurrence of a placeholder; none at all if a placeholder has no value. *)
Placeholders(p) == {v \in Variables : \E c \in Range(p) : v \in Range(c)}

Usable(resolved, v) == {n \in resolved[v] : Range(n) \cap Unsafe = {}}

Combos(p, resolved) ==
    {f \in [Placeholders(p) -> UNION {Usable(resolved, v) : v \in Placeholders(p)}] :
        \A v \in Placeholders(p) : f[v] \in Usable(resolved, v)}

(* substitute. *)
Fill(c, f) == FlattenSeq([i \in DOMAIN c |-> IF c[i] \in Variables THEN f[c[i]] ELSE <<c[i]>>])

Filled(p, f) == [k \in DOMAIN p |-> Fill(p[k], f)]

(* Mutant: each component takes values of its own. *)
ExpandEachOccurrence(p, resolved) ==
    {[k \in DOMAIN p |-> Fill(p[k], g[k])] : g \in [DOMAIN p -> Combos(p, resolved)]}

Expand(p, resolved) == {Filled(p, f) : f \in Combos(p, resolved)}

(* Set.Resolve: the union of what the datasources contributed. *)
NoValues == [v \in Variables |-> {}]

Contributions(answers) == {answers[s] : s \in Sources} \cap Answers

Union(answers) == [v \in Variables |-> UNION {a[v] : a \in Contributions(answers)}]

-----------------------------------------------------------------------------
(* NewBuiltinChain. *)
Chain == <<"admin", "mounts", "volume",
           "host_network", "privileged", "docker_cp", "docker_exec">>

(* Each rule's own condition for not abstaining.  The admin rule still
   abstains after its lookup when nothing matches. *)
Concerns(name, r) ==
    CASE name = "admin"        -> config.admin_users \cup config.admin_groups # {}
      [] name = "mounts"       -> r.endpoint = "container_create" /\ r.mounts # {}
      [] name = "volume"       -> r.endpoint = "volume_create" /\ r.mounts # {}
      [] name = "host_network" -> r.host_network
      [] name = "privileged"   -> r.privileged
      [] OTHER                 -> r.endpoint = name

NotAsked == [s \in Sources |-> Pending]

Init ==
    /\ config \in Configs
    /\ known \in [Sources -> Answers \cup {Nil}]
    /\ request = Nil
    /\ rule = 1
    /\ heard = [l \in {"admin", "allowlist"} |-> NotAsked]
    /\ verdict = Nil

(* A request that the handler decoded reaches Decide: in either phase of the
   protocol, AuthZReq before dockerd acts on it and AuthZRes after. *)
Receive(r) ==
    /\ request = Nil
    /\ request' = r
    /\ UNCHANGED <<config, known, rule, heard, verdict>>

Undecided == request # Nil /\ verdict = Nil

At(name) == Undecided /\ rule <= Len(Chain) /\ Chain[rule] = name

NextRule ==
    /\ rule' = rule + 1
    /\ UNCHANGED <<config, known, request, heard, verdict>>

(* The first verdict other than abstain ends Chain.Evaluate. *)
Rules(v) ==
    /\ verdict' = v
    /\ UNCHANGED <<config, known, request, rule, heard>>

Abstain ==
    /\ Undecided
    /\ rule <= Len(Chain)
    /\ ~Concerns(Chain[rule], request)
    /\ NextRule

(* The lookup a rule is making: the mount and the volume rule make the same. *)
Looking(l) ==
    \/ l = "admin" /\ At("admin") /\ Concerns("admin", request)
    \/ l = "allowlist" /\ At("mounts") /\ Concerns("mounts", request)
    \/ l = "allowlist" /\ At("volume") /\ Concerns("volume", request)

(* Mutant: sanitize lets an empty identity through. *)
ContributeToAnyone(l, s) ==
    /\ Looking(l)
    /\ heard[l][s] = Pending
    /\ heard' = [heard EXCEPT ![l][s] = known[s]]
    /\ UNCHANGED <<config, known, request, rule, verdict>>

(* Set.Resolve, lines 140-163: the goroutine of one datasource ends, with an
   answer or with an error that is swallowed.  sanitize keeps a request
   without a usable identity from all of them. *)
Contribute(l, s) ==
    /\ Looking(l)
    /\ request.identified
    /\ heard[l][s] = Pending
    /\ heard' = [heard EXCEPT ![l][s] = known[s]]
    /\ UNCHANGED <<config, known, request, rule, verdict>>

(* g.Wait: every datasource is done, and its rule uses the union. *)
LookedUp(l) ==
    /\ Looking(l)
    /\ request.identified => \A s \in Sources : heard[l][s] # Pending

Resolved(l) == IF request.identified THEN Union(heard[l]) ELSE NoValues

(* Mutant: a group of the list is not enough. *)
IsAdminByBoth(resolved) ==
    /\ resolved["USER"] \cap config.admin_users # {}
    /\ resolved["GROUP"] \cap config.admin_groups # {}

IsAdmin(resolved) ==
    \/ resolved["USER"] \cap config.admin_users # {}
    \/ resolved["GROUP"] \cap config.admin_groups # {}

(* AdminRule.Evaluate, after resolveVars. *)
AdminRule ==
    /\ LookedUp("admin")
    /\ IF IsAdmin(Resolved("admin")) THEN Rules("allow") ELSE NextRule

Expanded(resolved) == UNION {Expand(p, resolved) : p \in config.allowlist}

PathsAllowed(resolved) ==
    \A m \in request.mounts : Canon[m] # Nil /\ Allowed(Expanded(resolved), Canon[m])

(* Mutant: a lookup that gave nothing leaves the decision to the next rules. *)
AllowlistRuleFailsOpen ==
    /\ LookedUp("allowlist")
    /\ IF Contributions(heard["allowlist"]) = {} THEN NextRule
       ELSE Rules(IF PathsAllowed(Resolved("allowlist")) THEN "allow" ELSE "deny")

(* MountAllowlistRule.Evaluate and VolumeBindMountRule.Evaluate, after the
   lookup. *)
AllowlistRule ==
    /\ LookedUp("allowlist")
    /\ Rules(IF PathsAllowed(Resolved("allowlist")) THEN "allow" ELSE "deny")

(* The four checks. *)
GateRule(g) ==
    /\ At(g)
    /\ Concerns(g, request)
    /\ Rules(config.checks[g])

(* Mutant: an all-abstain result is passed on as it is. *)
DefaultUndecided ==
    /\ Undecided
    /\ rule > Len(Chain)
    /\ Rules("abstain")

(* Chain.Decide: an all-abstain result is an allow. *)
DefaultAllow ==
    /\ Undecided
    /\ rule > Len(Chain)
    /\ Rules("allow")

(* The answer is written; the next request may come. *)
Respond ==
    /\ verdict # Nil
    /\ request' = Nil
    /\ rule' = 1
    /\ heard' = [l \in {"admin", "allowlist"} |-> NotAsked]
    /\ verdict' = Nil
    /\ UNCHANGED <<config, known>>

(* A datasource learns, forgets, fails or recovers. *)
SourceMoves(s) ==
    /\ \E a \in (Answers \cup {Nil}) \ {known[s]} : known' = [known EXCEPT ![s] = a]
    /\ UNCHANGED <<config, request, rule, heard, verdict>>

Next ==
    \/ \E r \in Requests : Receive(r)
    \/ Abstain
    \/ \E l \in {"admin", "allowlist"}, s \in Sources : Contribute(l, s)
    \/ AdminRule
    \/ AllowlistRule
    \/ \E g \in Gates : GateRule(g)
    \/ DefaultAllow
    \/ Respond
    \/ \E s \in Sources : SourceMoves(s)

Spec == Init /\ [][Next]_vars

-----------------------------------------------------------------------------
(* Properties.  They are stated from the answers the datasources gave and from
   the patterns filled in with them, without the rules of the chain. *)

Position == 1..(Len(Chain) + 1)

TypeOK ==
    /\ config \in Configs
    /\ known \in [Sources -> Answers \cup {Nil}]
    /\ request \in Requests \cup {Nil}
    /\ rule \in Position
    /\ heard \in [{"admin", "allowlist"} -> [Sources -> Answers \cup {Nil, Pending}]]
    /\ verdict \in {Nil, "allow", "deny"}

Said(answers, v, n) == \E s \in Sources : answers[s] \in Answers /\ n \in answers[s][v]

AdminBy(answers) ==
    \/ \E n \in config.admin_users : Said(answers, "USER", n)
    \/ \E n \in config.admin_groups : Said(answers, "GROUP", n)

(* Everything a request was told, and the ways to fill a pattern in with it. *)
Spoken(answers) ==
    UNION {answers[s][v] : s \in {t \in Sources : answers[t] \in Answers}, v \in Variables}

Given(p, answers) ==
    {f \in [Placeholders(p) -> Spoken(answers)] :
        \A v \in Placeholders(p) : Said(answers, v, f[v]) /\ Range(f[v]) \cap Unsafe = {}}

(* An absolute pattern that is written as a canonical path is. *)
InPlace(q) == Rooted(q) /\ \A k \in 2..Len(q) : q[k] \notin {<<>>, Dot, DotDot}

(* A pattern in place covers the paths that begin with its components; one with
   empty or dot components, of its own or from a value, those below the
   directory it leads to. *)
Under(path, q) ==
    \/ /\ InPlace(q)
       /\ Len(q) <= Len(path) + 1
       /\ \A k \in 2..Len(q) : path[k - 1] = q[k]
    \/ ~InPlace(q) /\ Rooted(q) /\ IsPrefix(normalizePrefix(q), path)

(* The allowlist as README.md describes it: the path, or a directory above it,
   is a pattern with its placeholders replaced. *)
Covered(m, answers) ==
    /\ Canon[m] # Nil
    /\ \E p \in config.allowlist : \E f \in Given(p, answers) : Under(Canon[m], Filled(p, f))

(* What is mounted was allowed: a request that names host paths is let through
   only for an admin, or when every one of them is in the allowlist for the
   answers given to this request, whatever its other fields are, however many
   datasources failed, and whatever they know by now (mounts.go:304-323,
   404-424, decision.go:172-183). *)
AllowedMountsAreCovered ==
    request # Nil /\ verdict = "allow" /\ request.mounts # {} =>
        \/ AdminBy(heard["admin"])
        \/ \A m \in request.mounts : Covered(m, heard["allowlist"])

(* A denial has a reason in the configuration and the answers given: the
   caller is not an admin (admin.go: every command of an admin is allowed), and
   a path is outside the allowlist or a check the request runs into is set to
   deny. *)
DenialsAreEarned ==
    request # Nil /\ verdict = "deny" =>
        /\ ~AdminBy(heard["admin"])
        /\ \/ \E m \in request.mounts : ~Covered(m, heard["allowlist"])
           \/ \E g \in Gates : Concerns(g, request) /\ config.checks[g] = "deny"

(* The verdict for given answers to the two lookups. *)
FirstGate(r) ==
    LET met == {k \in 4..Len(Chain) : Concerns(Chain[k], r)}
    IN  IF met = {} THEN "allow" ELSE config.checks[Chain[Min(met)]]

VerdictFor(r, admin, allowlist) ==
    CASE AdminBy(admin) -> "allow"
      [] ~AdminBy(admin) /\ r.mounts # {} ->
            IF \A m \in r.mounts : Covered(m, allowlist) THEN "allow" ELSE "deny"
      [] OTHER -> FirstGate(r)

(* What the datasources that gave an answer said, completed by anything the
   others might have said. *)
Completions(answers) ==
    {full \in [Sources -> Answers] :
        \A s \in Sources : answers[s] \in Answers => full[s] = answers[s]}

(* A datasource that fails, is slow or is never asked can only make a request
   be denied: one that is allowed stays allowed with any answer in the place of
   the missing ones (the comment on resolveMatcher, mounts.go:366-373, and on
   Set.Resolve, provider.go:131-135). *)
FailureNeverWidens ==
    request # Nil /\ verdict = "allow" =>
        \A admin \in Completions(heard["admin"]) :
            \A allowlist \in Completions(heard["allowlist"]) :
                VerdictFor(request, admin, allowlist) = "allow"

(* The verdict is a function of the request and of what the datasources said to
   its lookups: neither the order in which they answered nor what they know by
   now matters otherwise, and a request without an identity, for which no
   datasource is heard, is decided like one about which none knows anything
   (provider.go:140-144, decision.go:172-183). *)
SameAnswersSameVerdict ==
    request # Nil /\ verdict # Nil =>
        verdict = VerdictFor(request, heard["admin"], heard["allowlist"])

(* decision.go:237-240: each of the four checks gives every request the same
   answer, per its setting. *)
ClosedGateHolds ==
    request # Nil /\ verdict = "allow" /\ ~AdminBy(heard["admin"]) =>
        \A g \in Gates : Concerns(g, request) => config.checks[g] = "allow"

(* The part of an absolute pattern before its first placeholder is a directory
   above the path. *)
StartsLike(path, p) ==
    LET Open == {k \in DOMAIN p : Range(p[k]) \cap Variables # {}}
        fixed == SubSeq(p, 1, Min(Open \cup {Len(p) + 1}) - 1)
    IN  p[1] = <<>> /\ IsPrefix(normalizePrefix(fixed), path)

(* mounts.go:481-485: Expand drops a value with a slash as a hardening against
   values that would change a pattern's segments once Clean collapses a "..".
   So what a request mounts begins like a pattern of the allowlist, whatever
   values its placeholders have. *)
ValuesStayInPlace ==
    request # Nil /\ verdict = "allow" /\ ~AdminBy(heard["admin"]) =>
        \A m \in request.mounts : \E p \in config.allowlist : StartsLike(Canon[m], p)
=============================================================================
