# A TLA+ model of authzmtls

authzmtls is a Docker authorization plugin: dockerd asks it about every API
request, and it answers allow or deny from the caller's certificate identity,
an allowlist of host paths and a few global checks. This directory models the
parts of it whose behaviour depends on what happens at the same time or in
what order, and the text functions its decisions rest on. TLC checks the models
on small instances; TLAPS proves all of the safety properties they are checked
for, and one more, for every instance.

Line numbers refer to the files under `internal/` and `cmd/` of the
repository.

## 1. The system

| Part | Code | State it keeps | Operations |
|---|---|---|---|
| Plugin protocol | `internal/dockerapi` | none | decode a request, ask the decider, write the answer |
| Server | `internal/server/server.go` | two atomic pointers: the certificate, the active state (rule chain and timeout) | `Start`, `Decide`, `getCertificate`, `Reload`, `Shutdown` |
| Process | `cmd/authzmtls/main.go` | the phase it is in: starting, serving, draining | `run` |
| Configuration | `internal/config/config.go` | the last configuration loaded; the SIGHUP channel of `Watch` | `LoadFull` (layers, environment, flags, validation), `Watch` |
| Rule chain | `internal/rules` | none between requests | seven rules in a fixed order, the first verdict wins |
| Request variables | `internal/rules/reqvars.go` | none | `$IDENTITY` from the request |
| Datasource set | `internal/datasources/provider.go` | the list of providers | `NewSet`, `Resolve` (all providers at once, union of the answers), `Flush` |
| Cache and coalescing | `internal/datasources/cache.go` | an LRU of entries, one singleflight group | `Resolve`, `refresh`, `Flush` |
| LDAP provider | `internal/datasources/ldap/ldap.go` | none of its own | `Resolve`: one user search, then one group search per account |
| LDAP pool | `internal/datasources/ldap/pool.go` | a channel of slots, each empty or with a connection | `get`, `put`, `dialAndBind` |
| LDAP text | `internal/datasources/ldap/identity.go` | none | reverse a subject DN, escape filter values |
| Metrics, telemetry, logging | `datasources/metrics.go`, `telemetry`, `logging` | counters | none that a decision reads |

How they interact. Each request runs on its own goroutine: TLS handshake
(`getCertificate`), protocol handler, `Server.Decide` (loads the active state
once and sets the decision deadline), then the chain. The admin rule and the
mount or volume rule each call `Set.Resolve`, which starts one goroutine per
datasource; each of these goes through that datasource's cache, and on a miss
through a singleflight group into the LDAP provider, whose searches share the
pool. Beside the requests there is one watcher goroutine: a SIGHUP makes it load
the configuration, build a new datasource set and chain, read the certificate,
and store both pointers. A failed reload ends the process. SIGINT or SIGTERM
starts a drain with a grace period.

What is hard about it:

- *Interleaving.* Cache lookups, flights, flushes and evictions of many
  goroutines; decisions around the two stores of a reload; live calls of an
  old datasource set that end after it was replaced.
- *Stale data.* `refresh` reads the previous entry before a live call of any
  length and acts on it afterwards. The freshness check is not repeated inside
  the flight. A request resolves its identity up to twice.
- *Half-done edits.* A load reads several files one after the other while
  someone edits them and signals.
- *Failure.* Dials, binds and searches fail, connections drop in the pool, a
  reload fails at any step, datasources fail one by one.
- *Time.* The cache's refresh interval and negative window, the decision
  deadline, a server that never answers, the grace period.
- *Bounds.* Pool slots, LRU size, one pending SIGHUP.
- *Text.* Commas that are escaped or not, versions and slashes in URIs, words
  within words, prefixes that end inside a component.

What makes each part correct:

- *Cache*: one refresh of an identity at a time; everyone gets a value of the
  identity asked about; values never go back in time, neither those given nor
  those cached; a failure is reported only if there is nothing to fall back on;
  everyone returns.
- *Pool*: no slot and no connection is lost, duplicated or shared; handing back
  never blocks; a waiter is released at the latest by its deadline.
- *LDAP provider*: a success has every search behind it; no slot is kept
  between or after searches; calls end.
- *Chain*: nothing outside the allowlist is allowed except to an admin; a
  denial has a reason; failing datasources never widen access; the verdict
  depends on the request and the answers to its lookups and on nothing else.
- *Reload*: old answers are out of use once it is over; one decision, one
  state; a failure changes nothing.
- *Configuration*: the documented precedence; policy is the union of all layers;
  no signalled edit is lost; what is in force is, in the end, what the files say.
- *Text*: RDNs move whole, a request is taken for the endpoint it names, a
  pattern reads component by component.

The hazards, each at its line with the properties aimed at it, are listed in
`PROJECT.json`.

## 2. Modules

| Module | Models | Depends on |
|---|---|---|
| `CachedProvider` | the cache and singleflight decorator | |
| `ResolverContract` | what the decorator promises its callers (abstract) | |
| `CachedProviderProofs` | theorems about `CachedProvider` | `CachedProvider` |
| `LdapPool` | the connection pool | |
| `LdapPoolProofs` | theorems about `LdapPool` | `LdapPool` |
| `LdapProvider` | `Provider.Resolve` over the pool | `LdapPool` |
| `LdapProviderProofs` | theorems about `LdapProvider` | `LdapProvider`, `LdapPoolProofs` |
| `CachedLdap` | the decorator with the LDAP provider as its live call | `CachedProvider`, `LdapProvider` |
| `CachedLdapProofs` | theorems about `CachedLdap` | `CachedLdap`, and instances of `CachedProviderProofs` and `LdapProviderProofs` |
| `RequestText` | how the rules read a URI and a decoded body | |
| `PathComponents` | `normalizePrefix` and `Allowed` on the components of a path | |
| `RuleChain` | one request through the chain and its lookups | `RequestText`, `PathComponents` |
| `AuthZPhases` | the two phases of one request, each through the chain | `RuleChain` |
| `RuleChainProofs` | theorems about `RuleChain` and `AuthZPhases` | `AuthZPhases` |
| `ServerReload` | process phases, SIGHUP, reload, handshakes, decisions | |
| `ServerReloadProofs` | theorems about `ServerReload` | `ServerReload` |
| `ConfigLoad` | layers, environment, flags, validation, the store and `Watch` | |
| `ConfigLoadProofs` | theorems about `ConfigLoad` | `ConfigLoad` |
| `AllowlistText` | `Expand`, `normalizePrefix` and `Allowed` on text | `PathComponents` |
| `SubjectDN` | `normalizeSubjectDN` | |
| `MCTexts` | the texts up to a bound | `AllowlistText`, `RequestText`, `SubjectDN` |
| `TextProofs` | theorems about options, subjects, URIs and patterns | `MCTexts` |
| the other `MC...` modules | the sets TLC is given | |

An action stands for the code between two points where another goroutine can
make a difference; the comment above it names the lines. Operators named
`...Unbuffered`, `DropSlot`, `PutTwice` and the like, introduced as *Mutant* in
their comments, are not part of any specification: each is a plausible mistake
in one operation, kept to show that a property notices it (the list `mutants`
in `PROJECT.json`).

### CachedProvider

A caller is a goroutine in `cachedProvider.Resolve`; its program counter has a
value for each point between shared accesses (the header lists them). `entry`
and `recency` are the LRU, `flight` the singleflight group: `Release` removes
the flight and hands the result to every follower in one step, because the
group does both under its mutex. The backend is a version number that grows; a
value is an identity and the version it was read at, which is all the
properties distinguish. `LiveFails` is any error of the live call, the expiry
of the leader's own context included. `latest` is a history variable.

### LdapPool and LdapProvider

`slots` is the channel, `at` a borrower's place in `get`, the search and `put`,
`status` each connection's state. A connection can drop at any time, idle or in
use. Dialing and binding are two steps: only the first has a timeout
(pool.go:99-105, 109). A search gives entries, entries cut at the size limit,
a `*goldap.Error`, or another error; only the last one makes the connection
unhealthy (`connHealthyAfterError`), and a `*goldap.Error` may come with a
connection that has just dropped, which the next `get` then notices.
`LdapProvider` adds `Resolve`: the user search, whose errors count as "no
account" (ldap.go:185-187), then one group search per account in any order (the
code takes them in the order the server returned them), whose errors are errors.
The directory may change between searches. Duplicate groups are merged by using
sets. `matched` and `told` are history variables: the accounts the user search of a
call returned, and each group search answered for it, with its groups. `SuccessIsWhole`
compares with them what a call that succeeds gives back: all of those accounts, an
answer for each, and all of those groups. `ProviderSpec` implements the pool's own specification (`PoolSpec`, an
invariant of every step and the hypothesis of everything said about the pool
alone): a call asks, searches and leaves as a borrower may.

### CachedLdap

`EnterLive` and `LeaveLive` join the two: the leader of a flight is the borrower
that runs `Resolve`. The directory gains the identity's account at version 1
and keeps it.

### RuleChain

One request at a time, since the chain keeps nothing between requests; what
runs beside it are the datasources. A request is one of either phase of the
protocol. `heard` is what each datasource answered to the first
lookup (admin) and the second (allowlist). A path component, a username and a group
name are sequences of tokens, and a pattern is the sequence of its components, in
which a placeholder may be the whole of a component or a part of it. As in the code
a pattern is filled in first (`Expand`, `Fill`) and cleaned afterwards
(`normalizePrefix` of `PathComponents`), so that a value that is empty, one dot or
two changes the prefix; then `Allowed` is the prefix relation on components.
`AllowlistText` justifies reading patterns and paths by their components.
`Canonicalize` is the constant `Canon`, from paths as requests write them to
paths on the filesystem or to an error. A source in
`HostConfig.Binds` that names a volume is a path like any other, as in the code.
`checkPathsConcurrently` stores its results by index, so its goroutines cannot
influence each other, and it is one step. The rules never return an error, so
that branch of `Decide` is unreachable in the built-in chain.

### AuthZPhases

dockerd asks twice about a request: before it executes it and after
(handler.go:86-124). The handler keeps nothing in between, so the second call goes
through the same chain with lookups of its own, perhaps without the body
(types.go:21-22), and the datasources may have moved on. `first` is what dockerd
executed, with the answers it was allowed on; it exists for the property, which is
proved for any datasources and requests and has no run.

### RequestText, AllowlistText, SubjectDN

Pure functions over sequences of tokens, each module with a property that says
what the function computes without cutting, splitting or scanning. `RequestText`
gives a method, a URI and a decoded body the shape `RuleChain` decides on; the
requests of the run `chain` are computed with it (`RequestsAreShapes`).
`AllowlistText` substitutes first and cleans afterwards, as the code does, with
`filepath.Clean` modelled by what it does to components; the property says that a
pattern allows a path exactly if its components, each filled in, then cleaned as in
`PathComponents`, begin those of the path. That holds for any values, empty ones and
dots included (proved, section 4). `SubjectDN` has commas, backslashes and two other characters,
which the code does not tell apart.

### ConfigLoad

One load is a sequence of steps, since files change while it runs: `ReadTop`,
`ReadDir` (lists the directory that `config.yaml` names), `ReadPart` for each
file listed (one that has gone by then is an error), `Finish` (defaults,
environment, flags, validation), `Keep` (the store) and `Apply` (`onReload`,
whose inside is `ServerReload`). `Watch`'s channel holds one signal. A file is
the fields it has, possibly empty, the entries of its allowlist and its
datasources. Variables and flags are texts: the empty one counts as not given for a
flag and as empty for a variable, and `0s`, for either, is a duration of zero.
`dirty` says that a file was edited after the last SIGHUP and
exists for the properties.

### ServerReload

The watcher's reload is one action per step that can fail or can be seen by
others: `Receive`, `LoadFull`, `Build` (mode check, `NewSet`,
`NewBuiltinChain`), `LoadCert`, `SwapCert`, `SwapState`, `Flush`. A request
handshakes, begins its decision, and makes any number of lookups in the
datasource set of its state: from the cache, by joining a live call, or by a
live call of its own. Each set is one cached answer that never expires, the
worst case for revocation. The content of the configuration is only whether it
is good and what fails in it; `ConfigLoad` has the rest. The server has TLS. A restart is a new behaviour
from `Init`, since nothing is persisted. `Watch` and `NotifyContext` are one
step; before it, SIGHUP and SIGTERM end the process.

## 3. What is checked

Every run is exhaustive for its bounds.

| Run | Question | Bounds | Distinct states |
|---|---|---|---|
| `cached_two_identities` | do coalescing, eviction and flushing keep identities apart, and does the decorator implement `ResolverContract`? | 3 callers, 2 identities, room for 1, 1 tick, 1 change (callers and identities symmetric) | 188,000 |
| `cached_one_identity` | do answers or entries ever go back in time; does every call return? | 3 callers, 1 identity, 2 ticks, 2 changes | 191,000 |
| `ldap_resolve` | does a call use the pool properly, so that slots and connections are conserved; are successes whole; do waiters and calls end? | 2 calls, 1 slot, 2 connections, 2 accounts, one of them with a group, or none | 307,000 |
| `cached_ldap` | does coalescing keep the pool from running dry, as long as there are no more identities than slots? | 2 callers, 1 identity, 1 slot | 129,000 |
| `chain` | are verdicts justified, and functions of request and answers, whatever the datasources do? | 2 datasources with 3 answers each or failing, 4 policies, 86 requests | 443,000 |
| `reload` | does a reload revoke; is each decision consistent; is a failure harmless? | 2 requests, 2 signals, any number of edits, 2 changes of the directory | 2,050,000 |
| `config` | what is stored; is a signalled edit lost; is a half-read edit repaired? | 4 contents of `config.yaml`, 3 of a file, 2 names, 2 directories, 4 environments with flags | 330,000 |
| `texts` | do the text functions compute what their texts say? | subjects of 7 tokens, patterns of 6, URIs of 5 after 6 beginnings, option lists of 6 | 201,000 |

Why these bounds are enough to meet the interesting cases:

- Three callers are a leader, a follower and a third that overtakes them with a
  flush in between; or two flights with a follower on one of them, which needs
  two identities. One entry of room makes every second identity evict the
  first. Two versions give an old and a new value, three also one in between.
- Two calls on one slot is the smallest pool on which one waits while the other
  fails, drops or returns, and on which holding a slot between searches would
  deadlock; one connection more than slots makes a leak visible as a second open
  connection; two accounts make two group searches, of which the first or the
  last may fail or be cut short, and one group makes it visible when its answer
  is lost. The theorems about pool and provider hold for any.
- `chain` has a user who is an admin by name and one by group, a name that is
  not usable, one of two dots and a group that is empty, a placeholder that
  occurs twice in a pattern and one that is a part of a component, a pattern
  that is relative and one with a trailing slash, a path through a link, one
  that mixes two users and one that does not exist.
- Two requests and two signals put one live call of an old set across a reload
  while another request begins after it; the second signal arrives during the
  first reload.
- `config` has files that set, empty and leave out one field, share an entry,
  redefine a datasource in place, move the directory, need one another for a
  valid pair of certificate and key, or do not parse; an environment that is
  overridden by flags, among them an empty one and a duration of `0s`, one that
  empties a field and one that does not parse.
- Six or seven tokens are enough for two separators with an escaped one between
  them, for a placeholder with components around it and a name that begins like
  it, and for two options with spaces.

### Disagreements with the documentation

Four runs check a sentence of the documentation and find behaviour that
contradicts it (the quotations are under `findings` in `PROJECT.json`):

- `cached_ldap_stale`: the README says a failed refresh keeps the last good
  value. A failed *user search* is no failure to the decorator: it comes back
  as an empty answer without an error and replaces the good value for a whole
  `cache_ttl`.
- `chain_gates`: the four checks are said to give every request the same
  answer. The mount and volume rules come first and answer with an active
  allow, so a container with one allowed mount is never checked for
  `privileged` or host networking.
- `ldap_deadline`: the decision timeout is said to limit a live call. Only
  waiting for a slot and connecting see the deadline; a bind or a search on a
  silent server lasts as long as the server likes.
- `chain_values`: dropping values with a slash is said to harden patterns against
  values that change their segments once an embedded `..` is cleaned. A value
  that is `..` has no slash: it is filled in and takes the component before it
  away, so that the prefix is a directory no pattern begins with.

Met on the way and not a run:

- An empty `listen_addr` that survives to `Validate` is said to be an invalid
  override, and `Validate` to check every fatal condition (config.go:523-526). Of
  the settings that have a default it checks the logging level and the four
  checks; an empty `AUTHZ_SERVER_LISTEN_ADDR`, `AUTHZ_SERVER_METRICS_PATH` or a
  timeout of `0s` passes (config.go:527-550).
- The README gives `AUTHZ_LISTEN_ADDR` as an example of an environment variable,
  the code reads `AUTHZ_SERVER_LISTEN_ADDR` (config.go:446).
- The comment on `Server.Reload` (server.go:225-227) says a reload swaps
  everything atomically; the code stores the certificate and then the state
  (server.go:274-280), so that a connection with the new certificate may still
  be decided by the old state. `FailureChangesNothing` excepts that moment.
- `pathSegments` is said to give non-empty segments (mounts.go:236); it keeps
  the empty ones between two slashes, and `RequestText` does too.
- `validateDatasources` looks for duplicate names, which `mergeLayer` has
  already made impossible (`ConfigTypeOK`).
- A layer in `conf.d` may set `config_dir`, to no effect; the comment at
  config.go:131-134 says it is read from the top-level file only.

### Fairness

Fairness is assumed only where something in the code or the runtime
provides it, and always weak:

- goroutines that can run do (`Step` of `CachedProvider`, `GoroutineStep` of
  `LdapProvider`, `StartWatch` and `LoadStep` of `ConfigLoad`);
- deadlines pass (`Expire`: `context.WithTimeout` in `Server.Decide`) and
  connecting ends (`Connecting`: the dialer carries a timeout).

Two assumptions are about the server and stated apart. `EveryCallReturns`
assumes that a live call ends (`WF(LiveCall)`), which for LDAP holds if the
directory server answers; `ResolveEnds` has that assumption as its hypothesis,
`ServerFairness` (binds and searches end), and `ldap_deadline` shows what happens
without it. `GetReturns`, checked in the same run with a server that may stay
silent, and `SignalledEditTakesEffect` need neither. Nothing is assumed of
clients, of who edits and signals, or of connections dropping. `ServerReload`
states no fairness: its properties are about safety.

## 4. What is proved

The theorems hold for every value of the constants allowed by the named
assumptions in the modules: positive TTLs, cache size and pool size, a `Nil`
distinct from the values it stands beside, file names in a sequence, decoded
files whose lists are sequences and whose datasources have the three fields,
pairs of environment and flags, requests shaped as the rules read them, tokens that
are not placeholders, canonical paths, and natural-number bounds on clock, versions
and signals (any bounds; the directory of `CachedLdap` changes once). The sets of
callers, identities, borrowers, connections, accounts, groups, datasources, paths,
policies and requests are arbitrary, also infinite.

**`CachedProviderProofs`** - `TypeCorrect`, `Inductive`, and from them
`OneRefresh`, `OwnIdentity`, `UnresolvedIsHonest`, `NeverGoBack`, `ValueYields`
and `ImplementsContract` (`CachedProvider` implements `ResolverContract`). The
invariant `IndInv` has four parts besides types. `FlightInv`: whoever is in a
flight is its registered leader. `OwnerInv`: values are carried under the
identity they were read for. `VersionInv`: nothing is newer than the directory.
`OrderInv` is the one that took thought: what can still be served (entry, prev,
answer, outcome) is no older than what was served, and *during a live call the
entry can only stay what prev was or be dropped*. That is why acting on a stale
`prev` is harmless, and it rests on `FlightInv`: only the leader of an
identity's flight writes its entry. The contract's steps are found action by
action: `Release` is one `Answer` or `GiveNothing` for leader and followers,
most others are stutters. `WhateverTheProvider` keeps what does not depend on
the live call: in `AnyProviderSpec` it may answer anything about the identity it
is asked for, read at any time, or fail, and coalescing, the separation of
identities and the fallback still hold.

**`LdapPoolProofs`** - `PoolInductive`, and from it `PoolConserves`,
`PoolNeverBlocks`, `PoolExclusive`, `PoolLeaksNothing`, `PoolBounded`. The
properties need one another: that `put` has room follows from counting the
holders, that a connection is not shared needs that a slot never refers to a
connection that is with a borrower, and the bound on open connections comes from
an injection of open connections into slots and holders.

**`LdapProviderProofs`** - `ProviderUsesPool` (every behaviour of `ProviderSpec`
is one of `PoolSpec`), so that the theorems on the pool hold of the pool under
the provider; `ProviderInductive`, and from it `ProviderTypeCorrect`,
`SuccessesAreWhole` and `SlotsAreForSearches`. The strengthening `StageInv` ties
each stage of a call to the places it may have in the pool: that a call which is
over has left the pool is what makes an early return that forgets `put`
impossible. It also says which part of the answer a call has in each stage: the
accounts matched are those already answered for, those left and, until its answer
has come, the one being searched; the groups collected, with those of an answer not
yet used (`Unused`), are all that were told.

**`CachedLdapProofs`** - the composition, from the theorems about its parts: the
proof modules of both are instantiated, and every behaviour of the whole is one of
`AnyProviderSpec` of the decorator (`BehindTheCache`) and one of `ProviderSpec` of
the provider (`BesideThePool`), so that both keep their promises together
(`DecoratorKeeps`, `ProviderKeeps`). The live call of the whole lasts, so its
answer may be older than the directory when it is stored: that is why the
decorator is compared with `AnyProviderSpec` and not with `CachedProvider!Spec`.
`CoalescingIsEnough` is about both at once. `LinkInv` says that a caller is inside
`Resolve` on one side exactly if it is on the other, and that finitely many are;
then leaders are as many as the identities refreshed, because a flight has one
leader, and if one waits for an empty pool, it and the holders of all the slots
are more leaders than slots.

**`RuleChainProofs`** - `ChainInductive`, and from it `ChainTypeCorrect`,
`VerdictIsFunction` (`SameAnswersSameVerdict`), and from that alone
`MountsAreCovered`, `DenialsHaveReasons` and `FailureIsSafe`. `ChainInv` says
what each position of the chain has excluded (`Passed`): past the admin rule
nobody is an admin by the answers given to it, past the volume rule the request
names no path, past a check the request does not concern it. The lemma
`CoveredIsAllowed` relates the code's expansion, cleaning and comparison to the
reading of the documentation (`Covered`, `Under`): a pattern that is written as a
canonical path is, once filled in (`InPlace`), covers what begins with its
components, because cleaning leaves it as it is (`InPlaceCleans`); one with empty or
dot components covers what is below the directory it leads to. `NothingHeard` makes
a request without an identity a case of the same lemmas.
`SecondPhaseAgrees` (`PhasesAgree` of `AuthZPhases`) says that the second phase
allows what the first allowed unless one of its lookups was told less: both phases
are behaviours of the chain (`PhasesAreChains`), so each verdict is the function of
`VerdictIsFunction`, which being told more never turns from allow to deny
(`PhasesMustAgree`); a request without its body can only meet the checks that do
not look into it, and those were met in the first phase too (`BodylessGate`).

**`ServerReloadProofs`** - `ReloadInductive`, and from it `ReloadTypeCorrect`,
`ReloadIsLever` (`ReloadRevokes`), `DecisionsAreConsistent`, `FailureIsHarmless`.
The argument for the emergency lever: a set becomes active before any decision
can look something up in it, so all it ever holds was read after the reload
that built it began; older sets are only reached by older decisions. It does
not depend on `Flush` (server.go:283), which finds the new set's cache with
fresh entries at most: it is building a *new set* that revokes. Keeping the set
and flushing it would not do, because a live call under way would put an old
answer back (the mutant `SwapStateKeepingSet`).

**`ConfigLoadProofs`** - `StoredPrecedence` (`PrecedenceHolds`) and
`SignalledIsInForce` (`SettledIsCurrent`), for any contents and names of the
files, any directories, and any number of edits, signals and loads. `PrecInv`
says that the load under way has the last setting read of each field, and needs
that files still to read come after those read: `ReadPart` takes the least
position left (`Least`), so that the layer it reads has the last word
(`NextLayer`). `SettledInv` says of a load that nobody has disturbed since the
last signal that what it has read, with the rest of its listing, is what the
files say; a signal during a load leaves `pending` set, and an edit leaves
`dirty` set, so a disturbed load promises nothing and another one follows.
`StoredPolicy` (`PolicyIsUnion`) and `ConfigTypeCorrect` (`ConfigTypeOK`) are
about the lists, which the code merges by loops: the load under way has united
the layers read so far (`Gathered`), and merging one more keeps that
(`MergeGathered`). What a loop has done after k entries (`UnionFacts`,
`MergeSourcesFacts`) is shown by taking the least k after which it would not
have.

**`TextProofs`** - for texts of any length over any tokens: `EveryOptionRead`
(`HasBindOption` is true exactly if "bind" stands as an option of its own),
`EverySubjectMovesWhole` (`normalizeSubjectDN` moves every RDN as one unit),
`EveryURINamesEndpoint` (a request is taken for the endpoint its path names and
for no other) and `EveryPatternReads` (a pattern reads component by component),
and from them the properties of the run `texts` (`OptionsFound`, `SubjectsMove`,
`URIsNamed`, `PatternsRead`).
`strings.Split` and `splitOnUnescapedCommas` are related to the text in the same
way, by `Cuts`: positions 0 = e[0] < e[1] < ... < e[n], one past the end of the text,
which are all the separators there are, with part i between e[i - 1] and e[i]
(`SplitCuts`, `SubjectCuts`). For the scan this needs that its flag says
whether the backslashes before a place are odd in number (`EscapedNext`). Joining
the parts the other way around mirrors the cuts (`JoinMirrors`). Of a URI, what
is left without its query and outer slashes is the one stretch that
`PathStands` allows (`PathLeft`). `isVersionSegment`, which splits at dots, agrees with
`IsVersion`, which does not (`VersionRead`); as no slash can stand in a version,
one in front ends at the first cut (`VersionFirst`). That the segments are
certain words is then a matter of where the next cuts lie (`TwoSegments`,
`ThreeSegments`, `SegmentsRead`).
`EveryPatternReads` rests on two things. The first is that a slash cuts
everything: splitting a text (`ComponentsJoin`), finding its placeholders
(`PlaceholdersBefore`, `PlaceholdersAfter`), filling them in (`SubstituteJoin`)
and putting components together (`WithSlashesNext`) each work on the two sides of
a slash apart, because neither a name nor a usable value has a slash in it. So the
components of an expanded pattern are those of the pattern, each filled in
(`ComponentsSubstitute`), whatever the values are. The second is that cleaning
reads nothing but components: whether a text is absolute is whether its first
component is empty (`RootedByComponents`), and the fold over a text's components is
the recursive function of `PathComponents` (`CleanByComponents`). Last, `AllowsByComponent`: of two cleaned absolute paths one
begins the other up to a slash exactly if its components begin the other's, since
splitting gives the components back (`ComponentsOfSlashed`), and a cleaned
relative pattern does not begin with a slash. `CleanIsCanonical` says that
what cleaning gives is left alone by cleaning again, so that the hypothesis on
the path holds of every path that has been cleaned.

Only model-checked: everything about liveness, since temporal properties under
fairness are out of reach of the prover; and the four runs that expect a
violation, which are about one instance. Every invariant of a passing run is
stated by a theorem. The library's induction theorems cannot be used
with these provers, as they take an operator as a parameter; where a proof needs
induction (folds and recursive functions), it argues by a least counterexample
instead.

## 5. Not modelled

- JSON and YAML decoding, symbolic links and the rest of `Canonicalize`, the
  escaping and compiling of LDAP filters, control characters and other unsafe
  values (a name is in the set `Unsafe` or is not). These are the work of
  libraries or of the filesystem and enter as constants, or as fields of a
  decoded record.
- Plain-HTTP mode, HTTP timeouts and connection handling beyond kept-alive
  connections; `New`'s argument checks.
- Durations: deadlines pass or do not; the dialer's default timeout of a minute
  after an expired context (pool.go:99-104) is merely "connecting ends".
- Connections of replaced datasource sets, which nothing closes, and the serve
  goroutine's error, which nothing reads (main.go:109).
- The factory registry of the datasources and `NewSet`: start-up code, which
  appears as a reload that may fail (`Build`).
- Messages, logging, metrics, telemetry, deployment: no decision reads them.

## 6. Plan

Done: `CachedProvider` with `ResolverContract`, `LdapPool`, `LdapProvider`,
`CachedLdap`, `PathComponents`, `RuleChain`, `AuthZPhases`, `ServerReload`, `ConfigLoad`, the text modules; proofs
about all of these.

Left, in order of importance:

1. `DatasourceSet`: several decorators under one `Set.Resolve`, with the flush of
   all of them one after the other.
2. `ConfigLoad` and `ServerReload` composed, so that what a decision uses is
   related to the files and not only to the number of a reload.
