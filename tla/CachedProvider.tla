--------------------------- MODULE CachedProvider ---------------------------
(***************************************************************************)
(* internal/datasources/cache.go: the cache and singleflight decorator     *)
(* around one live Provider.                                               *)
(*                                                                         *)
(* A caller is one goroutine inside cachedProvider.Resolve.  Its program   *)
(* counter separates the steps between which another goroutine can run:    *)
(*   idle      -> not in Resolve                                           *)
(*   lookup    -> before the first cache.Get (line 134)                    *)
(*   missed    -> past the miss, before group.Do (line 145)                *)
(*   waiting   -> joined another caller's flight inside group.Do           *)
(*   leading   -> runs refresh, before its own cache.Get (line 163)        *)
(*   live      -> inside provider.Resolve (line 164)                       *)
(*   answered  -> the live call is back, nothing stored yet                *)
(*   published -> refresh is done, the flight is not yet released          *)
(*   done      -> has its outcome, about to return                         *)
(*                                                                         *)
(* The directory behind the provider is a version number.  A value is the  *)
(* identity it was resolved for and the version it was read from, which is *)
(* all the properties tell apart.  Nil stands for the nil map next to      *)
(* errUnresolved, for an entry without a value, and for an empty flight.   *)
(***************************************************************************)
EXTENDS Integers, Sequences, SequencesExt

CONSTANTS
    Callers,     \* goroutines that may be inside Resolve at once
    Identities,  \* the non-empty values of vars[identityVar]
    CacheTTL,    \* the refresh interval
    NegTTL,      \* defaultNegativeCacheTTL
    CacheSize,   \* defaultCacheSize
    MaxClock,    \* bound of the model: the clock stops here
    MaxVersion,  \* bound of the model: the directory stops changing here
    Nil

Value == [of : Identities, version : Nat]

ASSUME TimeAssumption ==
    CacheTTL \in Nat \ {0} /\ NegTTL \in Nat \ {0} /\ CacheSize \in Nat \ {0}

ASSUME NilAssumption == Nil \notin Value /\ Nil \notin Callers

ASSUME BoundAssumption == MaxClock \in Nat /\ MaxVersion \in Nat

VARIABLES
    clock,    \* c.now()
    version,  \* the version the directory is at
    entry,    \* cacheEntry of each identity, Absent when the LRU has none
    recency,  \* the LRU's keys, most recently used first
    flight,   \* singleflight.Group: the leader of each identity's flight
    pc,       \* where each caller is
    want,     \* the identity each caller resolves
    prev,     \* refresh's prev, of each leader
    answer,   \* what the live call gave each leader: a value, or Nil for an error
    outcome,  \* what Resolve returns to each caller
    latest    \* history: the version of the last value any caller was given

cacheVars == <<entry, recency>>
callVars == <<flight, pc, want, prev, answer, outcome>>
vars == <<clock, version, entry, recency, flight, pc, want, prev, answer,
          outcome, latest>>

-----------------------------------------------------------------------------
(* cacheEntry *)

Entry == [value : Value \cup {Nil}, fetchedAt : Nat, negUntil : Nat]

(* A missing entry answers like the zero entry: servedFresh serves neither,
   and refresh treats prev = nil like an entry without a value. *)
Absent == [value |-> Nil, fetchedAt |-> 0, negUntil |-> 0]

HasValue(e) == e.value # Nil

FreshValue(e) == HasValue(e) /\ clock - e.fetchedAt < CacheTTL

FreshNegative(e) == ~HasValue(e) /\ e.negUntil # 0 /\ clock < e.negUntil

ServedFresh(e) == FreshValue(e) \/ FreshNegative(e)

(* expirable.LRU: Get refreshes the key's recency, Add evicts the least
   recently used key beyond CacheSize, Purge drops every entry. *)
Without(s, i) ==
    IF \E k \in 1..Len(s) : s[k] = i
    THEN LET k == CHOOSE k \in 1..Len(s) : s[k] = i
         IN  SubSeq(s, 1, k - 1) \o SubSeq(s, k + 1, Len(s))
    ELSE s

Cached(i) == entry[i] # Absent

CacheGet(i) ==
    recency' = IF Cached(i) THEN <<i>> \o Without(recency, i) ELSE recency

CacheAdd(i, e) ==
    LET order == <<i>> \o Without(recency, i)
        kept  == IF Len(order) > CacheSize THEN SubSeq(order, 1, CacheSize)
                                           ELSE order
    IN  /\ recency' = kept
        /\ entry' = [j \in Identities |->
                        IF j = i THEN e
                        ELSE IF \E k \in 1..Len(kept) : kept[k] = j THEN entry[j]
                        ELSE Absent]

CachePurge ==
    /\ recency' = <<>>
    /\ entry' = [i \in Identities |-> Absent]

-----------------------------------------------------------------------------
Init ==
    /\ clock = 0
    /\ version = 0
    /\ entry = [i \in Identities |-> Absent]
    /\ recency = <<>>
    /\ flight = [i \in Identities |-> Nil]
    /\ pc = [c \in Callers |-> "idle"]
    /\ want \in [Callers -> Identities]
    /\ prev = [c \in Callers |-> Absent]
    /\ answer = [c \in Callers |-> Nil]
    /\ outcome = [c \in Callers |-> Nil]
    /\ latest = [i \in Identities |-> 0]

Goto(c, l) == pc' = [pc EXCEPT ![c] = l]

(* Every caller in S gets v for identity i. *)
Deliver(S, i, v) ==
    /\ outcome' = [c \in Callers |-> IF c \in S THEN v ELSE outcome[c]]
    /\ latest' = IF v = Nil THEN latest ELSE [latest EXCEPT ![i] = v.version]

(* Resolve, lines 127-131. *)
Call(c, i) ==
    /\ pc[c] = "idle"
    /\ Goto(c, "lookup")
    /\ want' = [want EXCEPT ![c] = i]
    /\ UNCHANGED <<clock, version, cacheVars, flight, prev, answer, outcome, latest>>

RejectEmpty(c) ==
    /\ pc[c] = "idle"
    /\ Goto(c, "done")
    /\ outcome' = [outcome EXCEPT ![c] = Nil]
    /\ UNCHANGED <<clock, version, cacheVars, flight, want, prev, answer, latest>>

(* The first cache.Get, lines 134-140. *)
ServeCached(c) ==
    /\ pc[c] = "lookup"
    /\ ServedFresh(entry[want[c]])
    /\ CacheGet(want[c])
    /\ Deliver({c}, want[c], entry[want[c]].value)
    /\ Goto(c, "done")
    /\ UNCHANGED <<clock, version, entry, flight, want, prev, answer>>

Miss(c) ==
    /\ pc[c] = "lookup"
    /\ ~ServedFresh(entry[want[c]])
    /\ CacheGet(want[c])
    /\ Goto(c, "missed")
    /\ UNCHANGED <<clock, version, entry, flight, want, prev, answer, outcome, latest>>

(* Mutant: every miss runs its own refresh, with no flight to join. *)
LeadUncoalesced(c) ==
    /\ pc[c] = "missed"
    /\ flight' = [flight EXCEPT ![want[c]] = c]
    /\ Goto(c, "leading")
    /\ UNCHANGED <<clock, version, cacheVars, want, prev, answer, outcome, latest>>

(* group.Do, line 145: the first caller leads, the others wait for it. *)
Lead(c) ==
    /\ pc[c] = "missed"
    /\ flight[want[c]] = Nil
    /\ flight' = [flight EXCEPT ![want[c]] = c]
    /\ Goto(c, "leading")
    /\ UNCHANGED <<clock, version, cacheVars, want, prev, answer, outcome, latest>>

Join(c) ==
    /\ pc[c] = "missed"
    /\ flight[want[c]] # Nil
    /\ Goto(c, "waiting")
    /\ UNCHANGED <<clock, version, cacheVars, flight, want, prev, answer, outcome, latest>>

(* refresh, line 163; the live call starts with the next statement. *)
ReadPrev(c) ==
    /\ pc[c] = "leading"
    /\ prev' = [prev EXCEPT ![c] = entry[want[c]]]
    /\ CacheGet(want[c])
    /\ Goto(c, "live")
    /\ UNCHANGED <<clock, version, entry, flight, want, answer, outcome, latest>>

(* provider.Resolve, line 164.  The directory is read here; time may pass
   and the directory may change before refresh uses what it read. *)
LiveAnswers(c, v) ==
    /\ pc[c] = "live"
    /\ answer' = [answer EXCEPT ![c] = v]
    /\ Goto(c, "answered")
    /\ UNCHANGED <<clock, version, cacheVars, flight, want, prev, outcome, latest>>

(* A backend failure, or the leader's own context expiring: the code does
   not tell them apart. *)
LiveFails(c) ==
    /\ pc[c] = "live"
    /\ answer' = [answer EXCEPT ![c] = Nil]
    /\ Goto(c, "answered")
    /\ UNCHANGED <<clock, version, cacheVars, flight, want, prev, outcome, latest>>

(* refresh, lines 165-170. *)
StoreAnswer(c) ==
    /\ pc[c] = "answered"
    /\ answer[c] # Nil
    /\ CacheAdd(want[c], [value |-> answer[c], fetchedAt |-> clock, negUntil |-> 0])
    /\ outcome' = [outcome EXCEPT ![c] = answer[c]]
    /\ Goto(c, "published")
    /\ UNCHANGED <<clock, version, flight, want, prev, answer, latest>>

(* Mutant: a failed refresh forgets the value it could fall back on. *)
KeepStaleUnresolved(c) ==
    /\ pc[c] = "answered"
    /\ answer[c] = Nil
    /\ HasValue(prev[c])
    /\ outcome' = [outcome EXCEPT ![c] = Nil]
    /\ Goto(c, "published")
    /\ UNCHANGED <<clock, version, cacheVars, flight, want, prev, answer, latest>>

(* refresh, lines 182-187: stale-while-revalidate. *)
KeepStale(c) ==
    /\ pc[c] = "answered"
    /\ answer[c] = Nil
    /\ HasValue(prev[c])
    /\ outcome' = [outcome EXCEPT ![c] = prev[c].value]
    /\ Goto(c, "published")
    /\ UNCHANGED <<clock, version, cacheVars, flight, want, prev, answer, latest>>

(* Mutants: negative caching whatever prev was, and with the window on the
   wrong side of now. *)
StoreNegativeAlways(c) ==
    /\ pc[c] = "answered"
    /\ answer[c] = Nil
    /\ CacheAdd(want[c], [value |-> Nil, fetchedAt |-> 0, negUntil |-> clock + NegTTL])
    /\ outcome' = [outcome EXCEPT ![c] = Nil]
    /\ Goto(c, "published")
    /\ UNCHANGED <<clock, version, flight, want, prev, answer, latest>>

StoreNegativeInPast(c) ==
    /\ pc[c] = "answered"
    /\ answer[c] = Nil
    /\ ~HasValue(prev[c])
    /\ CacheAdd(want[c], [value |-> Nil, fetchedAt |-> 0, negUntil |-> clock - NegTTL])
    /\ outcome' = [outcome EXCEPT ![c] = Nil]
    /\ Goto(c, "published")
    /\ UNCHANGED <<clock, version, flight, want, prev, answer, latest>>

(* refresh, lines 189-193: negative caching. *)
StoreNegative(c) ==
    /\ pc[c] = "answered"
    /\ answer[c] = Nil
    /\ ~HasValue(prev[c])
    /\ CacheAdd(want[c], [value |-> Nil, fetchedAt |-> 0, negUntil |-> clock + NegTTL])
    /\ outcome' = [outcome EXCEPT ![c] = Nil]
    /\ Goto(c, "published")
    /\ UNCHANGED <<clock, version, flight, want, prev, answer, latest>>

(* Mutants: the flight ends without waking its followers, or wakes those of
   every other identity too. *)
ReleaseLeaderOnly(c) ==
    /\ pc[c] = "published"
    /\ Deliver({c}, want[c], outcome[c])
    /\ flight' = [flight EXCEPT ![want[c]] = Nil]
    /\ Goto(c, "done")
    /\ prev' = [prev EXCEPT ![c] = Absent]
    /\ answer' = [answer EXCEPT ![c] = Nil]
    /\ UNCHANGED <<clock, version, cacheVars, want>>

ReleaseEveryone(c) ==
    LET crew == {c} \cup {d \in Callers : pc[d] = "waiting"}
    IN  /\ pc[c] = "published"
        /\ Deliver(crew, want[c], outcome[c])
        /\ flight' = [flight EXCEPT ![want[c]] = Nil]
        /\ pc' = [d \in Callers |-> IF d \in crew THEN "done" ELSE pc[d]]
        /\ prev' = [prev EXCEPT ![c] = Absent]
        /\ answer' = [answer EXCEPT ![c] = Nil]
        /\ UNCHANGED <<clock, version, cacheVars, want>>

(* group.Do's way out: the flight is removed and every caller of it gets the
   leader's outcome, in one critical section of the group. *)
Release(c) ==
    LET crew == {c} \cup {d \in Callers : pc[d] = "waiting" /\ want[d] = want[c]}
    IN  /\ pc[c] = "published"
        /\ Deliver(crew, want[c], outcome[c])
        /\ flight' = [flight EXCEPT ![want[c]] = Nil]
        /\ pc' = [d \in Callers |-> IF d \in crew THEN "done" ELSE pc[d]]
        /\ prev' = [prev EXCEPT ![c] = Absent]
        /\ answer' = [answer EXCEPT ![c] = Nil]
        /\ UNCHANGED <<clock, version, cacheVars, want>>

(* Resolve, lines 150-153, and the deferred metrics. *)
Return(c) ==
    /\ pc[c] = "done"
    /\ Goto(c, "idle")
    /\ outcome' = [outcome EXCEPT ![c] = Nil]
    /\ UNCHANGED <<clock, version, cacheVars, flight, want, prev, answer, latest>>

Flush ==
    /\ CachePurge
    /\ UNCHANGED <<clock, version, callVars, latest>>

Tick ==
    /\ clock < MaxClock
    /\ clock' = clock + 1
    /\ UNCHANGED <<version, cacheVars, callVars, latest>>

DirectoryChange ==
    /\ version < MaxVersion
    /\ version' = version + 1
    /\ UNCHANGED <<clock, cacheVars, callVars, latest>>

Current(i) == [of |-> i, version |-> version]

(* What the code does by itself once a caller is inside Resolve. *)
Step(c) ==
    \/ ServeCached(c)
    \/ Miss(c)
    \/ Lead(c)
    \/ Join(c)
    \/ ReadPrev(c)
    \/ StoreAnswer(c)
    \/ KeepStale(c)
    \/ StoreNegative(c)
    \/ Release(c)
    \/ Return(c)

LiveCall(c) ==
    \/ LiveAnswers(c, Current(want[c]))
    \/ LiveFails(c)

Next ==
    \/ \E c \in Callers :
        \/ \E i \in Identities : Call(c, i)
        \/ RejectEmpty(c)
        \/ Step(c)
        \/ LiveCall(c)
    \/ Flush
    \/ Tick
    \/ DirectoryChange

Spec == Init /\ [][Next]_vars

(* Goroutines run, and a live call ends one way or the other. *)
Fairness == \A c \in Callers : WF_vars(Step(c)) /\ WF_vars(LiveCall(c))

FairSpec == Spec /\ Fairness

-----------------------------------------------------------------------------
(* Properties *)

Flying == {"leading", "live", "answered", "published"}

TypeOK ==
    /\ clock \in Nat
    /\ version \in Nat
    /\ entry \in [Identities -> Entry]
    /\ recency \in Seq(Identities)
    /\ flight \in [Identities -> Callers \cup {Nil}]
    /\ pc \in [Callers -> {"idle", "lookup", "missed", "waiting", "done"} \cup Flying]
    /\ want \in [Callers -> Identities]
    /\ prev \in [Callers -> Entry]
    /\ answer \in [Callers -> Value \cup {Nil}]
    /\ outcome \in [Callers -> Value \cup {Nil}]
    /\ latest \in [Identities -> Nat]

(* At most one refresh of an identity runs at a time (the comment on refresh,
   lines 156-158), whatever callers miss, flush and evict around it. *)
OneRefreshPerIdentity ==
    \A c, d \in Callers :
        pc[c] \in Flying /\ pc[d] \in Flying /\ want[c] = want[d] => c = d

(* Whatever a caller is given was resolved for the identity it asked about,
   even when it waited for another caller's flight. *)
AnswersOwnIdentity ==
    \A c \in Callers :
        pc[c] = "done" /\ outcome[c] # Nil => outcome[c].of = want[c]

(* No caller is given a value older than one already given for the same
   identity, although flights outlive flushes and evictions and a failed
   refresh answers with the entry it read before its live call. *)
AnswersNeverGoBack ==
    [][\A i \in Identities : latest'[i] >= latest[i]]_vars

(* A failed refresh never replaces a good value by a negative entry: a value
   leaves the cache by eviction or Flush, or for a value at least as recent
   (lines 182-192, although prev was read before the live call). *)
ValueYieldsOnlyToNewer ==
    [][\A i \in Identities :
          HasValue(entry[i]) =>
              \/ entry'[i] = Absent
              \/ HasValue(entry'[i])
                 /\ entry'[i].value.version >= entry[i].value.version]_vars

(* A flight ends in errUnresolved only when the cache holds no good value for
   its identity at that moment: prev, read before the live call, is never
   overtaken by a value stored during it. *)
UnresolvedMeansNothingCached ==
    \A c \in Callers :
        pc[c] = "published" /\ outcome[c] = Nil => ~HasValue(entry[want[c]])

(* Every call returns, followers included: no caller stays parked in a flight
   whose leader has left. *)
EveryCallReturns ==
    \A c \in Callers : pc[c] # "idle" ~> pc[c] = "idle"

(* The inductive invariant behind the properties above, in four parts.
   A flight belongs to the one caller that runs its refresh. *)
FlightInv ==
    \A c \in Callers : pc[c] \in Flying => flight[want[c]] = c

(* Every value is kept and carried under the identity it was read for. *)
OwnerInv ==
    /\ \A i \in Identities : HasValue(entry[i]) => entry[i].value.of = i
    /\ \A c \in Callers :
        /\ pc[c] \in {"live", "answered"} /\ HasValue(prev[c]) =>
              prev[c].value.of = want[c]
        /\ pc[c] = "answered" /\ answer[c] # Nil => answer[c].of = want[c]
        /\ pc[c] \in {"published", "done"} /\ outcome[c] # Nil =>
              outcome[c].of = want[c]

(* No value is newer than the directory. *)
VersionInv ==
    /\ \A i \in Identities :
        /\ latest[i] <= version
        /\ HasValue(entry[i]) => entry[i].value.version <= version
    /\ \A c \in Callers :
        /\ pc[c] \in {"live", "answered"} /\ HasValue(prev[c]) =>
              prev[c].value.version <= version
        /\ pc[c] = "answered" /\ answer[c] # Nil => answer[c].version <= version
        /\ pc[c] = "published" /\ outcome[c] # Nil => outcome[c].version <= version

(* What can still be served is no older than what was served: the entry of
   an identity, and on a flight the value it fell back on, the answer it
   waits to store and the outcome it is about to release.  During the live
   call the entry can only stay what prev was or be dropped. *)
OrderInv ==
    /\ \A i \in Identities :
        HasValue(entry[i]) => latest[i] <= entry[i].value.version
    /\ \A c \in Callers :
        /\ pc[c] \in {"live", "answered"} =>
              /\ HasValue(prev[c]) => latest[want[c]] <= prev[c].value.version
              /\ HasValue(entry[want[c]]) => entry[want[c]].value = prev[c].value
        /\ pc[c] = "answered" /\ answer[c] # Nil =>
              /\ latest[want[c]] <= answer[c].version
              /\ HasValue(entry[want[c]]) =>
                    entry[want[c]].value.version <= answer[c].version
        /\ pc[c] = "published" =>
              /\ outcome[c] # Nil => latest[want[c]] <= outcome[c].version
              /\ HasValue(entry[want[c]]) => entry[want[c]].value = outcome[c]

IndInv == TypeOK /\ FlightInv /\ OwnerInv /\ VersionInv /\ OrderInv

(* The decorator keeps the promise of ResolverContract: to its callers it is a
   register per identity that only moves forward.  A caller is pending from
   Call until its outcome is delivered. *)
Contract == INSTANCE ResolverContract WITH
    call <- [c \in Callers |->
                CASE pc[c] = "idle" -> "idle"
                  [] pc[c] = "done" -> "done"
                  [] OTHER          -> "pending"],
    given <- [c \in Callers |-> IF pc[c] = "done" THEN outcome[c] ELSE Nil]

KeepsContract == Contract!Spec
=============================================================================
