-------------------------- MODULE CachedLdapProofs --------------------------
(***************************************************************************)
(* Proofs about CachedLdap, for every set of callers and identities, every *)
(* pool size, TTL, cache size and bound of the clock.                      *)
(*                                                                         *)
(* Each half of the composition is a behaviour of its own module, so what  *)
(* is proved there holds here: the cache side of the decorator around any  *)
(* provider (a Resolve that takes long may answer with what a search read  *)
(* before the directory moved on), the ldap side of LdapProvider.          *)
(***************************************************************************)
EXTENDS CachedLdap, FiniteSetTheorems, TLAPS

CP == INSTANCE CachedProviderProofs

LP == INSTANCE LdapProviderProofs WITH
    Borrowers <- Callers,
    Accounts <- {Account},
    Groups <- {Group},
    Directories <- {NoAccount, OneAccount},
    directory <- IF version = 0 THEN NoAccount ELSE OneAccount

-----------------------------------------------------------------------------
(* What the two modules assume of their constants. *)

LEMMA CacheAssumptions == CP!TimeAssumption /\ CP!NilAssumption /\ CP!BoundAssumption
  BY NumbersAssumption, NilAssumption, OneChange
  DEF CP!TimeAssumption, CP!NilAssumption, CP!BoundAssumption, CP!Value

LEMMA LdapAssumptions ==
    LP!SizeAssumption /\ LP!PoolNilAssumption /\ LP!DirectoriesAssumption
<1>1. {NoAccount, OneAccount} \subseteq
        [accounts : SUBSET {Account}, groups : [{Account} -> SUBSET {Group}]]
  BY DEF NoAccount, OneAccount
<1>. QED
  BY <1>1, NumbersAssumption, NilAssumption
  DEF LP!SizeAssumption, LP!PoolNilAssumption, LP!DirectoriesAssumption

-----------------------------------------------------------------------------
(* The cache side *)

LEMMA CacheInit == Init => CP!Init
  BY DEF Init, Cache!Init, CP!Init, Cache!Absent, CP!Absent

(* A caller's step outside a live call is one of the decorator's. *)
LEMMA StepIsCacheStep ==
    ASSUME NEW c \in Callers
    PROVE  Cache!Step(c) <=> CP!Step(c)
BY DEF Cache!Step, CP!Step, Cache!ServeCached, CP!ServeCached, Cache!Miss, CP!Miss,
       Cache!Lead, CP!Lead, Cache!Join, CP!Join, Cache!ReadPrev, CP!ReadPrev,
       Cache!StoreAnswer, CP!StoreAnswer, Cache!KeepStale, CP!KeepStale,
       Cache!StoreNegative, CP!StoreNegative, Cache!Release, CP!Release,
       Cache!Return, CP!Return, Cache!Deliver, CP!Deliver, Cache!Goto, CP!Goto,
       Cache!CacheGet, CP!CacheGet, Cache!CacheAdd, CP!CacheAdd, Cache!Without,
       CP!Without, Cache!Cached, CP!Cached, Cache!Absent, CP!Absent, Cache!HasValue,
       CP!HasValue, Cache!ServedFresh, CP!ServedFresh, Cache!FreshValue,
       CP!FreshValue, Cache!FreshNegative, CP!FreshNegative,
       Cache!cacheVars, CP!cacheVars

(* Beginning and ending a live call are steps of the decorator, and nothing the
   call does in between is visible to it. *)
LEMMA CacheNext == [Next]_vars => [CP!AnyProviderNext]_(CP!vars)
<1>. SUFFICES ASSUME [Next]_vars PROVE [CP!AnyProviderNext]_(CP!vars)
  OBVIOUS
<1>1. ASSUME NEW c \in Callers, EnterLive(c) PROVE CP!Next
  <2>1. Cache!Step(c) BY <1>1 DEF EnterLive, Cache!Step
  <2>. QED BY <2>1, StepIsCacheStep DEF CP!Next
<1>2. ASSUME NEW c \in Callers, LeaveLive(c) PROVE CP!AnyProviderNext
  <2>1. CASE success[c]
    <3>1. ResultOf(c) = [of |-> want[c], version |-> IF users[c] = {} THEN 0 ELSE 1]
      BY DEF ResultOf
    <3>2. CP!AnyAnswer(c)
      BY <1>2, <2>1, <3>1
      DEF LeaveLive, Cache!LiveAnswers, CP!LiveAnswers, Cache!Goto, CP!Goto,
          Cache!cacheVars, CP!cacheVars, CP!AnyAnswer
    <3>. QED BY <3>2 DEF CP!AnyProviderNext
  <2>2. CASE ~success[c]
    <3>1. CP!LiveFails(c)
      BY <1>2, <2>2
      DEF LeaveLive, Cache!LiveFails, CP!LiveFails, Cache!Goto, CP!Goto,
          Cache!cacheVars, CP!cacheVars
    <3>. QED BY <3>1 DEF CP!AnyProviderNext, CP!Next, CP!LiveCall
  <2>. QED BY <2>1, <2>2
<1>3. ASSUME NEW c \in Callers, InLive(c) PROVE UNCHANGED CP!vars
  BY <1>3 DEF InLive, cacheSide, CP!vars
<1>4. ASSUME NEW c \in Callers, OutsideLive(c) PROVE CP!Next
  <2>1. CASE Cache!Step(c)
    BY <2>1, StepIsCacheStep DEF CP!Next
  <2>2. CASE \E i \in Identities : Cache!Call(c, i)
    BY <2>2 DEF CP!Next, Cache!Call, CP!Call, Cache!Goto, CP!Goto, Cache!cacheVars,
                CP!cacheVars
  <2>3. CASE Cache!RejectEmpty(c)
    BY <2>3 DEF CP!Next, Cache!RejectEmpty, CP!RejectEmpty, Cache!Goto, CP!Goto,
                Cache!cacheVars, CP!cacheVars
  <2>. QED BY <1>4, <2>1, <2>2, <2>3 DEF OutsideLive
<1>5. CASE Surroundings
  <2>1. CASE Cache!Flush \/ Cache!Tick \/ Cache!DirectoryChange
    BY <2>1 DEF CP!AnyProviderNext, CP!Next, Cache!Flush, CP!Flush, Cache!Tick, CP!Tick,
                Cache!DirectoryChange, CP!DirectoryChange, Cache!CachePurge,
                CP!CachePurge, Cache!Absent, CP!Absent, Cache!cacheVars, CP!cacheVars,
                Cache!callVars, CP!callVars
  <2>2. CASE UNCHANGED cacheSide
    BY <2>2 DEF cacheSide, CP!vars
  <2>. QED BY <1>5, <2>1, <2>2 DEF Surroundings
<1>6. CASE UNCHANGED vars
  BY <1>6 DEF vars, cacheSide, CP!vars
<1>. QED BY <1>1, <1>2, <1>3, <1>4, <1>5, <1>6 DEF Next, CP!AnyProviderNext

(* Seen from its callers' side, the composition is the decorator around a
   provider that answers for the right identity (cache.go:161-196). *)
THEOREM BehindTheCache == Spec => CP!AnyProviderSpec
  BY CacheInit, CacheNext, PTL DEF Spec, CP!AnyProviderSpec

-----------------------------------------------------------------------------
(* The ldap side *)

LEMMA LdapInit == Init => LP!ProviderInit
  BY DEF Init, Cache!Init, Ldap!ProviderInit, LP!ProviderInit, Ldap!PoolInit, LP!PoolInit

(* What a live call does is one of the provider's steps. *)
LEMMA StepIsLdapStep ==
    ASSUME NEW c \in Callers
    PROVE  /\ Ldap!PoolOnly(c) <=> LP!PoolOnly(c)
           /\ Ldap!ResolveStep(c) <=> LP!ResolveStep(c)
           /\ \A how \in Ldap!Verdicts :
                 how \in LP!Verdicts
                 /\ (Ldap!SearchReads(c, how) <=> LP!SearchReads(c, how))
           /\ Ldap!Begin(c) <=> LP!Begin(c)
           /\ Ldap!End(c) <=> LP!End(c)
<1>1. Ldap!PoolOnly(c) <=> LP!PoolOnly(c)
  BY DEF Ldap!PoolOnly, LP!PoolOnly, Ldap!PoolStep, LP!PoolStep, Ldap!Connecting,
         LP!Connecting, Ldap!Binding, LP!Binding, Ldap!Expire, LP!Expire,
         Ldap!TakeUsable, LP!TakeUsable, Ldap!TakeSlot, LP!TakeSlot, Ldap!GiveUp,
         LP!GiveUp, Ldap!Refund, LP!Refund, Ldap!Put, LP!Put, Ldap!DialConnects,
         LP!DialConnects, Ldap!DialFails, LP!DialFails, Ldap!BindAccepted,
         LP!BindAccepted, Ldap!BindFails, LP!BindFails, Ldap!Goto, LP!Goto,
         Ldap!Close, LP!Close, Ldap!Usable, LP!Usable, Ldap!HealthyAfter,
         LP!HealthyAfter, Ldap!resolveVars, LP!resolveVars, Ldap!historyVars,
         LP!historyVars
<1>2. Ldap!ResolveStep(c) <=> LP!ResolveStep(c)
  BY DEF Ldap!ResolveStep, LP!ResolveStep, Ldap!UserUnreached, LP!UserUnreached,
         Ldap!UserNotFound, LP!UserNotFound, Ldap!UserFound, LP!UserFound,
         Ldap!GroupsFailed, LP!GroupsFailed, Ldap!GroupsFound, LP!GroupsFound,
         Ldap!GroupSearchFailed, LP!GroupSearchFailed, Ldap!SearchGroupsOf,
         LP!SearchGroupsOf, Ldap!Conclude, LP!Conclude, Ldap!Enter, LP!Enter,
         Ldap!Ask, LP!Ask, Ldap!Goto, LP!Goto, Ldap!poolVars, LP!poolVars, Ldap!historyVars,
         LP!historyVars
<1>3. \A how \in Ldap!Verdicts :
          how \in LP!Verdicts /\ (Ldap!SearchReads(c, how) <=> LP!SearchReads(c, how))
  BY DEF Ldap!Verdicts, LP!Verdicts, Ldap!SearchReads, LP!SearchReads,
         Ldap!SearchEnds, LP!SearchEnds, Ldap!Usable, LP!Usable, Ldap!Goto, LP!Goto,
         Ldap!Answering, LP!Answering
<1>4. Ldap!Begin(c) <=> LP!Begin(c)
  BY DEF Ldap!Begin, LP!Begin, Ldap!Ask, LP!Ask, Ldap!Goto, LP!Goto, Ldap!Enter,
         LP!Enter, Ldap!historyVars, LP!historyVars
<1>5. Ldap!End(c) <=> LP!End(c)
  BY DEF Ldap!End, LP!End, Ldap!Leave, LP!Leave, Ldap!Goto, LP!Goto, Ldap!Enter,
         LP!Enter
<1>. QED BY <1>1, <1>2, <1>3, <1>4, <1>5

(* The directory of the ldap side moves when its version does, from 0 to 1. *)
LEMMA LdapNext ==
    version \in Nat /\ [Next]_vars => [LP!ProviderNext]_(LP!providerVars)
<1>. SUFFICES ASSUME version \in Nat, [Next]_vars
              PROVE  [LP!ProviderNext]_(LP!providerVars)
  OBVIOUS
<1>1. ASSUME NEW c \in Callers, EnterLive(c) \/ LeaveLive(c) PROVE LP!ProviderNext
  BY <1>1, StepIsLdapStep DEF EnterLive, LeaveLive, LP!ProviderNext
<1>2. ASSUME NEW c \in Callers, InLive(c) PROVE LP!ProviderNext
  BY <1>2, StepIsLdapStep DEF InLive, LP!ProviderNext
<1>3. ASSUME UNCHANGED <<version, ldapSide>> PROVE UNCHANGED LP!providerVars
  BY <1>3 DEF ldapSide, LP!providerVars, LP!poolVars, LP!resolveVars, LP!historyVars
<1>4. ASSUME NEW c \in Callers, OutsideLive(c) PROVE UNCHANGED <<version, ldapSide>>
  BY <1>4
  DEF OutsideLive, Cache!Call, Cache!RejectEmpty, Cache!Step, Cache!ServeCached,
      Cache!Miss, Cache!Lead, Cache!Join, Cache!ReadPrev, Cache!StoreAnswer,
      Cache!KeepStale, Cache!StoreNegative, Cache!Release, Cache!Return
<1>5. CASE Surroundings
  <2>1. CASE Cache!DirectoryChange /\ UNCHANGED ldapSide
    <3>1. version = 0 /\ version' = 1
      BY <2>1, OneChange DEF Cache!DirectoryChange
    <3>2. NoAccount # OneAccount BY DEF NoAccount, OneAccount
    <3>3. LP!DirectoryMoves
      BY <2>1, <3>1, <3>2 DEF LP!DirectoryMoves, LP!poolVars, LP!resolveVars, LP!historyVars,
                           ldapSide
    <3>. QED BY <3>3 DEF LP!ProviderNext
  <2>2. CASE (Cache!Flush \/ Cache!Tick) /\ UNCHANGED ldapSide
    BY <2>2, <1>3 DEF Cache!Flush, Cache!Tick
  <2>3. CASE /\ UNCHANGED <<cacheSide, stage, found, left, account, users, groups, success,
                              matched, told>>
             /\ \E k \in Conns : Ldap!ConnDrops(k)
    BY <2>3 DEF LP!ProviderNext, Ldap!ConnDrops, LP!ConnDrops, LP!resolveVars, LP!historyVars,
                 cacheSide
  <2>. QED BY <1>5, <2>1, <2>2, <2>3 DEF Surroundings
<1>6. CASE UNCHANGED vars
  BY <1>6, <1>3 DEF vars, cacheSide
<1>. QED BY <1>1, <1>2, <1>3, <1>4, <1>5, <1>6 DEF Next

(* The ldap side is a behaviour of the provider, so everything proved of the
   provider and of its pool holds behind the cache. *)
THEOREM BesideThePool == Spec => LP!ProviderSpec
<1>1. CP!AnyProviderInv => version \in Nat BY DEF CP!AnyProviderInv, CP!TypeOK
<1>2. Spec => []CP!AnyProviderInv
  BY BehindTheCache, CacheAssumptions, CP!AnyProviderAlways, PTL
<1>. QED BY <1>1, <1>2, LdapInit, LdapNext, PTL DEF Spec, LP!ProviderSpec

-----------------------------------------------------------------------------
(* The two sides together *)

(* A caller is inside provider.Resolve on one side exactly when it is on the
   other, and only finitely many ever are at once. *)
LinkInv ==
    /\ \A c \in Callers : pc[c] = "live" <=> stage[c] # "rest"
    /\ IsFiniteSet(Live)

SidesOK == CP!AnyProviderInv /\ LP!PoolIndInv /\ LP!ProviderIndInv

LEMMA SidesAlways == Spec => []SidesOK
<1>1. Spec => []CP!AnyProviderInv
  BY BehindTheCache, CacheAssumptions, CP!AnyProviderAlways, PTL
<1>2. Spec => []LP!PoolIndInv
  BY BesideThePool, LdapAssumptions, LP!ProviderUsesPool, LP!PoolInductive, PTL
<1>3. Spec => []LP!ProviderIndInv
  BY BesideThePool, LdapAssumptions, LP!ProviderInductive, PTL
<1>. QED BY <1>1, <1>2, <1>3, PTL DEF SidesOK

LEMMA LinkInit == Init => LinkInv
<1>. SUFFICES ASSUME Init PROVE LinkInv OBVIOUS
<1>1. \A c \in Callers : pc[c] = "idle" /\ stage[c] = "rest"
  BY DEF Init, Cache!Init, Ldap!ProviderInit
<1>2. Live = {} BY <1>1 DEF Live
<1>. QED BY <1>1, <1>2, FS_EmptySet DEF LinkInv

(* A step that neither begins nor ends a live call leaves both sides of the
   link alone. *)
LEMMA LinkStays ==
    ASSUME LinkInv,
           \A c \in Callers : pc'[c] = "live" <=> pc[c] = "live",
           \A c \in Callers : stage'[c] = "rest" <=> stage[c] = "rest"
    PROVE  LinkInv'
<1>1. Live' = Live BY DEF Live
<1>. QED BY <1>1 DEF LinkInv

LEMMA InLiveStays ==
    ASSUME LP!ProviderIndInv, NEW c \in Callers, InLive(c)
    PROVE  \A d \in Callers : stage'[d] = "rest" <=> stage[d] = "rest"
<1>1. stage \in [Callers -> {"rest", "user", "group", "over"}]
  BY DEF LP!ProviderIndInv, LP!ProviderTypeOK
<1>2. CASE Ldap!PoolOnly(c)
  BY <1>2 DEF Ldap!PoolOnly, Ldap!resolveVars
<1>3. CASE \E how \in Ldap!Verdicts : Ldap!SearchReads(c, how)
  BY <1>3 DEF Ldap!SearchReads
<1>4. CASE Ldap!ResolveStep(c)
  BY <1>1, <1>4
  DEF Ldap!ResolveStep, Ldap!UserUnreached, Ldap!UserNotFound, Ldap!UserFound,
      Ldap!GroupsFailed, Ldap!GroupsFound, Ldap!Conclude, Ldap!Enter
<1>. QED BY <1>2, <1>3, <1>4 DEF InLive

LEMMA OutsideLiveStays ==
    ASSUME CP!TypeOK, NEW c \in Callers, OutsideLive(c)
    PROVE  \A d \in Callers : pc'[d] = "live" <=> pc[d] = "live"
  BY DEF CP!TypeOK, OutsideLive, Cache!Call, Cache!RejectEmpty, Cache!Step,
         Cache!ServeCached, Cache!Miss, Cache!Lead, Cache!Join, Cache!ReadPrev,
         Cache!StoreAnswer, Cache!KeepStale, Cache!StoreNegative, Cache!Release,
         Cache!Return, Cache!Goto

LEMMA LinkNext == LinkInv /\ SidesOK /\ [Next]_vars => LinkInv'
<1>. SUFFICES ASSUME LinkInv, SidesOK, [Next]_vars PROVE LinkInv'
  OBVIOUS
<1>1. /\ DOMAIN pc = Callers
      /\ stage \in [Callers -> {"rest", "user", "group", "over"}]
  BY DEF SidesOK, CP!AnyProviderInv, CP!TypeOK, LP!ProviderIndInv, LP!ProviderTypeOK
<1>2. ASSUME NEW c \in Callers, EnterLive(c) PROVE LinkInv'
  <2>1. pc' = [pc EXCEPT ![c] = "live"] /\ stage' = [stage EXCEPT ![c] = "user"]
    BY <1>2 DEF EnterLive, Cache!ReadPrev, Cache!Goto, Ldap!Begin, Ldap!Enter
  <2>2. Live' = Live \cup {c} BY <1>1, <2>1 DEF Live
  <2>3. IsFiniteSet(Live') BY <2>2, FS_AddElement DEF LinkInv
  <2>. QED BY <1>1, <2>1, <2>3 DEF LinkInv
<1>3. ASSUME NEW c \in Callers, LeaveLive(c) PROVE LinkInv'
  <2>1. pc' = [pc EXCEPT ![c] = "answered"] /\ stage' = [stage EXCEPT ![c] = "rest"]
    BY <1>3 DEF LeaveLive, Cache!LiveAnswers, Cache!LiveFails, Cache!Goto, Ldap!End,
                Ldap!Enter
  <2>2. Live' = Live \ {c} BY <1>1, <2>1 DEF Live
  <2>3. IsFiniteSet(Live') BY <2>2, FS_RemoveElement DEF LinkInv
  <2>. QED BY <1>1, <2>1, <2>3 DEF LinkInv
<1>4. ASSUME NEW c \in Callers, InLive(c) PROVE LinkInv'
  BY <1>4, InLiveStays, LinkStays DEF SidesOK, InLive, cacheSide
<1>5. ASSUME NEW c \in Callers, OutsideLive(c) PROVE LinkInv'
  <2>1. UNCHANGED stage BY <1>5 DEF OutsideLive, ldapSide
  <2>. QED
    BY <1>5, <2>1, OutsideLiveStays, LinkStays DEF SidesOK, CP!AnyProviderInv
<1>6. CASE UNCHANGED <<pc, stage>>
  BY <1>6, LinkStays
<1>7. CASE Surroundings
  BY <1>6, <1>7 DEF Surroundings, Cache!Flush, Cache!Tick, Cache!DirectoryChange,
                    Cache!callVars, cacheSide, ldapSide
<1>8. CASE UNCHANGED vars
  BY <1>6, <1>8 DEF vars, cacheSide, ldapSide
<1>. QED BY <1>2, <1>3, <1>4, <1>5, <1>7, <1>8 DEF Next

LEMMA LinkAlways == Spec => []LinkInv
  BY LinkInit, LinkNext, SidesAlways, PTL DEF Spec

(* Everybody in a live call refreshes an identity of its own. *)
LEMMA RefreshesAreDistinct ==
    ASSUME SidesOK, LinkInv
    PROVE  IsFiniteSet(Refreshing) /\ Cardinality(Refreshing) = Cardinality(Live)
<1>. DEFINE f == [c \in Live |-> want[c]]
<1>1. \A c, d \in Live : want[c] = want[d] => c = d
  BY DEF SidesOK, CP!AnyProviderInv, CP!FlightInv, CP!Flying, Live
<1>2. f \in Surjection(Live, Refreshing) /\ f \in Injection(Live, Refreshing)
  BY <1>1 DEF Refreshing, Surjection, Injection, IsInjective
<1>. QED BY <1>2, FS_Surjection DEF LinkInv

(* A set has one cardinality, in whichever module it is counted. *)
LEMMA SameCount ==
    /\ \A S : LP!IsFiniteSet(S) <=> IsFiniteSet(S)
    /\ \A S : Ldap!IsFiniteSet(S) <=> IsFiniteSet(S)
    /\ \A S : LP!Cardinality(S) = Cardinality(S)
    /\ \A S : Ldap!Cardinality(S) = Cardinality(S)
<1>1. /\ \A S : LP!IsFiniteSet(S) <=> IsFiniteSet(S)
      /\ \A S : Ldap!IsFiniteSet(S) <=> IsFiniteSet(S)
  BY DEF LP!IsFiniteSet, Ldap!IsFiniteSet, IsFiniteSet
<1>2. /\ \A S : LP!Cardinality(S) = Cardinality(S)
      /\ \A S : Ldap!Cardinality(S) = Cardinality(S)
  BY DEF LP!Cardinality, Ldap!Cardinality, Cardinality
<1>. QED BY <1>1, <1>2

LEMMA PoolSpared == SidesOK /\ LinkInv => CoalescingSparesPool
<1>. SUFFICES ASSUME SidesOK, LinkInv, NEW c \in Callers, at[c] = "get", slots = <<>>
              PROVE  ~(Cardinality(Refreshing) <= Size)
  BY DEF CoalescingSparesPool
<1>. DEFINE busy == LP!Holders
<1>1. IsFiniteSet(busy) /\ Cardinality(busy) = Size
  BY SameCount, FS_CardinalityType, NumbersAssumption
  DEF SidesOK, LP!PoolIndInv, LP!SlotsConserved
<1>2. c \notin busy BY DEF LP!Holders, LP!HoldsSlot
<1>3. busy \cup {c} \subseteq Live
  <2>1. ASSUME NEW b \in Callers, at[b] # "idle" PROVE b \in Live
    BY <2>1 DEF SidesOK, LP!ProviderIndInv, LP!StageInv, LP!CallInv, LinkInv, Live
  <2>. QED BY <2>1 DEF LP!Holders, LP!HoldsSlot
<1>4. Cardinality(busy \cup {c}) = Size + 1
  BY <1>1, <1>2, FS_AddElement
<1>5. Cardinality(busy \cup {c}) <= Cardinality(Live)
  BY <1>3, FS_Subset DEF LinkInv
<1>6. Cardinality(Refreshing) = Cardinality(Live) /\ Cardinality(Live) \in Nat
  BY RefreshesAreDistinct, FS_CardinalityType DEF LinkInv
<1>. QED BY <1>4, <1>5, <1>6, NumbersAssumption

(* While no more identities are refreshed at once than the pool has slots, no
   live call waits for a connection, whatever the number of requests
   (cache.go:145, pool.go:52-69). *)
THEOREM CoalescingIsEnough == Spec => []CoalescingSparesPool
  BY PoolSpared, SidesAlways, LinkAlways, PTL

(* The decorator keeps its promises around the real provider, whose answer may
   be older than the directory by the time it is stored (cache.go:127-196). *)
THEOREM DecoratorKeeps ==
    Spec => [](Cache!OneRefreshPerIdentity /\ Cache!AnswersOwnIdentity
               /\ Cache!UnresolvedMeansNothingCached)
<1>1. CP!OneRefreshPerIdentity => Cache!OneRefreshPerIdentity
  BY DEF CP!OneRefreshPerIdentity, Cache!OneRefreshPerIdentity, CP!Flying, Cache!Flying
<1>2. CP!AnswersOwnIdentity => Cache!AnswersOwnIdentity
  BY DEF CP!AnswersOwnIdentity, Cache!AnswersOwnIdentity
<1>3. CP!UnresolvedMeansNothingCached => Cache!UnresolvedMeansNothingCached
  BY DEF CP!UnresolvedMeansNothingCached, Cache!UnresolvedMeansNothingCached,
         CP!HasValue, Cache!HasValue
<1>. QED
  BY <1>1, <1>2, <1>3, BehindTheCache, CacheAssumptions, CP!WhateverTheProvider, PTL

(* The pool keeps its promises behind the cache: its slots are conserved, handing
   one back never waits, no two searches share a connection, at most Size of them
   are open, and a successful Resolve is whole (pool.go:48-82, ldap.go:88-119). *)
THEOREM ProviderKeeps ==
    Spec => [](/\ Ldap!SlotsConserved /\ Ldap!PutNeverBlocks /\ Ldap!ExclusiveConn
               /\ Ldap!ConnsBounded /\ Ldap!SuccessIsWhole)
<1>1. LP!SlotsConserved => Ldap!SlotsConserved
  BY SameCount DEF LP!SlotsConserved, Ldap!SlotsConserved, LP!Holders, Ldap!Holders,
         LP!HoldsSlot, Ldap!HoldsSlot
<1>2. LP!PutNeverBlocks => Ldap!PutNeverBlocks
  BY DEF LP!PutNeverBlocks, Ldap!PutNeverBlocks
<1>3. LP!ExclusiveConn => Ldap!ExclusiveConn
  BY DEF LP!ExclusiveConn, Ldap!ExclusiveConn, LP!InSlot, Ldap!InSlot
<1>4. LP!ConnsBounded => Ldap!ConnsBounded
  BY SameCount DEF LP!ConnsBounded, Ldap!ConnsBounded, LP!OpenConns, Ldap!OpenConns
<1>5. LP!SuccessIsWhole => Ldap!SuccessIsWhole
  BY DEF LP!SuccessIsWhole, Ldap!SuccessIsWhole, LP!Asked, Ldap!Asked, LP!Told, Ldap!Told
<1>. QED
  BY <1>1, <1>2, <1>3, <1>4, <1>5, BesideThePool, LdapAssumptions, LP!ProviderUsesPool,
     LP!PoolConserves, LP!PoolNeverBlocks, LP!PoolExclusive, LP!PoolBounded,
     LP!SuccessesAreWhole, PTL
=============================================================================
