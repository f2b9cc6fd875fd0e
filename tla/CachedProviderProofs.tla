------------------------ MODULE CachedProviderProofs ------------------------
(***************************************************************************)
(* Proofs about CachedProvider, for every set of callers and identities,   *)
(* every TTL and cache size, and an unbounded clock and directory history  *)
(* (MaxClock and MaxVersion are arbitrary naturals).                       *)
(***************************************************************************)
EXTENDS CachedProvider, SequenceTheorems, TLAPS

-----------------------------------------------------------------------------
(* The LRU *)

(* Taking a key out of the LRU's order leaves a sequence of keys. *)
LEMMA WithoutType ==
    ASSUME NEW S, NEW s \in Seq(S), NEW i
    PROVE  Without(s, i) \in Seq(S)
<1>1. CASE \E k \in 1..Len(s) : s[k] = i
  <2>. DEFINE k == CHOOSE k \in 1..Len(s) : s[k] = i
  <2>1. k \in 1..Len(s) BY <1>1
  <2>. HIDE DEF k
  <2>2. SubSeq(s, 1, k - 1) \in Seq(S)
    <3>1. \A j \in 1..(k - 1) : s[j] \in S BY <2>1
    <3>. QED BY <2>1, <3>1, SubSeqProperties
  <2>3. SubSeq(s, k + 1, Len(s)) \in Seq(S)
    <3>1. \A j \in (k + 1)..Len(s) : s[j] \in S BY <2>1
    <3>. QED BY <2>1, <3>1, SubSeqProperties
  <2>4. SubSeq(s, 1, k - 1) \o SubSeq(s, k + 1, Len(s)) \in Seq(S)
    BY <2>2, <2>3, ConcatProperties
  <2>. QED BY <1>1, <2>4 DEF Without, k
<1>2. CASE ~ \E k \in 1..Len(s) : s[k] = i
  BY <1>2 DEF Without
<1>. QED BY <1>1, <1>2

(* cache.Get changes the order of the keys and nothing else. *)
LEMMA CacheGetType ==
    ASSUME recency \in Seq(Identities), NEW i \in Identities, CacheGet(i)
    PROVE  recency' \in Seq(Identities)
<1>1. Without(recency, i) \in Seq(Identities) BY WithoutType
<1>2. <<i>> \o Without(recency, i) \in Seq(Identities)
  BY <1>1, ConcatProperties
<1>. QED BY <1>2 DEF CacheGet

(* cache.Add publishes the entry it is given; every other identity keeps its
   entry or loses it to eviction. *)
LEMMA CacheAddEffect ==
    ASSUME recency \in Seq(Identities), entry \in [Identities -> Entry],
           NEW i \in Identities, NEW e \in Entry, CacheAdd(i, e)
    PROVE  /\ recency' \in Seq(Identities)
           /\ entry' \in [Identities -> Entry]
           /\ entry'[i] = e
           /\ \A j \in Identities : j # i => entry'[j] \in {entry[j], Absent}
<1>. DEFINE order == <<i>> \o Without(recency, i)
            kept == IF Len(order) > CacheSize THEN SubSeq(order, 1, CacheSize) ELSE order
<1>1. Without(recency, i) \in Seq(Identities) BY WithoutType
<1>2. order \in Seq(Identities) BY <1>1, ConcatProperties
<1>. HIDE DEF order
<1>3. kept \in Seq(Identities)
  <2>1. CASE Len(order) > CacheSize
    <3>1. \A k \in 1..CacheSize : order[k] \in Identities
      BY <1>2, <2>1, TimeAssumption
    <3>2. SubSeq(order, 1, CacheSize) \in Seq(Identities)
      BY <3>1, TimeAssumption, SubSeqProperties
    <3>. QED BY <2>1, <3>2
  <2>2. CASE ~(Len(order) > CacheSize) BY <1>2, <2>2
  <2>. QED BY <2>1, <2>2
<1>4. recency' = kept BY DEF CacheAdd, order
<1>5. entry' = [j \in Identities |->
                  IF j = i THEN e
                  ELSE IF \E k \in 1..Len(kept) : kept[k] = j THEN entry[j]
                  ELSE Absent]
  BY DEF CacheAdd, order
<1>. HIDE DEF kept
<1>6. Absent \in Entry BY DEF Absent, Entry
<1>. QED BY <1>3, <1>4, <1>5, <1>6

-----------------------------------------------------------------------------
(* Type correctness *)

LEMMA InitType == Init => TypeOK
<1>. SUFFICES ASSUME Init PROVE TypeOK OBVIOUS
<1>1. Absent \in Entry BY DEF Absent, Entry
<1>2. recency \in Seq(Identities) BY DEF Init
<1>. QED BY <1>1, <1>2 DEF Init, TypeOK

(* Each step of the code inside Resolve keeps the types. *)
LEMMA StepType ==
    ASSUME TypeOK, NEW c \in Callers, Step(c)
    PROVE  TypeOK'
<1>. USE DEF TypeOK, Flying, Goto
<1>1. CASE ServeCached(c)
  <2>1. recency' \in Seq(Identities) BY <1>1, CacheGetType DEF ServeCached
  <2>2. entry[want[c]].value \in Value \cup {Nil} BY DEF Entry
  <2>3. latest' \in [Identities -> Nat]
    BY <1>1, <2>2 DEF ServeCached, Deliver, Value
  <2>4. outcome' \in [Callers -> Value \cup {Nil}]
    BY <1>1, <2>2 DEF ServeCached, Deliver
  <2>. QED BY <1>1, <2>1, <2>3, <2>4 DEF ServeCached
<1>2. CASE Miss(c)
  <2>1. recency' \in Seq(Identities) BY <1>2, CacheGetType DEF Miss
  <2>. QED BY <1>2, <2>1 DEF Miss
<1>3. CASE Lead(c) BY <1>3 DEF Lead, cacheVars
<1>4. CASE Join(c) BY <1>4 DEF Join, cacheVars
<1>5. CASE ReadPrev(c)
  <2>1. recency' \in Seq(Identities) BY <1>5, CacheGetType DEF ReadPrev
  <2>. QED BY <1>5, <2>1 DEF ReadPrev
<1>6. CASE StoreAnswer(c)
  <2>. DEFINE e == [value |-> answer[c], fetchedAt |-> clock, negUntil |-> 0]
  <2>1. e \in Entry BY DEF Entry
  <2>2. CacheAdd(want[c], e) BY <1>6 DEF StoreAnswer
  <2>. HIDE DEF e
  <2>3. recency' \in Seq(Identities) /\ entry' \in [Identities -> Entry]
    BY <2>1, <2>2, CacheAddEffect
  <2>. QED BY <1>6, <2>3 DEF StoreAnswer
<1>7. CASE KeepStale(c)
  BY <1>7 DEF KeepStale, cacheVars, Entry
<1>8. CASE StoreNegative(c)
  <2>. DEFINE e == [value |-> Nil, fetchedAt |-> 0, negUntil |-> clock + NegTTL]
  <2>1. e \in Entry BY TimeAssumption DEF Entry
  <2>2. CacheAdd(want[c], e) BY <1>8 DEF StoreNegative
  <2>. HIDE DEF e
  <2>3. recency' \in Seq(Identities) /\ entry' \in [Identities -> Entry]
    BY <2>1, <2>2, CacheAddEffect
  <2>. QED BY <1>8, <2>3 DEF StoreNegative
<1>9. CASE Release(c)
  <2>1. Absent \in Entry BY DEF Absent, Entry
  <2>2. latest' \in [Identities -> Nat] BY <1>9 DEF Release, Deliver, Value
  <2>3. outcome' \in [Callers -> Value \cup {Nil}] BY <1>9 DEF Release, Deliver
  <2>. QED BY <1>9, <2>1, <2>2, <2>3 DEF Release, cacheVars
<1>10. CASE Return(c) BY <1>10 DEF Return, cacheVars
<1>. QED BY <1>1, <1>2, <1>3, <1>4, <1>5, <1>6, <1>7, <1>8, <1>9, <1>10 DEF Step

(* So does every step of the specification, or a stutter. *)
LEMMA NextType == TypeOK /\ [Next]_vars => TypeOK'
<1>. SUFFICES ASSUME TypeOK, [Next]_vars PROVE TypeOK' OBVIOUS
<1>1. ASSUME NEW c \in Callers, NEW i \in Identities, Call(c, i) PROVE TypeOK'
  BY <1>1 DEF TypeOK, Call, Goto, cacheVars
<1>2. ASSUME NEW c \in Callers, RejectEmpty(c) PROVE TypeOK'
  BY <1>2 DEF TypeOK, RejectEmpty, Goto, cacheVars
<1>3. ASSUME NEW c \in Callers, Step(c) PROVE TypeOK'
  BY <1>3, StepType
<1>4. ASSUME NEW c \in Callers, LiveCall(c) PROVE TypeOK'
  <2>1. Current(want[c]) \in Value BY DEF TypeOK, Current, Value
  <2>. QED
    BY <1>4, <2>1 DEF TypeOK, LiveCall, LiveAnswers, LiveFails, Goto, cacheVars, Flying
<1>5. CASE Flush
  <2>1. Absent \in Entry BY DEF Absent, Entry
  <2>2. recency' \in Seq(Identities) BY <1>5 DEF Flush, CachePurge
  <2>. QED BY <1>5, <2>1, <2>2 DEF TypeOK, Flush, CachePurge, callVars
<1>6. CASE Tick BY <1>6 DEF TypeOK, Tick, cacheVars, callVars
<1>7. CASE DirectoryChange BY <1>7 DEF TypeOK, DirectoryChange, cacheVars, callVars
<1>8. CASE UNCHANGED vars BY <1>8 DEF TypeOK, vars
<1>. QED BY <1>1, <1>2, <1>3, <1>4, <1>5, <1>6, <1>7, <1>8 DEF Next

(* Every variable keeps its type (the record shapes cache.go builds). *)
THEOREM TypeCorrect == Spec => []TypeOK
BY InitType, NextType, PTL DEF Spec

-----------------------------------------------------------------------------
(* The inductive invariant.  One lemma per action; each shows the four parts
   that are not typing. *)

LEMMA InitInductive == Init => IndInv
<1>. SUFFICES ASSUME Init PROVE IndInv OBVIOUS
<1>1. TypeOK BY InitType
<1>2. \A i \in Identities : ~HasValue(entry[i]) BY DEF Init, Absent, HasValue
<1>3. \A c \in Callers : pc[c] = "idle" BY DEF Init
<1>4. FlightInv BY <1>3 DEF FlightInv, Flying
<1>5. OwnerInv BY <1>2, <1>3 DEF OwnerInv
<1>6. VersionInv BY <1>2, <1>3 DEF VersionInv, Init
<1>7. OrderInv BY <1>2, <1>3 DEF OrderInv
<1>. QED BY <1>1, <1>4, <1>5, <1>6, <1>7 DEF IndInv

(* A new call carries nothing yet. *)
LEMMA CallInductive ==
    ASSUME IndInv, NEW c \in Callers, NEW i \in Identities, Call(c, i)
    PROVE  FlightInv' /\ OwnerInv' /\ VersionInv' /\ OrderInv'
<1>. USE DEF IndInv, TypeOK, Flying, Goto, Call, cacheVars
<1>1. FlightInv' BY NilAssumption DEF FlightInv
<1>2. OwnerInv' BY DEF OwnerInv
<1>3. VersionInv' BY DEF VersionInv
<1>4. OrderInv' BY DEF OrderInv
<1>. QED BY <1>1, <1>2, <1>3, <1>4

(* A call without an identity ends with nothing. *)
LEMMA RejectEmptyInductive ==
    ASSUME IndInv, NEW c \in Callers, RejectEmpty(c)
    PROVE  FlightInv' /\ OwnerInv' /\ VersionInv' /\ OrderInv'
<1>. USE DEF IndInv, TypeOK, Flying, Goto, RejectEmpty, cacheVars
<1>1. FlightInv' BY NilAssumption DEF FlightInv
<1>2. OwnerInv' BY DEF OwnerInv
<1>3. VersionInv' BY DEF VersionInv
<1>4. OrderInv' BY DEF OrderInv
<1>. QED BY <1>1, <1>2, <1>3, <1>4

(* Serving a cached value moves latest up to the entry served, which every
   flight of that identity still knows. *)
LEMMA ServeCachedInductive ==
    ASSUME IndInv, NEW c \in Callers, ServeCached(c)
    PROVE  FlightInv' /\ OwnerInv' /\ VersionInv' /\ OrderInv'
<1>. DEFINE i == want[c]
            v == entry[i].value
<1>1. /\ i \in Identities
      /\ v \in Value \cup {Nil}
      /\ pc[c] = "lookup"
      /\ pc' = [pc EXCEPT ![c] = "done"]
      /\ outcome' = [d \in Callers |-> IF d = c THEN v ELSE outcome[d]]
      /\ latest' = IF v = Nil THEN latest ELSE [latest EXCEPT ![i] = v.version]
      /\ UNCHANGED <<version, entry, flight, want, prev, answer>>
  BY DEF IndInv, TypeOK, ServeCached, Deliver, Goto, Entry
<1>2. FlightInv' BY <1>1 DEF IndInv, TypeOK, FlightInv, Flying
<1>3. OwnerInv' BY <1>1 DEF IndInv, TypeOK, OwnerInv, HasValue
<1>4. VersionInv'
  BY <1>1 DEF IndInv, TypeOK, VersionInv, HasValue
<1>5. OrderInv'
  <2>1. CASE v = Nil
    BY <1>1, <2>1 DEF IndInv, TypeOK, OrderInv, HasValue
  <2>2. CASE v # Nil
    <3>1. /\ v.version \in Nat
          /\ \A j \in Identities : latest'[j] = IF j = i THEN v.version ELSE latest[j]
      BY <1>1, <2>2 DEF IndInv, TypeOK, Value
    <3>2. \A j \in Identities : HasValue(entry[j]) => latest'[j] <= entry[j].value.version
      BY <3>1 DEF IndInv, OrderInv, HasValue
    <3>3. ASSUME NEW d \in Callers, d # c, want[d] = i
          PROVE  /\ pc[d] \in {"live", "answered"} => v = prev[d].value
                 /\ pc[d] = "answered" /\ answer[d] # Nil => v.version <= answer[d].version
                 /\ pc[d] = "published" => v = outcome[d]
      BY <2>2, <3>3 DEF IndInv, OrderInv, HasValue
    <3>4. ASSUME NEW d \in Callers, d # c
          PROVE  /\ pc[d] \in {"live", "answered"} /\ HasValue(prev[d]) =>
                        latest'[want[d]] <= prev[d].value.version
                 /\ pc[d] = "answered" /\ answer[d] # Nil =>
                        latest'[want[d]] <= answer[d].version
                 /\ pc[d] = "published" /\ outcome[d] # Nil =>
                        latest'[want[d]] <= outcome[d].version
      <4>1. want[d] \in Identities BY DEF IndInv, TypeOK
      <4>2. v.version <= v.version BY <3>1
      <4>. QED BY <3>1, <3>3, <3>4, <4>1, <4>2 DEF IndInv, OrderInv, HasValue
    <3>5. /\ pc'[c] = "done"
          /\ \A d \in Callers : d # c => pc'[d] = pc[d] /\ outcome'[d] = outcome[d]
      BY <1>1 DEF IndInv, TypeOK
    <3>. QED BY <1>1, <3>2, <3>4, <3>5 DEF IndInv, OrderInv, HasValue
  <2>. QED BY <2>1, <2>2
<1>. QED BY <1>2, <1>3, <1>4, <1>5

(* A miss changes the recency of the LRU and nothing the invariant reads. *)
LEMMA MissInductive ==
    ASSUME IndInv, NEW c \in Callers, Miss(c)
    PROVE  FlightInv' /\ OwnerInv' /\ VersionInv' /\ OrderInv'
<1>. USE DEF IndInv, TypeOK, Flying, Goto, Miss
<1>1. FlightInv' BY NilAssumption DEF FlightInv
<1>2. OwnerInv' BY DEF OwnerInv
<1>3. VersionInv' BY DEF VersionInv
<1>4. OrderInv' BY DEF OrderInv
<1>. QED BY <1>1, <1>2, <1>3, <1>4

(* Leading needs an empty flight, so the flight has one leader. *)
LEMMA LeadInductive ==
    ASSUME IndInv, NEW c \in Callers, Lead(c)
    PROVE  FlightInv' /\ OwnerInv' /\ VersionInv' /\ OrderInv'
<1>. USE DEF IndInv, TypeOK, Flying, Goto, Lead, cacheVars
<1>1. FlightInv' BY NilAssumption DEF FlightInv
<1>2. OwnerInv' BY DEF OwnerInv
<1>3. VersionInv' BY DEF VersionInv
<1>4. OrderInv' BY DEF OrderInv
<1>. QED BY <1>1, <1>2, <1>3, <1>4

(* A follower owns no flight and no value. *)
LEMMA JoinInductive ==
    ASSUME IndInv, NEW c \in Callers, Join(c)
    PROVE  FlightInv' /\ OwnerInv' /\ VersionInv' /\ OrderInv'
<1>. USE DEF IndInv, TypeOK, Flying, Goto, Join, cacheVars
<1>1. FlightInv' BY NilAssumption DEF FlightInv
<1>2. OwnerInv' BY DEF OwnerInv
<1>3. VersionInv' BY DEF VersionInv
<1>4. OrderInv' BY DEF OrderInv
<1>. QED BY <1>1, <1>2, <1>3, <1>4

(* prev is the entry as it is now, so they agree when the live call starts. *)
LEMMA ReadPrevInductive ==
    ASSUME IndInv, NEW c \in Callers, ReadPrev(c)
    PROVE  FlightInv' /\ OwnerInv' /\ VersionInv' /\ OrderInv'
<1>. USE DEF IndInv, TypeOK, Flying, Goto, ReadPrev
<1>1. FlightInv' BY NilAssumption DEF FlightInv
<1>2. OwnerInv' BY DEF OwnerInv
<1>3. VersionInv' BY DEF VersionInv
<1>4. OrderInv' BY DEF OrderInv
<1>. QED BY <1>1, <1>2, <1>3, <1>4

(* A failure is no value. *)
LEMMA LiveFailsInductive ==
    ASSUME IndInv, NEW c \in Callers, LiveFails(c)
    PROVE  FlightInv' /\ OwnerInv' /\ VersionInv' /\ OrderInv'
<1>. USE DEF IndInv, TypeOK, Flying, Goto, LiveFails, cacheVars
<1>1. FlightInv' BY NilAssumption DEF FlightInv
<1>2. OwnerInv' BY DEF OwnerInv
<1>3. VersionInv' BY DEF VersionInv
<1>4. OrderInv' BY DEF OrderInv
<1>. QED BY <1>1, <1>2, <1>3, <1>4

(* What the live call reads is the directory's present version, which nothing
   exceeds. *)
LEMMA LiveAnswersInductive ==
    ASSUME IndInv, NEW c \in Callers, LiveAnswers(c, Current(want[c]))
    PROVE  FlightInv' /\ OwnerInv' /\ VersionInv' /\ OrderInv'
<1>. USE DEF IndInv, TypeOK, Flying, Goto, LiveAnswers, cacheVars
<1>0. Current(want[c]).of = want[c] /\ Current(want[c]).version = version
  BY DEF Current
<1>1. FlightInv' BY DEF FlightInv
<1>2. OwnerInv' BY <1>0 DEF OwnerInv
<1>3. VersionInv' BY <1>0 DEF VersionInv
<1>4. OrderInv' BY <1>0 DEF OrderInv, VersionInv
<1>. QED BY <1>1, <1>2, <1>3, <1>4

(* The value fallen back on is no older than what was given, by OrderInv on
   prev. *)
LEMMA KeepStaleInductive ==
    ASSUME IndInv, NEW c \in Callers, KeepStale(c)
    PROVE  FlightInv' /\ OwnerInv' /\ VersionInv' /\ OrderInv'
<1>. USE DEF IndInv, TypeOK, Flying, Goto, KeepStale, cacheVars, HasValue
<1>1. FlightInv' BY NilAssumption DEF FlightInv
<1>2. OwnerInv' BY DEF OwnerInv
<1>3. VersionInv' BY DEF VersionInv
<1>4. OrderInv' BY DEF OrderInv
<1>. QED BY <1>1, <1>2, <1>3, <1>4

(* Returning forgets the outcome. *)
LEMMA ReturnInductive ==
    ASSUME IndInv, NEW c \in Callers, Return(c)
    PROVE  FlightInv' /\ OwnerInv' /\ VersionInv' /\ OrderInv'
<1>. USE DEF IndInv, TypeOK, Flying, Goto, Return, cacheVars
<1>1. FlightInv' BY NilAssumption DEF FlightInv
<1>2. OwnerInv' BY DEF OwnerInv
<1>3. VersionInv' BY DEF VersionInv
<1>4. OrderInv' BY DEF OrderInv
<1>. QED BY <1>1, <1>2, <1>3, <1>4

(* Storing an answer: the flight's own caller is the only one of its identity
   that holds a prev, an answer or an outcome to compare with. *)
LEMMA StoreAnswerInductive ==
    ASSUME IndInv, NEW c \in Callers, StoreAnswer(c)
    PROVE  FlightInv' /\ OwnerInv' /\ VersionInv' /\ OrderInv'
<1>. DEFINE i == want[c]
            e == [value |-> answer[c], fetchedAt |-> clock, negUntil |-> 0]
<1>1. /\ TypeOK
      /\ i \in Identities
      /\ e \in Entry
      /\ e.value = answer[c]
      /\ answer[c] \in Value
      /\ CacheAdd(i, e)
  BY DEF IndInv, TypeOK, StoreAnswer, Entry
<1>. HIDE DEF e
<1>2. /\ entry' \in [Identities -> Entry]
      /\ entry'[i] = e
      /\ \A j \in Identities : j # i => entry'[j] \in {entry[j], Absent}
  BY <1>1, CacheAddEffect DEF TypeOK
<1>3. ~HasValue(Absent) BY DEF HasValue, Absent
<1>. USE DEF IndInv, TypeOK, Flying, Goto, StoreAnswer
<1>4. FlightInv' BY DEF FlightInv
<1>5. \A d \in Callers : pc[d] \in Flying /\ want[d] = i => d = c
  BY DEF FlightInv
<1>6. OwnerInv' BY <1>1, <1>2, <1>3 DEF OwnerInv, HasValue
<1>7. VersionInv' BY <1>1, <1>2, <1>3 DEF VersionInv, HasValue
<1>8. OrderInv'
  <2>1. \A j \in Identities :
            HasValue(entry'[j]) => latest'[j] <= entry'[j].value.version
    BY <1>1, <1>2, <1>3 DEF OrderInv, HasValue
  <2>2. \A d \in Callers : d # c /\ pc[d] \in Flying =>
            entry'[want[d]] \in {entry[want[d]], Absent}
    BY <1>2, <1>5
  <2>3. \A d \in Callers : d # c =>
            pc'[d] = pc[d] /\ outcome'[d] = outcome[d]
    OBVIOUS
  <2>4. ASSUME NEW d \in Callers, d # c
        PROVE  /\ pc[d] \in {"live", "answered"} =>
                    /\ HasValue(prev[d]) => latest[want[d]] <= prev[d].value.version
                    /\ HasValue(entry'[want[d]]) => entry'[want[d]].value = prev[d].value
               /\ pc[d] = "answered" /\ answer[d] # Nil =>
                    /\ latest[want[d]] <= answer[d].version
                    /\ HasValue(entry'[want[d]]) =>
                          entry'[want[d]].value.version <= answer[d].version
               /\ pc[d] = "published" =>
                    /\ outcome[d] # Nil => latest[want[d]] <= outcome[d].version
                    /\ HasValue(entry'[want[d]]) => entry'[want[d]].value = outcome[d]
    BY <1>3, <2>2, <2>4 DEF OrderInv
  <2>5. /\ pc'[c] = "published" /\ outcome'[c] = answer[c]
        /\ latest[i] <= answer[c].version
    BY DEF OrderInv
  <2>6. entry'[i].value = answer[c]
    BY <1>1, <1>2
  <2>. QED BY <2>1, <2>3, <2>4, <2>5, <2>6 DEF OrderInv
<1>. QED BY <1>4, <1>6, <1>7, <1>8

(* A negative entry is stored only where there was no value to lose. *)
LEMMA StoreNegativeInductive ==
    ASSUME IndInv, NEW c \in Callers, StoreNegative(c)
    PROVE  FlightInv' /\ OwnerInv' /\ VersionInv' /\ OrderInv'
<1>. DEFINE i == want[c]
            e == [value |-> Nil, fetchedAt |-> 0, negUntil |-> clock + NegTTL]
<1>1. /\ TypeOK
      /\ i \in Identities
      /\ e \in Entry
      /\ ~HasValue(e)
      /\ CacheAdd(i, e)
  BY TimeAssumption DEF IndInv, TypeOK, StoreNegative, Entry, HasValue
<1>. HIDE DEF e
<1>2. /\ entry' \in [Identities -> Entry]
      /\ entry'[i] = e
      /\ \A j \in Identities : j # i => entry'[j] \in {entry[j], Absent}
  BY <1>1, CacheAddEffect DEF TypeOK
<1>3. ~HasValue(Absent) BY DEF HasValue, Absent
<1>. USE DEF IndInv, TypeOK, Flying, Goto, StoreNegative
<1>4. FlightInv' BY DEF FlightInv
<1>5. OwnerInv' BY <1>1, <1>2, <1>3 DEF OwnerInv, HasValue
<1>6. VersionInv' BY <1>1, <1>2, <1>3 DEF VersionInv, HasValue
<1>7. OrderInv' BY <1>1, <1>2, <1>3 DEF OrderInv, HasValue
<1>. QED BY <1>4, <1>5, <1>6, <1>7

(* Releasing a flight moves latest up to its outcome; no other flight of the
   identity exists, and the cache holds that outcome or nothing. *)
LEMMA ReleaseInductive ==
    ASSUME IndInv, NEW c \in Callers, Release(c)
    PROVE  FlightInv' /\ OwnerInv' /\ VersionInv' /\ OrderInv'
<1>. DEFINE i == want[c]
            v == outcome[c]
            crew == {c} \cup {d \in Callers : pc[d] = "waiting" /\ want[d] = i}
<1>1. /\ i \in Identities
      /\ v \in Value \cup {Nil}
      /\ pc[c] = "published"
      /\ flight[i] = c
      /\ flight' = [flight EXCEPT ![i] = Nil]
      /\ pc' = [d \in Callers |-> IF d \in crew THEN "done" ELSE pc[d]]
      /\ outcome' = [d \in Callers |-> IF d \in crew THEN v ELSE outcome[d]]
      /\ latest' = IF v = Nil THEN latest ELSE [latest EXCEPT ![i] = v.version]
      /\ prev' = [prev EXCEPT ![c] = Absent]
      /\ answer' = [answer EXCEPT ![c] = Nil]
      /\ UNCHANGED <<version, entry, want>>
  BY DEF IndInv, TypeOK, Release, Deliver, FlightInv, Flying, cacheVars
<1>2. \A d \in Callers : pc[d] \in Flying /\ want[d] = i => d = c
  BY <1>1 DEF IndInv, FlightInv
<1>3. \A d \in crew : want[d] = i BY <1>1
<1>4. \A d \in Callers : pc'[d] \in Flying => pc'[d] = pc[d] /\ want[d] # i
  BY <1>1, <1>2 DEF Flying
<1>5. FlightInv'
  BY <1>1, <1>4 DEF IndInv, TypeOK, FlightInv
<1>6. OwnerInv'
  BY <1>1, <1>3 DEF IndInv, TypeOK, OwnerInv, HasValue
<1>7. VersionInv'
  BY <1>1 DEF IndInv, TypeOK, VersionInv, HasValue, Value
<1>8. OrderInv'
  BY <1>1, <1>4 DEF IndInv, TypeOK, OrderInv, HasValue, Value, Flying
<1>. QED BY <1>5, <1>6, <1>7, <1>8

(* A flush only takes values away. *)
LEMMA FlushInductive ==
    ASSUME IndInv, Flush
    PROVE  FlightInv' /\ OwnerInv' /\ VersionInv' /\ OrderInv'
<1>1. \A i \in Identities : ~HasValue(entry'[i])
  BY DEF Flush, CachePurge, HasValue, Absent
<1>. USE DEF IndInv, TypeOK, Flush, callVars
<1>2. FlightInv' BY DEF FlightInv
<1>3. OwnerInv' BY <1>1 DEF OwnerInv, HasValue
<1>4. VersionInv' BY <1>1 DEF VersionInv, HasValue
<1>5. OrderInv' BY <1>1 DEF OrderInv, HasValue
<1>. QED BY <1>2, <1>3, <1>4, <1>5

(* Time and the directory only move forward. *)
LEMMA EnvironmentInductive ==
    ASSUME IndInv, Tick \/ DirectoryChange \/ UNCHANGED vars
    PROVE  FlightInv' /\ OwnerInv' /\ VersionInv' /\ OrderInv'
<1>. USE DEF IndInv, TypeOK, Tick, DirectoryChange, vars, cacheVars, callVars
<1>1. FlightInv' BY DEF FlightInv
<1>2. OwnerInv' BY DEF OwnerInv, HasValue
<1>3. VersionInv' BY DEF VersionInv, HasValue, Value, Entry
<1>4. OrderInv' BY DEF OrderInv, HasValue
<1>. QED BY <1>1, <1>2, <1>3, <1>4

(* Every step of the specification preserves the invariant. *)
LEMMA NextInductive == IndInv /\ [Next]_vars => IndInv'
<1>. SUFFICES ASSUME IndInv, [Next]_vars PROVE IndInv' OBVIOUS
<1>0. TypeOK' BY NextType DEF IndInv
<1>. SUFFICES FlightInv' /\ OwnerInv' /\ VersionInv' /\ OrderInv' BY <1>0 DEF IndInv
<1>1. ASSUME NEW c \in Callers, NEW i \in Identities, Call(c, i)
      PROVE FlightInv' /\ OwnerInv' /\ VersionInv' /\ OrderInv'
  BY <1>1, CallInductive
<1>2. ASSUME NEW c \in Callers, RejectEmpty(c)
      PROVE FlightInv' /\ OwnerInv' /\ VersionInv' /\ OrderInv'
  BY <1>2, RejectEmptyInductive
<1>3. ASSUME NEW c \in Callers, Step(c)
      PROVE FlightInv' /\ OwnerInv' /\ VersionInv' /\ OrderInv'
  BY <1>3, ServeCachedInductive, MissInductive, LeadInductive, JoinInductive,
     ReadPrevInductive, StoreAnswerInductive, KeepStaleInductive,
     StoreNegativeInductive, ReleaseInductive, ReturnInductive DEF Step
<1>4. ASSUME NEW c \in Callers, LiveCall(c)
      PROVE FlightInv' /\ OwnerInv' /\ VersionInv' /\ OrderInv'
  BY <1>4, LiveAnswersInductive, LiveFailsInductive DEF LiveCall
<1>5. CASE Flush BY <1>5, FlushInductive
<1>6. CASE Tick \/ DirectoryChange \/ UNCHANGED vars BY <1>6, EnvironmentInductive
<1>. QED BY <1>1, <1>2, <1>3, <1>4, <1>5, <1>6 DEF Next

(* The four parts hold in every reachable state. *)
THEOREM Inductive == Spec => []IndInv
BY InitInductive, NextInductive, PTL DEF Spec

-----------------------------------------------------------------------------
(* Safety *)

(* Singleflight: at most one refresh of an identity at a time, the claim of
   the comment on refresh. *)
THEOREM OneRefresh == Spec => []OneRefreshPerIdentity
<1>1. IndInv => OneRefreshPerIdentity
  BY DEF IndInv, FlightInv, OneRefreshPerIdentity
<1>. QED BY <1>1, Inductive, PTL

(* Leaders and followers alike are answered for the identity they asked about. *)
THEOREM OwnIdentity == Spec => []AnswersOwnIdentity
<1>1. IndInv => AnswersOwnIdentity
  BY DEF IndInv, OwnerInv, AnswersOwnIdentity
<1>. QED BY <1>1, Inductive, PTL

(* A refresh that ends unresolved leaves no good value behind in the cache. *)
THEOREM UnresolvedIsHonest == Spec => []UnresolvedMeansNothingCached
<1>1. IndInv => UnresolvedMeansNothingCached
  <2>. SUFFICES ASSUME IndInv, NEW c \in Callers, pc[c] = "published",
                       outcome[c] = Nil
                PROVE  ~HasValue(entry[want[c]])
    BY DEF UnresolvedMeansNothingCached
  <2>. QED BY DEF IndInv, OrderInv, HasValue
<1>. QED BY <1>1, Inductive, PTL

(* The steps that give a value out, and how they move latest. *)
LEMMA LatestStep ==
    ASSUME IndInv, [Next]_vars
    PROVE  \/ latest' = latest
           \/ \E i \in Identities :
                \E n \in Nat : latest[i] <= n /\ latest' = [latest EXCEPT ![i] = n]
<1>. USE DEF IndInv, TypeOK
<1>1. ASSUME NEW c \in Callers, ServeCached(c), entry[want[c]].value # Nil
      PROVE  latest[want[c]] <= entry[want[c]].value.version
             /\ entry[want[c]].value.version \in Nat
             /\ latest' = [latest EXCEPT ![want[c]] = entry[want[c]].value.version]
  BY <1>1 DEF ServeCached, Deliver, OrderInv, HasValue, Entry, Value
<1>2. ASSUME NEW c \in Callers, Release(c), outcome[c] # Nil
      PROVE  latest[want[c]] <= outcome[c].version
             /\ outcome[c].version \in Nat
             /\ latest' = [latest EXCEPT ![want[c]] = outcome[c].version]
  BY <1>2 DEF Release, Deliver, OrderInv, Value
<1>3. ASSUME NEW c \in Callers, ServeCached(c), entry[want[c]].value = Nil
      PROVE  latest' = latest
  BY <1>3 DEF ServeCached, Deliver
<1>4. ASSUME NEW c \in Callers, Release(c), outcome[c] = Nil
      PROVE  latest' = latest
  BY <1>4 DEF Release, Deliver
<1>5. ASSUME NEW c \in Callers, Step(c), ~ServeCached(c), ~Release(c)
      PROVE  latest' = latest
  BY <1>5 DEF Step, Miss, Lead, Join, ReadPrev, StoreAnswer, KeepStale,
              StoreNegative, Return
<1>6. ASSUME NEW c \in Callers, LiveCall(c) PROVE latest' = latest
  BY <1>6 DEF LiveCall, LiveAnswers, LiveFails
<1>7. CASE Flush \/ Tick \/ DirectoryChange \/ UNCHANGED vars
  BY <1>7 DEF Flush, Tick, DirectoryChange, vars
<1>8. ASSUME NEW c \in Callers, NEW i \in Identities, Call(c, i) \/ RejectEmpty(c)
      PROVE  latest' = latest
  BY <1>8 DEF Call, RejectEmpty
<1>9. ASSUME NEW c \in Callers, RejectEmpty(c) PROVE latest' = latest
  BY <1>9 DEF RejectEmpty
<1>10. ASSUME NEW c \in Callers, Step(c)
       PROVE  \/ latest' = latest
              \/ \E i \in Identities :
                   \E n \in Nat : latest[i] <= n /\ latest' = [latest EXCEPT ![i] = n]
  <2>1. CASE ServeCached(c) BY <2>1, <1>1, <1>3
  <2>2. CASE Release(c) BY <2>2, <1>2, <1>4
  <2>3. CASE ~ServeCached(c) /\ ~Release(c) BY <2>3, <1>5, <1>10
  <2>. QED BY <2>1, <2>2, <2>3
<1>. QED BY <1>6, <1>7, <1>8, <1>9, <1>10 DEF Next

(* No caller is given an older value than one already given for the identity. *)
THEOREM NeverGoBack == Spec => AnswersNeverGoBack
<1>1. IndInv /\ [Next]_vars => [\A i \in Identities : latest'[i] >= latest[i]]_vars
  <2>. SUFFICES ASSUME IndInv, [Next]_vars
                PROVE  \A i \in Identities : latest'[i] >= latest[i]
    OBVIOUS
  <2>1. latest \in [Identities -> Nat] BY DEF IndInv, TypeOK
  <2>2. CASE latest' = latest BY <2>1, <2>2
  <2>3. CASE \E i \in Identities :
              \E n \in Nat : latest[i] <= n /\ latest' = [latest EXCEPT ![i] = n]
    BY <2>1, <2>3
  <2>. QED BY <2>2, <2>3, LatestStep
<1>. QED BY <1>1, Inductive, PTL DEF Spec, AnswersNeverGoBack

(* A good value leaves the cache by eviction or Flush, or for a value at least
   as recent; never for a negative entry. *)
THEOREM ValueYields == Spec => ValueYieldsOnlyToNewer
<1>. DEFINE Yields(i) ==
        HasValue(entry[i]) =>
            \/ entry'[i] = Absent
            \/ HasValue(entry'[i]) /\ entry'[i].value.version >= entry[i].value.version
<1>1. ASSUME IndInv, NEW c \in Callers, NEW i \in Identities, StoreAnswer(c)
      PROVE  Yields(i)
  <2>. DEFINE e == [value |-> answer[c], fetchedAt |-> clock, negUntil |-> 0]
  <2>1. /\ want[c] \in Identities
        /\ e \in Entry
        /\ e.value = answer[c]
        /\ answer[c] \in Value
        /\ CacheAdd(want[c], e)
    BY <1>1 DEF IndInv, TypeOK, StoreAnswer, Entry
  <2>. HIDE DEF e
  <2>2. /\ entry'[want[c]] = e
        /\ \A j \in Identities : j # want[c] => entry'[j] \in {entry[j], Absent}
    BY <1>1, <2>1, CacheAddEffect DEF IndInv, TypeOK
  <2>3. HasValue(entry[want[c]]) =>
            entry[want[c]].value.version <= answer[c].version
    BY <1>1 DEF IndInv, OrderInv, StoreAnswer
  <2>4. entry[want[c]].value \in Value \cup {Nil}
    BY <1>1, <2>1 DEF IndInv, TypeOK, Entry
  <2>5. CASE i = want[c]
    BY <2>1, <2>2, <2>3, <2>4, <2>5, NilAssumption DEF HasValue, Value
  <2>6. CASE i # want[c]
    <3>1. entry[i].value \in Value \cup {Nil} BY <1>1 DEF IndInv, TypeOK, Entry
    <3>. QED BY <2>2, <2>6, <3>1 DEF HasValue, Value
  <2>. QED BY <2>5, <2>6
<1>2. ASSUME IndInv, NEW c \in Callers, NEW i \in Identities, StoreNegative(c)
      PROVE  Yields(i)
  <2>. DEFINE e == [value |-> Nil, fetchedAt |-> 0, negUntil |-> clock + NegTTL]
  <2>1. want[c] \in Identities /\ e \in Entry /\ CacheAdd(want[c], e)
    BY <1>2, TimeAssumption DEF IndInv, TypeOK, StoreNegative, Entry
  <2>. HIDE DEF e
  <2>2. \A j \in Identities : j # want[c] => entry'[j] \in {entry[j], Absent}
    BY <1>2, <2>1, CacheAddEffect DEF IndInv, TypeOK
  <2>3. ~HasValue(entry[want[c]])
    BY <1>2 DEF IndInv, OrderInv, StoreNegative, HasValue
  <2>4. entry[i].value \in Value \cup {Nil} BY <1>2 DEF IndInv, TypeOK, Entry
  <2>. QED BY <2>2, <2>3, <2>4 DEF HasValue, Value
<1>3. ASSUME NEW i \in Identities, Flush PROVE Yields(i)
  BY <1>3 DEF Flush, CachePurge
<1>4. ASSUME IndInv, NEW i \in Identities, entry' = entry PROVE Yields(i)
  <2>1. entry[i].value \in Value \cup {Nil} BY <1>4 DEF IndInv, TypeOK, Entry
  <2>. QED BY <1>4, <2>1 DEF HasValue, Value
<1>5. ASSUME [Next]_vars
      PROVE  \/ \E c \in Callers : StoreAnswer(c) \/ StoreNegative(c)
             \/ Flush
             \/ entry' = entry
  BY <1>5 DEF Next, Call, RejectEmpty, Step, ServeCached, Miss, Lead, Join, ReadPrev,
              KeepStale, Release, Return, LiveCall, LiveAnswers, LiveFails, Tick,
              DirectoryChange, cacheVars, vars
<1>6. IndInv /\ [Next]_vars => [\A i \in Identities : Yields(i)]_vars
  <2>. SUFFICES ASSUME IndInv, [Next]_vars, NEW i \in Identities
                PROVE  Yields(i)
    OBVIOUS
  <2>. QED BY <1>1, <1>2, <1>3, <1>4, <1>5
<1>. QED BY <1>6, Inductive, PTL DEF Spec, ValueYieldsOnlyToNewer

-----------------------------------------------------------------------------
(* Refinement *)

(* The call and given of the contract, step by step. *)
LEMMA ContractInit == Init => Contract!Init
BY DEF Init, Contract!Init

(* A step that moves no caller between idle, pending and done is a stutter of
   the contract. *)
LEMMA ContractStutter ==
    ASSUME UNCHANGED <<version, want, outcome, latest>>,
           \A c \in Callers : \/ pc'[c] = pc[c]
                              \/ {pc[c], pc'[c]} \cap {"idle", "done"} = {}
    PROVE  UNCHANGED Contract!vars
BY DEF Contract!vars

(* Every step is one of the contract's, or a stutter of it. *)
LEMMA ContractStep ==
    ASSUME IndInv, [Next]_vars
    PROVE  [Contract!Next]_(Contract!vars)
<1>1. ASSUME NEW c \in Callers, NEW i \in Identities, Call(c, i)
      PROVE  Contract!Next
  <2>1. Contract!Ask(c, i) BY <1>1 DEF IndInv, TypeOK, Call, Goto, Contract!Ask
  <2>. QED BY <2>1 DEF Contract!Next
<1>2. ASSUME NEW c \in Callers, RejectEmpty(c) PROVE Contract!Next
  <2>1. Contract!Refuse(c)
    BY <1>2 DEF IndInv, TypeOK, RejectEmpty, Goto, Contract!Refuse
  <2>. QED BY <2>1 DEF Contract!Next
<1>3. ASSUME NEW c \in Callers, Return(c) PROVE Contract!Next
  <2>1. Contract!Leave(c)
    BY <1>3 DEF IndInv, TypeOK, Return, Goto, Contract!Leave
  <2>. QED BY <2>1 DEF Contract!Next
<1>4. ASSUME NEW c \in Callers, ServeCached(c) PROVE Contract!Next
  <2>1. entry[want[c]].value \in Value \cup {Nil} /\ want[c] \in Identities
    BY DEF IndInv, TypeOK, Entry
  <2>2. PICK S \in SUBSET Callers, i \in Identities : S = {c} /\ i = want[c]
    BY <2>1
  <2>3. PICK v \in Value \cup {Nil} : v = entry[i].value BY <2>1, <2>2
  <2>4. Contract!Finish(S)
    BY <1>4, <2>2 DEF IndInv, TypeOK, ServeCached, Goto, Contract!Finish
  <2>5. CASE v = Nil
    <3>1. Contract!GiveNothing(S)
      BY <1>4, <2>2, <2>3, <2>4, <2>5
      DEF IndInv, TypeOK, ServeCached, Goto, Deliver, Contract!GiveNothing
    <3>. QED BY <3>1 DEF Contract!Next
  <2>6. CASE v # Nil
    <3>1. /\ v.of = i
          /\ v.version \in 0..version
          /\ latest[i] <= v.version
          /\ v = [of |-> i, version |-> v.version]
      BY <2>2, <2>3, <2>6
      DEF IndInv, TypeOK, OwnerInv, VersionInv, OrderInv, HasValue, Value
    <3>2. Contract!Answer(S, i, v.version)
      BY <1>4, <2>2, <2>3, <2>4, <2>6, <3>1
      DEF IndInv, TypeOK, ServeCached, Goto, Deliver, Contract!Answer
    <3>. QED BY <3>1, <3>2 DEF Contract!Next
  <2>. QED BY <2>5, <2>6
<1>5. ASSUME NEW c \in Callers, Release(c) PROVE Contract!Next
  <2>. DEFINE crew == {c} \cup {d \in Callers : pc[d] = "waiting" /\ want[d] = want[c]}
  <2>1. outcome[c] \in Value \cup {Nil} /\ want[c] \in Identities
    BY DEF IndInv, TypeOK
  <2>2. PICK S \in SUBSET Callers, i \in Identities : S = crew /\ i = want[c]
    BY <2>1
  <2>3. PICK v \in Value \cup {Nil} : v = outcome[c] BY <2>1
  <2>4. Contract!Finish(S)
    BY <1>5, <2>2 DEF IndInv, TypeOK, Release, Contract!Finish
  <2>5. CASE v = Nil
    <3>1. Contract!GiveNothing(S)
      BY <1>5, <2>2, <2>3, <2>4, <2>5
      DEF IndInv, TypeOK, Release, Deliver, Contract!GiveNothing
    <3>. QED BY <3>1 DEF Contract!Next
  <2>6. CASE v # Nil
    <3>1. /\ v.of = i
          /\ v.version \in 0..version
          /\ latest[i] <= v.version
          /\ v = [of |-> i, version |-> v.version]
      BY <1>5, <2>2, <2>3, <2>6
      DEF IndInv, TypeOK, OwnerInv, VersionInv, OrderInv, Release, Value
    <3>2. Contract!Answer(S, i, v.version)
      BY <1>5, <2>2, <2>3, <2>4, <2>6, <3>1
      DEF IndInv, TypeOK, Release, Deliver, Contract!Answer
    <3>. QED BY <3>1, <3>2 DEF Contract!Next
  <2>. QED BY <2>5, <2>6
<1>6. CASE DirectoryChange
  <2>1. Contract!Advance
    BY <1>6 DEF DirectoryChange, callVars, Contract!Advance
  <2>. QED BY <2>1 DEF Contract!Next
<1>7. ASSUME NEW c \in Callers,
             Miss(c) \/ Lead(c) \/ Join(c) \/ ReadPrev(c) \/ LiveCall(c)
      PROVE  UNCHANGED Contract!vars
  BY <1>7, ContractStutter
  DEF IndInv, TypeOK, Miss, Lead, Join, ReadPrev, LiveCall, LiveAnswers, LiveFails, Goto
<1>8. ASSUME NEW c \in Callers, StoreAnswer(c) \/ KeepStale(c) \/ StoreNegative(c)
      PROVE  UNCHANGED Contract!vars
  BY <1>8
  DEF IndInv, TypeOK, StoreAnswer, KeepStale, StoreNegative, Goto, Contract!vars
<1>9. CASE Flush \/ Tick \/ UNCHANGED vars
  BY <1>9 DEF Flush, Tick, vars, callVars, Contract!vars
<1>. QED
  BY <1>1, <1>2, <1>3, <1>4, <1>5, <1>6, <1>7, <1>8, <1>9 DEF Next, Step

(* The decorator implements the contract: whatever the interleaving of calls,
   flights, flushes and evictions, its callers see a register per identity
   that only moves forward and never runs ahead of the directory. *)
THEOREM ImplementsContract == Spec => KeepsContract
<1>1. Init => Contract!Init BY ContractInit
<1>2. IndInv /\ [Next]_vars => [Contract!Next]_(Contract!vars) BY ContractStep
<1>. QED BY <1>1, <1>2, Inductive, PTL DEF Spec, KeepsContract, Contract!Spec

-----------------------------------------------------------------------------
(* Any provider.  What does not depend on the directory's order holds of the
   decorator around any provider, one that goes back in time included, as long
   as its answer is for the identity it was asked about. *)

AnyAnswer(c) ==
    \E n \in Nat : LiveAnswers(c, [of |-> want[c], version |-> n])

AnyProviderNext == Next \/ \E c \in Callers : AnyAnswer(c)

AnyProviderSpec == Init /\ [][AnyProviderNext]_vars

(* The entry of an identity in flight is the one that refresh knows of, or was
   dropped. *)
KnownInv ==
    \A c \in Callers :
        HasValue(entry[want[c]]) =>
            /\ pc[c] \in {"live", "answered"} => entry[want[c]].value = prev[c].value
            /\ pc[c] = "published" => entry[want[c]].value = outcome[c]

AnyProviderInv == TypeOK /\ FlightInv /\ OwnerInv /\ KnownInv

LEMMA AnyProviderInit == Init => AnyProviderInv
  BY InitInductive DEF IndInv, OrderInv, AnyProviderInv, KnownInv

(* Callers of the other identities keep their entry or lose it. *)
LEMMA AddKeeps ==
    ASSUME AnyProviderInv, NEW c \in Callers, NEW e \in Entry, CacheAdd(want[c], e),
           HasValue(e) => e.value.of = want[c],
           pc[c] = "answered", pc' = [pc EXCEPT ![c] = "published"],
           NEW v \in Value \cup {Nil}, outcome' = [outcome EXCEPT ![c] = v],
           v # Nil => v.of = want[c], HasValue(e) => v = e.value,
           UNCHANGED <<flight, want, prev, answer>>
    PROVE  FlightInv' /\ OwnerInv' /\ KnownInv'
<1>1. /\ entry' \in [Identities -> Entry]
      /\ entry'[want[c]] = e
      /\ \A j \in Identities : j # want[c] => entry'[j] \in {entry[j], Absent}
  BY CacheAddEffect DEF AnyProviderInv, TypeOK
<1>2. ~HasValue(Absent) BY DEF HasValue, Absent
<1>3. \A d \in Callers : pc[d] \in Flying /\ want[d] = want[c] => d = c
  BY DEF AnyProviderInv, FlightInv, Flying
<1>4. \A d \in Callers : d # c => pc'[d] = pc[d] /\ outcome'[d] = outcome[d]
  BY DEF AnyProviderInv, TypeOK
<1>5. pc'[c] = "published" /\ outcome'[c] = v
  BY DEF AnyProviderInv, TypeOK
<1>6. FlightInv'
  BY <1>4, <1>5 DEF AnyProviderInv, FlightInv, Flying
<1>7. OwnerInv'
  <2>1. \A i \in Identities : HasValue(entry'[i]) => entry'[i].value.of = i
    BY <1>1, <1>2 DEF AnyProviderInv, OwnerInv, TypeOK
  <2>. QED BY <2>1, <1>4, <1>5 DEF AnyProviderInv, OwnerInv
<1>8. KnownInv'
  <2>1. ASSUME NEW d \in Callers, d # c, pc[d] \in {"live", "answered", "published"}
        PROVE  entry'[want[d]] \in {entry[want[d]], Absent}
    BY <1>1, <1>3, <2>1 DEF AnyProviderInv, TypeOK, Flying
  <2>2. ASSUME NEW d \in Callers, d # c, HasValue(entry'[want[d]])
        PROVE  /\ pc[d] \in {"live", "answered"} => entry'[want[d]].value = prev[d].value
               /\ pc[d] = "published" => entry'[want[d]].value = outcome[d]
    BY <1>2, <2>1, <2>2 DEF AnyProviderInv, KnownInv
  <2>. QED BY <1>1, <1>4, <1>5, <2>2 DEF KnownInv
<1>. QED BY <1>6, <1>7, <1>8

LEMMA AnyProviderStep ==
    ASSUME AnyProviderInv, NEW c \in Callers, Step(c)
    PROVE  FlightInv' /\ OwnerInv' /\ KnownInv'
<1>1. CASE StoreAnswer(c)
  <2>. DEFINE e == [value |-> answer[c], fetchedAt |-> clock, negUntil |-> 0]
  <2>1. e \in Entry /\ e.value = answer[c] /\ answer[c] \in Value /\ answer[c].of = want[c]
    BY <1>1 DEF StoreAnswer, AnyProviderInv, TypeOK, Entry, OwnerInv
  <2>. QED BY <1>1, <2>1, AddKeeps DEF StoreAnswer, Goto
<1>2. CASE StoreNegative(c)
  <2>. DEFINE e == [value |-> Nil, fetchedAt |-> 0, negUntil |-> clock + NegTTL]
  <2>1. e \in Entry /\ ~HasValue(e)
    BY TimeAssumption DEF AnyProviderInv, TypeOK, Entry, HasValue
  <2>. QED BY <1>2, <2>1, AddKeeps DEF StoreNegative, Goto
<1>3. CASE Release(c)
  <2>. DEFINE crew == {c} \cup {d \in Callers : pc[d] = "waiting" /\ want[d] = want[c]}
  <2>1. /\ want[c] \in Identities /\ pc[c] = "published" /\ flight[want[c]] = c
        /\ flight' = [flight EXCEPT ![want[c]] = Nil]
        /\ pc' = [d \in Callers |-> IF d \in crew THEN "done" ELSE pc[d]]
        /\ outcome' = [d \in Callers |-> IF d \in crew THEN outcome[c] ELSE outcome[d]]
        /\ prev' = [prev EXCEPT ![c] = Absent]
        /\ answer' = [answer EXCEPT ![c] = Nil]
        /\ UNCHANGED <<entry, want>>
    BY <1>3 DEF AnyProviderInv, TypeOK, Release, Deliver, FlightInv, Flying, cacheVars
  <2>2. \A d \in crew : want[d] = want[c] BY <2>1
  <2>3. \A d \in Callers : pc'[d] \in Flying => pc'[d] = pc[d] /\ want[d] # want[c]
    BY <2>1 DEF AnyProviderInv, FlightInv, Flying
  <2>4. FlightInv' BY <2>1, <2>3 DEF AnyProviderInv, TypeOK, FlightInv
  <2>5. OwnerInv'
    BY <2>1, <2>2 DEF AnyProviderInv, TypeOK, OwnerInv, HasValue
  <2>6. KnownInv'
    BY <2>1, <2>3 DEF AnyProviderInv, TypeOK, KnownInv, Flying
  <2>. QED BY <2>4, <2>5, <2>6
<1>4. CASE ServeCached(c)
  <2>1. /\ want[c] \in Identities /\ pc[c] = "lookup"
        /\ pc' = [pc EXCEPT ![c] = "done"]
        /\ outcome' = [d \in Callers |-> IF d = c THEN entry[want[c]].value ELSE outcome[d]]
        /\ UNCHANGED <<entry, flight, want, prev, answer>>
    BY <1>4 DEF AnyProviderInv, TypeOK, ServeCached, Deliver, Goto
  <2>2. FlightInv' BY <2>1 DEF AnyProviderInv, TypeOK, FlightInv, Flying
  <2>3. OwnerInv' BY <2>1 DEF AnyProviderInv, TypeOK, OwnerInv, HasValue
  <2>4. KnownInv' BY <2>1 DEF AnyProviderInv, TypeOK, KnownInv
  <2>. QED BY <2>2, <2>3, <2>4
<1>5. CASE Miss(c) \/ Lead(c) \/ Join(c)
  <2>. USE DEF AnyProviderInv, TypeOK, Miss, Lead, Join, Goto, cacheVars
  <2>1. FlightInv' BY <1>5, NilAssumption DEF FlightInv, Flying
  <2>2. OwnerInv' BY <1>5 DEF OwnerInv
  <2>3. KnownInv' BY <1>5 DEF KnownInv
  <2>. QED BY <2>1, <2>2, <2>3
<1>6. CASE ReadPrev(c)
  <2>1. /\ pc[c] = "leading" /\ pc' = [pc EXCEPT ![c] = "live"]
        /\ prev' = [prev EXCEPT ![c] = entry[want[c]]]
        /\ UNCHANGED <<entry, flight, want, answer, outcome>>
    BY <1>6 DEF ReadPrev, Goto
  <2>2. FlightInv' BY <2>1 DEF AnyProviderInv, TypeOK, FlightInv, Flying
  <2>3. OwnerInv' BY <2>1 DEF AnyProviderInv, TypeOK, OwnerInv
  <2>4. KnownInv' BY <2>1 DEF AnyProviderInv, TypeOK, KnownInv
  <2>. QED BY <2>2, <2>3, <2>4
<1>7. CASE KeepStale(c) \/ Return(c)
  <2>. USE DEF AnyProviderInv, TypeOK, KeepStale, Return, Goto, cacheVars
  <2>1. FlightInv' BY <1>7 DEF FlightInv, Flying
  <2>2. OwnerInv' BY <1>7 DEF OwnerInv, HasValue
  <2>3. KnownInv' BY <1>7 DEF KnownInv
  <2>. QED BY <2>1, <2>2, <2>3
<1>. QED BY <1>1, <1>2, <1>3, <1>4, <1>5, <1>6, <1>7 DEF Step

LEMMA AnyProviderOthers ==
    ASSUME AnyProviderInv,
           \/ \E c \in Callers, i \in Identities : Call(c, i)
           \/ \E c \in Callers : RejectEmpty(c)
           \/ Flush \/ Tick \/ DirectoryChange \/ UNCHANGED vars
    PROVE  FlightInv' /\ OwnerInv' /\ KnownInv'
<1>1. ~HasValue(Absent) BY DEF HasValue, Absent
<1>2. CASE Flush
  BY <1>1, <1>2 DEF Flush, CachePurge, callVars, AnyProviderInv, TypeOK, FlightInv,
                    OwnerInv, KnownInv
<1>3. CASE Tick \/ DirectoryChange \/ UNCHANGED vars
  BY <1>3 DEF Tick, DirectoryChange, vars, cacheVars, callVars, AnyProviderInv, FlightInv,
              OwnerInv, KnownInv, HasValue
<1>4. ASSUME NEW c \in Callers, NEW i \in Identities, Call(c, i)
      PROVE  FlightInv' /\ OwnerInv' /\ KnownInv'
  BY <1>4 DEF Call, Goto, cacheVars, AnyProviderInv, TypeOK, FlightInv, OwnerInv,
              KnownInv, Flying, HasValue
<1>5. ASSUME NEW c \in Callers, RejectEmpty(c)
      PROVE  FlightInv' /\ OwnerInv' /\ KnownInv'
  BY <1>5 DEF RejectEmpty, Goto, cacheVars, AnyProviderInv, TypeOK, FlightInv, OwnerInv,
              KnownInv, Flying, HasValue
<1>. QED BY <1>2, <1>3, <1>4, <1>5

(* Whatever the live call gives is for the caller's own identity. *)
LEMMA AnyProviderLive ==
    ASSUME AnyProviderInv, NEW c \in Callers, AnyAnswer(c) \/ LiveFails(c)
    PROVE  AnyProviderInv'
<1>1. PICK v \in Value \cup {Nil} : /\ v # Nil => v.of = want[c]
                                    /\ answer' = [answer EXCEPT ![c] = v]
  <2>1. ASSUME NEW n \in Nat
        PROVE  [of |-> want[c], version |-> n] \in Value
    BY DEF AnyProviderInv, TypeOK, Value
  <2>. QED BY <2>1 DEF AnyAnswer, LiveAnswers, LiveFails
<1>2. /\ pc[c] = "live" /\ pc' = [pc EXCEPT ![c] = "answered"]
      /\ UNCHANGED <<clock, version, entry, recency, flight, want, prev, outcome, latest>>
  BY DEF AnyAnswer, LiveAnswers, LiveFails, Goto, cacheVars
<1>3. TypeOK' BY <1>1, <1>2 DEF AnyProviderInv, TypeOK, Flying
<1>4. FlightInv' BY <1>2 DEF AnyProviderInv, TypeOK, FlightInv, Flying
<1>5. OwnerInv' BY <1>1, <1>2 DEF AnyProviderInv, TypeOK, OwnerInv, HasValue
<1>6. KnownInv' BY <1>2 DEF AnyProviderInv, TypeOK, KnownInv, HasValue
<1>. QED BY <1>3, <1>4, <1>5, <1>6 DEF AnyProviderInv

LEMMA AnyProviderNextKeeps == AnyProviderInv /\ [AnyProviderNext]_vars => AnyProviderInv'
<1>. SUFFICES ASSUME AnyProviderInv, [AnyProviderNext]_vars PROVE AnyProviderInv'
  OBVIOUS
<1>1. ASSUME NEW c \in Callers, AnyAnswer(c) PROVE AnyProviderInv'
  BY <1>1, AnyProviderLive
<1>2. ASSUME NEW c \in Callers, LiveCall(c) PROVE AnyProviderInv'
  <2>1. LiveAnswers(c, Current(want[c])) => AnyAnswer(c)
    BY DEF AnyAnswer, Current, AnyProviderInv, TypeOK
  <2>. QED BY <1>2, <2>1, AnyProviderLive DEF LiveCall
<1>3. CASE [Next]_vars /\ ~\E c \in Callers : LiveCall(c)
  <2>1. TypeOK' BY <1>3, NextType DEF AnyProviderInv
  <2>2. FlightInv' /\ OwnerInv' /\ KnownInv'
    BY <1>3, AnyProviderStep, AnyProviderOthers DEF Next
  <2>. QED BY <2>1, <2>2 DEF AnyProviderInv
<1>. QED BY <1>1, <1>2, <1>3 DEF AnyProviderNext

LEMMA AnyProviderAlways == AnyProviderSpec => []AnyProviderInv
  BY AnyProviderInit, AnyProviderNextKeeps, PTL DEF AnyProviderSpec

(* Coalescing, the separation of identities and the value fallen back on do not
   depend on what the provider answers, nor on when it read it (cache.go:127-196). *)
THEOREM WhateverTheProvider ==
    AnyProviderSpec => [](OneRefreshPerIdentity /\ AnswersOwnIdentity
                          /\ UnresolvedMeansNothingCached)
<1>1. AnyProviderInv => OneRefreshPerIdentity
  BY DEF AnyProviderInv, FlightInv, OneRefreshPerIdentity
<1>2. AnyProviderInv => AnswersOwnIdentity
  BY DEF AnyProviderInv, OwnerInv, AnswersOwnIdentity
<1>3. AnyProviderInv => UnresolvedMeansNothingCached
  <2>. SUFFICES ASSUME AnyProviderInv, NEW c \in Callers, pc[c] = "published",
                       outcome[c] = Nil
                PROVE  ~HasValue(entry[want[c]])
    BY DEF UnresolvedMeansNothingCached
  <2>. QED BY DEF AnyProviderInv, KnownInv, HasValue
<1>. QED BY <1>1, <1>2, <1>3, AnyProviderAlways, PTL
=============================================================================
