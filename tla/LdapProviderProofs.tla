------------------------- MODULE LdapProviderProofs -------------------------
(***************************************************************************)
(* Proofs about LdapProvider, for any number of calls, connections,        *)
(* accounts and groups, and any pool size.                                 *)
(***************************************************************************)
EXTENDS LdapProvider, LdapPoolProofs, TLAPS

(* A step of a call asks for a connection, leaves, or does not touch the
   pool. *)
LEMMA ResolveStepOfPool ==
    ASSUME NEW b \in Borrowers, ResolveStep(b)
    PROVE  Ask(b) \/ UNCHANGED poolVars
<1>1. CASE UserUnreached(b) BY <1>1 DEF UserUnreached
<1>2. CASE UserNotFound(b) BY <1>2 DEF UserNotFound
<1>3. CASE UserFound(b) BY <1>3 DEF UserFound, SearchGroupsOf
<1>4. CASE GroupsFailed(b) BY <1>4 DEF GroupsFailed
<1>5. CASE GroupsFound(b) BY <1>5 DEF GroupsFound, SearchGroupsOf
<1>. QED BY <1>1, <1>2, <1>3, <1>4, <1>5 DEF ResolveStep

LEMMA ProviderStepOfPool == [ProviderNext]_providerVars => [PoolNext]_poolVars
<1>. SUFFICES ASSUME [ProviderNext]_providerVars PROVE [PoolNext]_poolVars
  OBVIOUS
<1>1. ASSUME NEW b \in Borrowers, Begin(b) PROVE PoolNext
  BY <1>1 DEF Begin, PoolNext
<1>2. ASSUME NEW b \in Borrowers, PoolOnly(b) PROVE PoolNext
  BY <1>2 DEF PoolOnly, PoolNext
<1>3. ASSUME NEW b \in Borrowers, NEW how \in Verdicts, SearchReads(b, how)
      PROVE  PoolNext
  BY <1>3 DEF SearchReads, Searching, PoolNext
<1>4. ASSUME NEW b \in Borrowers, ResolveStep(b) PROVE [PoolNext]_poolVars
  BY <1>4, ResolveStepOfPool DEF PoolNext
<1>5. ASSUME NEW b \in Borrowers, End(b) PROVE PoolNext
  BY <1>5 DEF End, PoolNext
<1>6. CASE \E k \in Conns : ConnDrops(k) /\ UNCHANGED <<directory, resolveVars>>
  BY <1>6 DEF PoolNext
<1>7. CASE DirectoryMoves
  BY <1>7 DEF DirectoryMoves
<1>8. CASE UNCHANGED providerVars
  BY <1>8 DEF providerVars
<1>. QED BY <1>1, <1>2, <1>3, <1>4, <1>5, <1>6, <1>7, <1>8 DEF ProviderNext

(* The provider uses the pool as the pool expects it: whatever holds of
   PoolSpec, the theorems of LdapPoolProofs among it, holds of the provider. *)
THEOREM ProviderUsesPool == ProviderSpec => PoolSpec
<1>1. ProviderInit => PoolInit BY DEF ProviderInit
<1>. QED BY <1>1, ProviderStepOfPool, PTL DEF ProviderSpec, PoolSpec

-----------------------------------------------------------------------------
(* What the steps of the pool do to the place and the verdict of a call. *)

PlacesOK ==
    /\ at \in [Borrowers -> Locations]
    /\ verdict \in [Borrowers -> Verdicts]

LEMMA PlacesTyped == PoolTypeOK => PlacesOK
BY DEF PoolTypeOK, PlacesOK

(* The call moves on inside the pool: it neither begins nor leaves, and comes
   back from a search only by putting its connection back. *)
MovesTo(b, l) ==
    /\ at[b] \notin {"idle", "returned", "failed"}
    /\ l \notin {"idle", "put"}
    /\ l = "returned" <=> at[b] = "put"
    /\ Goto(b, l)

LEMMA PoolOnlyMoves ==
    ASSUME NEW b \in Borrowers, PoolOnly(b)
    PROVE  /\ UNCHANGED <<directory, resolveVars, verdict>>
           /\ UNCHANGED at \/ \E l \in Locations : MovesTo(b, l)
<1>1. CASE TakeUsable(b)
  BY <1>1 DEF TakeUsable, MovesTo, PoolOnly, Locations, HoldsSlot
<1>2. CASE TakeSlot(b)
  BY <1>2 DEF TakeSlot, MovesTo, PoolOnly, Locations, HoldsSlot
<1>3. CASE GiveUp(b)
  BY <1>3 DEF GiveUp, MovesTo, PoolOnly, Locations, HoldsSlot
<1>4. CASE Refund(b)
  BY <1>4 DEF Refund, MovesTo, PoolOnly, Locations, HoldsSlot
<1>5. CASE Put(b)
  BY <1>5 DEF Put, MovesTo, PoolOnly, Locations, HoldsSlot
<1>6. CASE Connecting(b)
  BY <1>6 DEF Connecting, DialConnects, DialFails, MovesTo, PoolOnly, Locations, HoldsSlot
<1>7. CASE Binding(b)
  BY <1>7 DEF Binding, BindAccepted, BindFails, MovesTo, PoolOnly, Locations, HoldsSlot
<1>8. CASE Expire(b)
  BY <1>8 DEF Expire, PoolOnly
<1>. QED
  BY <1>1, <1>2, <1>3, <1>4, <1>5, <1>6, <1>7, <1>8 DEF PoolOnly, PoolStep

-----------------------------------------------------------------------------
(* The invariant of the provider, over that of the pool. *)

(* What the provider adds to the type invariant of the pool. *)
CallsOK ==
    /\ directory \in Directories
    /\ stage \in [Borrowers -> {"rest", "user", "group", "over"}]
    /\ found \in [Borrowers -> SUBSET (Accounts \cup Groups)]
    /\ left \in [Borrowers -> SUBSET Accounts]
    /\ account \in [Borrowers -> Accounts \cup {Nil}]
    /\ users \in [Borrowers -> SUBSET Accounts]
    /\ groups \in [Borrowers -> SUBSET Groups]
    /\ success \in [Borrowers -> BOOLEAN]
    /\ matched \in [Borrowers -> SUBSET Accounts]
    /\ told \in [Borrowers -> SUBSET (Accounts \X SUBSET Groups)]

WholeAt(b) ==
    stage[b] = "over" /\ success[b] =>
        /\ users[b] = matched[b]
        /\ Asked(b) = matched[b]
        /\ groups[b] = Told(b)

CallsInv == PlacesOK /\ CallsOK /\ StageInv /\ SuccessIsWhole

LEMMA InvParts == ProviderIndInv <=> PoolTypeOK /\ CallsInv
BY PlacesTyped DEF ProviderIndInv, ProviderTypeOK, CallsInv, CallsOK

LEMMA CallsInit == ProviderInit => CallsInv
<1>. SUFFICES ASSUME ProviderInit PROVE CallsInv OBVIOUS
<1>1. PlacesOK
  BY DEF ProviderInit, PoolInit, PlacesOK, Locations, Verdicts
<1>2. CallsOK BY DEF ProviderInit, CallsOK
<1>3. StageInv BY DEF ProviderInit, PoolInit, StageInv, CallInv
<1>4. SuccessIsWhole BY DEF ProviderInit, SuccessIsWhole
<1>. QED BY <1>1, <1>2, <1>3, <1>4 DEF CallsInv

(* A step concerns one call: what is known of the others stays. *)
Same(c) ==
    /\ at'[c] = at[c] /\ verdict'[c] = verdict[c]
    /\ stage'[c] = stage[c] /\ found'[c] = found[c] /\ left'[c] = left[c]
    /\ account'[c] = account[c] /\ users'[c] = users[c] /\ groups'[c] = groups[c]
    /\ success'[c] = success[c] /\ matched'[c] = matched[c] /\ told'[c] = told[c]

LEMMA SameKeeps ==
    ASSUME NEW c \in Borrowers, Same(c), CallInv(c), WholeAt(c)
    PROVE  CallInv(c)' /\ WholeAt(c)'
<1>1. /\ Unused(c)' = Unused(c)
      /\ Asked(c)' = Asked(c)
      /\ Told(c)' = Told(c)
  BY DEF Same, Unused, Asked, Told
<1>2. CallInv(c)' BY <1>1 DEF Same, CallInv
<1>3. WholeAt(c)' BY <1>1 DEF Same, WholeAt
<1>. QED BY <1>2, <1>3

LEMMA OneCall ==
    ASSUME CallsInv, NEW b \in Borrowers, PlacesOK', CallsOK', CallInv(b)', WholeAt(b)',
           \A c \in Borrowers \ {b} : Same(c)
    PROVE  CallsInv'
<1>1. \A c \in Borrowers : CallInv(c) /\ WholeAt(c)
  BY DEF CallsInv, StageInv, SuccessIsWhole, WholeAt
<1>2. ASSUME NEW c \in Borrowers PROVE CallInv(c)' /\ WholeAt(c)'
  BY <1>1, SameKeeps
<1>3. StageInv' BY <1>2 DEF StageInv
<1>4. SuccessIsWhole' BY <1>2 DEF SuccessIsWhole, WholeAt
<1>. QED BY <1>3, <1>4 DEF CallsInv

(* Nothing changes for any call. *)
LEMMA NoCall ==
    ASSUME CallsInv, UNCHANGED <<at, verdict, resolveVars>>, directory' \in Directories
    PROVE  CallsInv'
<1>1. \A c \in Borrowers : CallInv(c) /\ WholeAt(c)
  BY DEF CallsInv, StageInv, SuccessIsWhole, WholeAt
<1>2. \A c \in Borrowers : Same(c)
  BY DEF Same, resolveVars, historyVars
<1>3. ASSUME NEW c \in Borrowers PROVE CallInv(c)' /\ WholeAt(c)'
  BY <1>1, <1>2, SameKeeps
<1>4. StageInv' BY <1>3 DEF StageInv
<1>5. SuccessIsWhole' BY <1>3 DEF SuccessIsWhole, WholeAt
<1>6. PlacesOK' /\ CallsOK'
  BY DEF CallsInv, PlacesOK, CallsOK, resolveVars, historyVars
<1>. QED BY <1>4, <1>5, <1>6 DEF CallsInv

LEMMA PoolOnlyKeeps ==
    ASSUME CallsInv, NEW b \in Borrowers, PoolOnly(b)
    PROVE  CallsInv'
<1>1. UNCHANGED <<directory, resolveVars, verdict>>
  BY PoolOnlyMoves
<1>2. CASE UNCHANGED at
  BY <1>1, <1>2, NoCall DEF CallsInv, CallsOK
<1>3. ASSUME NEW l \in Locations, MovesTo(b, l) PROVE CallsInv'
  <2>1. at' = [at EXCEPT ![b] = l] /\ at'[b] = l
    BY <1>3 DEF MovesTo, Goto, CallsInv, PlacesOK
  <2>2. PlacesOK' BY <1>1, <2>1 DEF CallsInv, PlacesOK
  <2>3. CallsOK' BY <1>1 DEF CallsInv, CallsOK, resolveVars, historyVars
  <2>4. \A c \in Borrowers \ {b} : Same(c)
    BY <1>1, <2>1 DEF Same, CallsInv, PlacesOK, resolveVars, historyVars
  <2>5. /\ Unused(b)' = Unused(b) /\ Asked(b)' = Asked(b) /\ Told(b)' = Told(b)
        /\ at[b] \notin {"idle", "returned", "failed"} /\ l \notin {"idle", "put"}
    BY <1>1, <1>3, <2>1 DEF MovesTo, Unused, Asked, Told, resolveVars, historyVars
  <2>6. CallInv(b) BY DEF CallsInv, StageInv
  <2>7. CallInv(b)'
    BY <1>1, <1>3, <2>1, <2>5, <2>6 DEF MovesTo, CallInv, resolveVars, historyVars
  <2>8. WholeAt(b)'
    BY <1>1, <2>5, <2>6 DEF CallInv, WholeAt, resolveVars, historyVars
  <2>. QED BY <2>2, <2>3, <2>4, <2>7, <2>8, OneCall
<1>. QED BY <1>2, <1>3, PoolOnlyMoves

LEMMA BeginKeeps ==
    ASSUME CallsInv, NEW b \in Borrowers, Begin(b)
    PROVE  CallsInv'
<1>1. /\ stage[b] = "rest" /\ at' = [at EXCEPT ![b] = "get"]
      /\ stage' = [stage EXCEPT ![b] = "user"]
      /\ UNCHANGED <<verdict, directory, found, left, account, users, groups, success,
                     matched, told>>
  BY DEF Begin, Ask, Goto, Enter, historyVars
<1>2. PlacesOK' BY <1>1 DEF CallsInv, PlacesOK, Locations
<1>3. CallsOK' BY <1>1 DEF CallsInv, CallsOK
<1>4. at'[b] = "get" /\ stage'[b] = "user" /\ \A c \in Borrowers \ {b} : Same(c)
  BY <1>1 DEF CallsInv, PlacesOK, CallsOK, Same
<1>5. CallInv(b) BY DEF CallsInv, StageInv
<1>6. CallInv(b)' BY <1>1, <1>4, <1>5 DEF CallInv, Unused
<1>7. WholeAt(b)' BY <1>4 DEF WholeAt
<1>. QED BY <1>2, <1>3, <1>4, <1>6, <1>7, OneCall

(* What a search finds comes from the directory. *)
LEMMA Answered ==
    ASSUME CallsInv, NEW b \in Borrowers, at[b] = "search"
    PROVE  /\ stage[b] \in {"user", "group"}
           /\ stage[b] = "user" => Answering(b) \subseteq Accounts
           /\ stage[b] = "group" => Answering(b) \subseteq Groups
<1>1. directory.accounts \subseteq Accounts /\ directory.groups \in [Accounts -> SUBSET Groups]
  BY DirectoriesAssumption DEF CallsInv, CallsOK
<1>2. CallInv(b) /\ stage[b] \in {"rest", "user", "group", "over"}
  BY DEF CallsInv, CallsOK, StageInv
<1>3. stage[b] \in {"user", "group"}
  BY <1>2 DEF CallInv
<1>4. stage[b] = "group" => account[b] \in Accounts
  BY <1>2 DEF CallInv
<1>. QED BY <1>1, <1>3, <1>4 DEF Answering

(* One search more, in the history of a call. *)
LEMMA AskedMore ==
    ASSUME NEW b, NEW a, NEW part, told'[b] = told[b] \cup {<<a, part>>}
    PROVE  Asked(b)' = Asked(b) \cup {a} /\ Told(b)' = Told(b) \cup part
<1>1. \A t : t \in told'[b] <=> t \in told[b] \/ t = <<a, part>>
  OBVIOUS
<1>2. <<a, part>>[1] = a /\ <<a, part>>[2] = part
  OBVIOUS
<1>3. \A x : x \in Asked(b)' <=> x \in Asked(b) \/ x = a
  <2>1. \A x : x \in Asked(b)' => x \in Asked(b) \/ x = a
    BY <1>1, <1>2 DEF Asked
  <2>2. \A x : x \in Asked(b) => x \in Asked(b)'
    BY <1>1 DEF Asked
  <2>3. a \in Asked(b)'
    BY <1>1, <1>2 DEF Asked
  <2>. QED BY <2>1, <2>2, <2>3
<1>4. \A x : x \in Told(b)' <=> x \in Told(b) \/ x \in part
  <2>1. \A x : x \in Told(b)' => x \in Told(b) \/ x \in part
    BY <1>1, <1>2 DEF Told
  <2>2. \A x : x \in Told(b) => x \in Told(b)'
    BY <1>1 DEF Told
  <2>3. \A x \in part : x \in Told(b)'
    BY <1>1, <1>2 DEF Told
  <2>. QED BY <2>1, <2>2, <2>3
<1>5. Asked(b)' = Asked(b) \cup {a} BY <1>3
<1>6. Told(b)' = Told(b) \cup part BY <1>4
<1>. QED BY <1>5, <1>6

LEMMA SearchReadsKeeps ==
    ASSUME CallsInv, NEW b \in Borrowers, NEW how \in Verdicts, SearchReads(b, how)
    PROVE  CallsInv'
<1>1. PICK part \in SUBSET Answering(b) :
        /\ found' = [found EXCEPT ![b] = part]
        /\ how \in {"ldap_error", "net_error"} => part = {}
        /\ matched' = IF stage[b] = "user" /\ how = "ok"
                      THEN [matched EXCEPT ![b] = part] ELSE matched
        /\ told' = IF stage[b] = "group" /\ how \in {"ok", "size_limit"}
                   THEN [told EXCEPT ![b] = @ \cup {<<account[b], part>>}] ELSE told
  BY DEF SearchReads
<1>2. /\ at[b] = "search"
      /\ at' = [at EXCEPT ![b] = "put"]
      /\ verdict' = [verdict EXCEPT ![b] = how]
      /\ UNCHANGED <<directory, stage, left, account, users, groups, success>>
  BY DEF SearchReads, SearchEnds, Goto
<1>3. /\ stage[b] \in {"user", "group"}
      /\ stage[b] = "user" => part \subseteq Accounts
      /\ stage[b] = "group" => part \subseteq Groups
  BY <1>1, <1>2, Answered
<1>. HIDE DEF Answering
<1>4. CallInv(b) BY DEF CallsInv, StageInv
<1>5. stage[b] = "group" => <<account[b], part>> \in Accounts \X SUBSET Groups
  BY <1>3, <1>4 DEF CallInv
<1>6. PlacesOK'
  BY <1>2 DEF CallsInv, PlacesOK, Locations, HoldsSlot
<1>7. CallsOK'
  <2>1. found' \in [Borrowers -> SUBSET (Accounts \cup Groups)]
    BY <1>1, <1>3 DEF CallsInv, CallsOK
  <2>2. matched' \in [Borrowers -> SUBSET Accounts]
    BY <1>1, <1>3 DEF CallsInv, CallsOK
  <2>3. told' \in [Borrowers -> SUBSET (Accounts \X SUBSET Groups)]
    BY <1>1, <1>5 DEF CallsInv, CallsOK
  <2>. QED BY <1>2, <2>1, <2>2, <2>3 DEF CallsInv, CallsOK
<1>8. \A c \in Borrowers \ {b} : Same(c)
  BY <1>1, <1>2 DEF CallsInv, PlacesOK, CallsOK, Same
<1>9. at'[b] = "put" /\ verdict'[b] = how /\ found'[b] = part
  BY <1>1, <1>2 DEF CallsInv, PlacesOK, CallsOK
<1>10. Unused(b)' <=> how \in {"ok", "size_limit"}
  BY <1>9 DEF Unused
<1>11. ~Unused(b)
  BY <1>2 DEF Unused
<1>12. CallInv(b)'
  <2>1. CASE stage[b] = "user"
    <3>1. told' = told /\ matched'[b] = IF how = "ok" THEN part ELSE matched[b]
      BY <1>1, <2>1 DEF CallsInv, CallsOK
    <3>2. matched[b] = {}
      BY <1>4, <1>11, <2>1 DEF CallInv
    <3>3. matched'[b] = IF Unused(b)' /\ verdict'[b] = "ok" THEN found'[b] ELSE {}
      BY <1>9, <1>10, <3>1, <3>2
    <3>. QED BY <1>2, <1>3, <1>4, <1>9, <2>1, <3>1, <3>3 DEF CallInv
  <2>2. CASE stage[b] = "group"
    <3>1. /\ matched' = matched /\ users[b] = matched[b] /\ account[b] \in Accounts
          /\ matched[b] = Asked(b) \cup left[b] \cup {account[b]} /\ Told(b) = groups[b]
      BY <1>1, <1>4, <1>11, <2>2 DEF CallInv
    <3>2. CASE how \in {"ok", "size_limit"}
      <4>1. told'[b] = told[b] \cup {<<account[b], part>>}
        BY <1>1, <2>2, <3>2 DEF CallsInv, CallsOK
      <4>2. Asked(b)' = Asked(b) \cup {account[b]} /\ Told(b)' = Told(b) \cup part
        BY <4>1, AskedMore
      <4>3. matched'[b] = Asked(b)' \cup left'[b] /\ Told(b)' = groups'[b] \cup found'[b]
        BY <1>2, <1>9, <3>1, <4>2
      <4>. QED BY <1>2, <1>3, <1>9, <1>10, <2>2, <3>1, <3>2, <4>3 DEF CallInv
    <3>3. CASE how \notin {"ok", "size_limit"}
      <4>1. Asked(b)' = Asked(b) /\ Told(b)' = Told(b)
        BY <1>1, <3>3 DEF Asked, Told
      <4>. QED BY <1>2, <1>3, <1>9, <1>10, <2>2, <3>1, <3>3, <4>1 DEF CallInv
    <3>. QED BY <3>2, <3>3
  <2>. QED BY <1>3, <2>1, <2>2
<1>13. WholeAt(b)'
  BY <1>2, <1>3 DEF WholeAt
<1>. QED BY <1>6, <1>7, <1>8, <1>12, <1>13, OneCall

(* A call that concludes early fails, or has matched nothing. *)
LEMMA ConcludeKeeps ==
    ASSUME CallsInv, NEW b \in Borrowers, NEW ok \in BOOLEAN, Conclude(b, ok),
           at[b] \in {"returned", "failed"}, UNCHANGED poolVars,
           ok => matched[b] = {} /\ told[b] = {}
    PROVE  CallsInv'
<1>1. /\ stage' = [stage EXCEPT ![b] = "over"]
      /\ success' = [success EXCEPT ![b] = ok]
      /\ found' = [found EXCEPT ![b] = {}]
      /\ users' = [users EXCEPT ![b] = {}]
      /\ groups' = [groups EXCEPT ![b] = {}]
      /\ left' = [left EXCEPT ![b] = {}]
      /\ account' = [account EXCEPT ![b] = Nil]
      /\ UNCHANGED <<at, verdict, directory>>
  BY DEF Conclude, Enter, poolVars
<1>7. \/ UNCHANGED <<matched, told>>
      \/ ~ok /\ matched' = [matched EXCEPT ![b] = {}] /\ told' = [told EXCEPT ![b] = {}]
  BY DEF Conclude, historyVars
<1>2. PlacesOK' BY <1>1 DEF CallsInv, PlacesOK
<1>3. CallsOK' BY <1>1, <1>7 DEF CallsInv, CallsOK
<1>4. /\ stage'[b] = "over" /\ success'[b] = ok /\ found'[b] = {}
      /\ users'[b] = {} /\ groups'[b] = {}
      /\ \A c \in Borrowers \ {b} : Same(c)
  BY <1>1, <1>7 DEF CallsInv, CallsOK, Same
<1>5. CallInv(b)' BY <1>1, <1>4 DEF CallInv
<1>6. WholeAt(b)'
  <2>1. CASE ~ok BY <1>4, <2>1 DEF WholeAt
  <2>2. CASE ok
    <3>1. matched'[b] = {} /\ told'[b] = {} BY <1>7, <2>2
    <3>2. Asked(b)' = {} /\ Told(b)' = {} BY <3>1 DEF Asked, Told
    <3>. QED BY <1>4, <3>1, <3>2 DEF WholeAt
  <2>. QED BY <2>1, <2>2
<1>. QED BY <1>2, <1>3, <1>4, <1>5, <1>6, OneCall

LEMMA UserUnreachedKeeps ==
    ASSUME CallsInv, NEW b \in Borrowers, UserUnreached(b)
    PROVE  CallsInv'
  BY ConcludeKeeps DEF UserUnreached

LEMMA UserNotFoundKeeps ==
    ASSUME CallsInv, NEW b \in Borrowers, UserNotFound(b)
    PROVE  CallsInv'
<1>1. stage[b] = "user" /\ (verdict[b] # "ok" \/ found[b] = {})
  BY DEF UserNotFound
<1>2. CallInv(b) BY DEF CallsInv, StageInv
<1>3. matched[b] = {} /\ told[b] = {} BY <1>1, <1>2 DEF CallInv
<1>. QED BY <1>3, ConcludeKeeps DEF UserNotFound

LEMMA GroupsFailedKeeps ==
    ASSUME CallsInv, NEW b \in Borrowers, GroupsFailed(b)
    PROVE  CallsInv'
<1>1. at[b] \in {"returned", "failed"}
  BY DEF GroupsFailed, GroupSearchFailed
<1>. QED BY <1>1, ConcludeKeeps DEF GroupsFailed

LEMMA UserFoundKeeps ==
    ASSUME CallsInv, NEW b \in Borrowers, UserFound(b)
    PROVE  CallsInv'
<1>1. PICK a \in found[b] : SearchGroupsOf(b, a, found[b] \ {a})
  BY DEF UserFound
<1>2. /\ stage[b] = "user" /\ at[b] = "returned" /\ verdict[b] = "ok"
      /\ users' = [users EXCEPT ![b] = found[b]]
      /\ found' = [found EXCEPT ![b] = {}]
      /\ stage' = [stage EXCEPT ![b] = "group"]
      /\ at' = [at EXCEPT ![b] = "get"]
      /\ account' = [account EXCEPT ![b] = a]
      /\ left' = [left EXCEPT ![b] = found[b] \ {a}]
      /\ UNCHANGED <<verdict, directory, groups, success, matched, told>>
  BY <1>1 DEF UserFound, SearchGroupsOf, Ask, Goto, Enter, historyVars
<1>3. CallInv(b) BY DEF CallsInv, StageInv
<1>4. /\ found[b] \subseteq Accounts /\ matched[b] = found[b]
      /\ told[b] = {} /\ groups[b] = {}
  BY <1>2, <1>3 DEF CallInv, Unused
<1>5. PlacesOK' BY <1>2 DEF CallsInv, PlacesOK, Locations
<1>6. CallsOK' BY <1>2, <1>4 DEF CallsInv, CallsOK
<1>7. /\ users'[b] = found[b] /\ found'[b] = {} /\ stage'[b] = "group"
      /\ at'[b] = "get" /\ account'[b] = a /\ left'[b] = found[b] \ {a}
      /\ \A c \in Borrowers \ {b} : Same(c)
  BY <1>2 DEF CallsInv, PlacesOK, CallsOK, Same
<1>8. Asked(b)' = {} /\ Told(b)' = {} BY <1>2, <1>4 DEF Asked, Told
<1>9. ~Unused(b)' BY <1>7 DEF Unused
<1>10. CallInv(b)' BY <1>2, <1>4, <1>7, <1>8, <1>9 DEF CallInv
<1>11. WholeAt(b)' BY <1>7 DEF WholeAt
<1>. QED BY <1>5, <1>6, <1>7, <1>10, <1>11, OneCall

LEMMA GroupsFoundKeeps ==
    ASSUME CallsInv, NEW b \in Borrowers, GroupsFound(b)
    PROVE  CallsInv'
<1>1. /\ stage[b] = "group" /\ at[b] = "returned" /\ ~GroupSearchFailed(b)
      /\ groups' = [groups EXCEPT ![b] = @ \cup found[b]]
      /\ found' = [found EXCEPT ![b] = {}]
      /\ UNCHANGED <<directory, users, verdict, matched, told>>
  BY DEF GroupsFound, SearchGroupsOf, Ask, poolVars, historyVars
<1>2. CallInv(b) BY DEF CallsInv, StageInv
<1>3. Unused(b)
  BY <1>1 DEF Unused, GroupSearchFailed, CallsInv, PlacesOK, Verdicts
<1>4. /\ found[b] \subseteq Groups /\ users[b] = matched[b]
      /\ matched[b] = Asked(b) \cup left[b] /\ Told(b) = groups[b] \cup found[b]
  BY <1>1, <1>2, <1>3 DEF CallInv
<1>5. groups' \in [Borrowers -> SUBSET Groups]
  BY <1>1, <1>4 DEF CallsInv, CallsOK
<1>6. groups'[b] = groups[b] \cup found[b] /\ found'[b] = {}
  BY <1>1 DEF CallsInv, CallsOK
<1>7. Asked(b)' = Asked(b) /\ Told(b)' = Told(b) BY <1>1 DEF Asked, Told
<1>8. CASE left[b] = {}
  <2>1. /\ stage' = [stage EXCEPT ![b] = "over"]
        /\ success' = [success EXCEPT ![b] = TRUE]
        /\ account' = [account EXCEPT ![b] = Nil]
        /\ UNCHANGED <<at, left>>
    BY <1>8 DEF GroupsFound, Enter, poolVars
  <2>2. PlacesOK' BY <1>1, <2>1 DEF CallsInv, PlacesOK
  <2>3. CallsOK' BY <1>1, <1>5, <2>1 DEF CallsInv, CallsOK
  <2>4. stage'[b] = "over" /\ \A c \in Borrowers \ {b} : Same(c)
    BY <1>1, <2>1 DEF CallsInv, CallsOK, Same
  <2>5. CallInv(b)' BY <1>1, <2>1, <2>4 DEF CallInv
  <2>6. WholeAt(b)' BY <1>1, <1>4, <1>6, <1>7, <1>8 DEF WholeAt
  <2>. QED BY <2>2, <2>3, <2>4, <2>5, <2>6, OneCall
<1>9. CASE left[b] # {}
  <2>1. PICK a \in left[b] : SearchGroupsOf(b, a, left[b] \ {a})
    BY <1>9 DEF GroupsFound
  <2>2. /\ account' = [account EXCEPT ![b] = a]
        /\ left' = [left EXCEPT ![b] = left[b] \ {a}]
        /\ at' = [at EXCEPT ![b] = "get"]
        /\ UNCHANGED <<stage, success>>
    BY <1>9, <2>1 DEF GroupsFound, SearchGroupsOf, Ask, Goto
  <2>3. a \in Accounts BY DEF CallsInv, CallsOK
  <2>4. PlacesOK' BY <1>1, <2>2 DEF CallsInv, PlacesOK, Locations
  <2>5. CallsOK' BY <1>1, <1>5, <2>2, <2>3 DEF CallsInv, CallsOK
  <2>6. /\ account'[b] = a /\ left'[b] = left[b] \ {a} /\ at'[b] = "get"
        /\ \A c \in Borrowers \ {b} : Same(c)
    BY <1>1, <2>2 DEF CallsInv, PlacesOK, CallsOK, Same
  <2>7. ~Unused(b)' BY <2>6 DEF Unused
  <2>8. matched'[b] = Asked(b)' \cup left'[b] \cup {account'[b]} /\ Told(b)' = groups'[b]
    BY <1>1, <1>4, <1>6, <1>7, <2>6
  <2>9. CallInv(b)' BY <1>1, <1>4, <2>2, <2>3, <2>6, <2>7, <2>8 DEF CallInv
  <2>10. WholeAt(b)' BY <1>1, <2>2 DEF WholeAt
  <2>. QED BY <2>4, <2>5, <2>6, <2>9, <2>10, OneCall
<1>. QED BY <1>8, <1>9

LEMMA EndKeeps ==
    ASSUME CallsInv, NEW b \in Borrowers, End(b)
    PROVE  CallsInv'
<1>1. /\ at' = [at EXCEPT ![b] = "idle"]
      /\ verdict' = [verdict EXCEPT ![b] = "ok"]
      /\ stage' = [stage EXCEPT ![b] = "rest"]
      /\ found' = [found EXCEPT ![b] = {}]
      /\ users' = [users EXCEPT ![b] = {}]
      /\ groups' = [groups EXCEPT ![b] = {}]
      /\ success' = [success EXCEPT ![b] = FALSE]
      /\ matched' = [matched EXCEPT ![b] = {}]
      /\ told' = [told EXCEPT ![b] = {}]
      /\ UNCHANGED <<directory, left, account>>
  BY DEF End, Leave, Goto, Enter
<1>2. PlacesOK' BY <1>1 DEF CallsInv, PlacesOK, Locations, Verdicts
<1>3. CallsOK' BY <1>1 DEF CallsInv, CallsOK
<1>4. /\ at'[b] = "idle" /\ stage'[b] = "rest" /\ found'[b] = {} /\ users'[b] = {}
      /\ groups'[b] = {} /\ matched'[b] = {} /\ told'[b] = {}
      /\ \A c \in Borrowers \ {b} : Same(c)
  BY <1>1 DEF CallsInv, PlacesOK, CallsOK, Same
<1>5. CallInv(b)' BY <1>4 DEF CallInv
<1>6. WholeAt(b)' BY <1>4 DEF WholeAt
<1>. QED BY <1>2, <1>3, <1>4, <1>5, <1>6, OneCall

LEMMA CallsNext == CallsInv /\ [ProviderNext]_providerVars => CallsInv'
<1>. SUFFICES ASSUME CallsInv, [ProviderNext]_providerVars PROVE CallsInv'
  OBVIOUS
<1>1. ASSUME NEW b \in Borrowers, ResolveStep(b) PROVE CallsInv'
  BY <1>1, UserUnreachedKeeps, UserNotFoundKeeps, UserFoundKeeps, GroupsFailedKeeps,
     GroupsFoundKeeps DEF ResolveStep
<1>2. CASE (\E k \in Conns : ConnDrops(k)) /\ UNCHANGED <<directory, resolveVars>>
  BY <1>2, NoCall DEF ConnDrops, CallsInv, CallsOK
<1>3. CASE DirectoryMoves
  BY <1>3, NoCall DEF DirectoryMoves, poolVars
<1>4. CASE UNCHANGED providerVars
  BY <1>4, NoCall DEF providerVars, poolVars, CallsInv, CallsOK
<1>. QED
  BY <1>1, <1>2, <1>3, <1>4, BeginKeeps, PoolOnlyKeeps, SearchReadsKeeps, EndKeeps
     DEF ProviderNext

(* The stages of every call go with its place in the pool: holds of every
   directory, pool and number of calls (ldap.go:88-119). *)
THEOREM ProviderInductive == ProviderSpec => []ProviderIndInv
<1>1. ProviderSpec => []PoolIndInv
  BY ProviderUsesPool, PoolInductive, PTL
<1>2. ProviderSpec => []CallsInv
  BY CallsInit, CallsNext, PTL DEF ProviderSpec
<1>3. PoolIndInv /\ CallsInv => ProviderIndInv
  BY InvParts DEF PoolIndInv
<1>. QED BY <1>1, <1>2, <1>3, PTL

(* The state of the provider and of its pool keeps its types. *)
THEOREM ProviderTypeCorrect == ProviderSpec => []ProviderTypeOK
<1>1. ProviderIndInv => ProviderTypeOK BY DEF ProviderIndInv
<1>. QED BY <1>1, ProviderInductive, PTL

(* A call that succeeds has every account the user search matched, an answered
   group search for each of them, and all the groups those searches returned:
   for any accounts, any answers cut short and any failures (ldap.go:88-125). *)
THEOREM SuccessesAreWhole == ProviderSpec => []SuccessIsWhole
<1>1. ProviderIndInv => SuccessIsWhole BY DEF ProviderIndInv
<1>. QED BY <1>1, ProviderInductive, PTL

(* No call keeps a slot between two searches or after the last one: what a
   pool needs for calls of several searches not to wait for one another
   (ldap.go:175-184, 230-239). *)
THEOREM SlotsAreForSearches == ProviderSpec => []NoSlotBetweenSearches
<1>1. ProviderIndInv /\ PoolIndInv => NoSlotBetweenSearches
  BY DEF ProviderIndInv, PoolIndInv, OwnershipInv, StageInv, CallInv,
         NoSlotBetweenSearches, HoldsSlot, HoldsConn
<1>2. ProviderSpec => []PoolIndInv
  BY ProviderUsesPool, PoolInductive, PTL
<1>. QED BY <1>1, <1>2, ProviderInductive, PTL
=============================================================================
