----------------------------- MODULE CachedLdap -----------------------------
(***************************************************************************)
(* The ldap provider behind the cache and singleflight decorator: the live *)
(* call of CachedProvider is a whole Resolve of LdapProvider, on the       *)
(* goroutine of the flight's leader.                                       *)
(*                                                                         *)
(* The directory knows no account at version 0 and the account from        *)
(* version 1 on, and never loses it again; a value of version 0 is the     *)
(* empty map.                                                              *)
(***************************************************************************)
EXTENDS Integers, Sequences, FiniteSets

CONSTANTS Callers, Identities, CacheTTL, NegTTL, CacheSize, MaxClock, MaxVersion,
          Conns, Size, Account, Group, Nil

ASSUME OneChange == MaxVersion = 1

ASSUME NumbersAssumption ==
    /\ {CacheTTL, NegTTL, CacheSize, Size} \subseteq Nat \ {0}
    /\ MaxClock \in Nat

ASSUME NilAssumption ==
    /\ Nil \notin Callers \cup Conns
    /\ Nil \notin [of : Identities, version : Nat]

VARIABLES clock, version, entry, recency, flight, pc, want, prev, answer, outcome,
          latest

cacheSide == <<clock, version, entry, recency, flight, pc, want, prev, answer,
               outcome, latest>>

VARIABLES slots, status, at, conn, verdict, expired,
          stage, found, left, account, users, groups, success, matched, told

ldapSide == <<slots, status, at, conn, verdict, expired,
              stage, found, left, account, users, groups, success, matched, told>>

vars == <<cacheSide, ldapSide>>

Cache == INSTANCE CachedProvider

NoAccount == [accounts |-> {}, groups |-> [a \in {Account} |-> {}]]

OneAccount == [accounts |-> {Account}, groups |-> [a \in {Account} |-> {Group}]]

Ldap == INSTANCE LdapProvider WITH
    Borrowers <- Callers,
    Accounts <- {Account},
    Groups <- {Group},
    Directories <- {NoAccount, OneAccount},
    directory <- IF version = 0 THEN NoAccount ELSE OneAccount

Init ==
    /\ Cache!Init
    /\ Ldap!ProviderInit

(* refresh reads prev and enters provider.Resolve (cache.go:163-164). *)
EnterLive(c) ==
    /\ Cache!ReadPrev(c)
    /\ Ldap!Begin(c)

(* The value of an LDAP result: version 1 with the account, or the empty map
   (ldap.go:97-100, 121-124). *)
ResultOf(c) ==
    [of |-> want[c], version |-> IF users[c] = {} THEN 0 ELSE 1]

(* provider.Resolve returns to refresh. *)
LeaveLive(c) ==
    /\ IF success[c] THEN Cache!LiveAnswers(c, ResultOf(c)) ELSE Cache!LiveFails(c)
    /\ Ldap!End(c)

InLive(c) ==
    /\ UNCHANGED cacheSide
    /\ \/ Ldap!PoolOnly(c)
       \/ \E how \in Ldap!Verdicts : Ldap!SearchReads(c, how)
       \/ Ldap!ResolveStep(c)

OutsideLive(c) ==
    /\ \/ \E i \in Identities : Cache!Call(c, i)
       \/ Cache!RejectEmpty(c)
       \/ Cache!Step(c) /\ pc[c] # "leading"
    /\ UNCHANGED ldapSide

Surroundings ==
    \/ (Cache!Flush \/ Cache!Tick \/ Cache!DirectoryChange) /\ UNCHANGED ldapSide
    \/ /\ UNCHANGED <<cacheSide, stage, found, left, account, users, groups, success,
                      matched, told>>
       /\ \E k \in Conns : Ldap!ConnDrops(k)

Next ==
    \/ \E c \in Callers :
        \/ EnterLive(c)
        \/ LeaveLive(c)
        \/ InLive(c)
        \/ OutsideLive(c)
    \/ Surroundings

Spec == Init /\ [][Next]_vars

-----------------------------------------------------------------------------
(* Properties *)

(* The callers in a live call, and the identities they refresh. *)
Live == {c \in Callers : pc[c] = "live"}

Refreshing == {want[c] : c \in Live}

(* Request coalescing keeps the pool from running dry: while no more identities
   are being refreshed than there are slots, a live call never waits for a
   connection, however many requests arrive at once (cache.go:145,
   pool.go:52-69). *)
CoalescingSparesPool ==
    Cardinality(Refreshing) <= Size =>
        \A c \in Callers : at[c] = "get" => slots # <<>>

(* README.md:217: a failed refresh keeps serving the last good value.  Here the
   directory never loses the account, so a refresh that searched it finds it:
   only a failed one can put an older value, or none, in place of an entry. *)
FailedRefreshKeepsValue ==
    [][\A i \in Identities :
          Cache!HasValue(entry[i]) =>
              \/ entry'[i] = Cache!Absent
              \/ Cache!HasValue(entry'[i])
                 /\ entry'[i].value.version >= entry[i].value.version]_vars
=============================================================================
