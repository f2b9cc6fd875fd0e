---------------------------- MODULE LdapProvider ----------------------------
(***************************************************************************)
(* internal/datasources/ldap/ldap.go: Resolve, a user_search followed by   *)
(* one group_search per matched account, each of them a get, a search and  *)
(* a put of the shared pool (module LdapPool).                             *)
(*                                                                         *)
(* The directory answers for one identity: the accounts its user_search    *)
(* matches (entries whose configured attribute is empty left out, as       *)
(* resolveUser does) and the groups of each account.  It may change        *)
(* between any two searches of a call.                                     *)
(***************************************************************************)
EXTENDS LdapPool

CONSTANTS
    Accounts,
    Groups,
    Directories  \* the contents the directory may have

ASSUME DirectoriesAssumption ==
    Directories \subseteq
        [accounts : SUBSET Accounts, groups : [Accounts -> SUBSET Groups]]

VARIABLES
    directory,  \* the content of the directory now
    stage,      \* rest, user, group or over, for each call of Resolve
    found,      \* the entries the last search of each call returned, until
                \* Resolve has used them
    left,       \* the accounts whose groups are still to be searched; the
                \* one being searched is account, until Resolve returns
    account,
    users,      \* usernames collected: the accounts themselves
    groups,     \* groups collected
    success,    \* for a call that is over: whether its error is nil
    matched,    \* history: the accounts the user search of a call returned
    told        \* history: each group search of a call that was answered, as
                \* its account and the groups returned for it

historyVars == <<matched, told>>
resolveVars == <<stage, found, left, account, users, groups, success, historyVars>>
providerVars == <<poolVars, directory, resolveVars>>

ProviderInit ==
    /\ PoolInit
    /\ directory \in Directories
    /\ stage = [b \in Borrowers |-> "rest"]
    /\ found = [b \in Borrowers |-> {}]
    /\ left = [b \in Borrowers |-> {}]
    /\ account = [b \in Borrowers |-> Nil]
    /\ users = [b \in Borrowers |-> {}]
    /\ groups = [b \in Borrowers |-> {}]
    /\ success = [b \in Borrowers |-> FALSE]
    /\ matched = [b \in Borrowers |-> {}]
    /\ told = [b \in Borrowers |-> {}]

Enter(b, s) == stage' = [stage EXCEPT ![b] = s]

(* Resolve, lines 88-93, up to the get of resolveUser. *)
Begin(b) ==
    /\ stage[b] = "rest"
    /\ Ask(b)
    /\ Enter(b, "user")
    /\ UNCHANGED <<directory, found, left, account, users, groups, success, historyVars>>

(* A search that is answered reads the directory as it is now; size_limit
   returns some of the entries, which only resolveGroups takes for an answer. *)
Answering(b) ==
    IF stage[b] = "user" THEN directory.accounts ELSE directory.groups[account[b]]

SearchReads(b, how) ==
    /\ SearchEnds(b, how)
    /\ \E part \in SUBSET Answering(b) :
        /\ how = "ok" => part = Answering(b)
        /\ how \in {"ldap_error", "net_error"} => part = {}
        /\ found' = [found EXCEPT ![b] = part]
        /\ matched' = IF stage[b] = "user" /\ how = "ok"
                      THEN [matched EXCEPT ![b] = part] ELSE matched
        /\ told' = IF stage[b] = "group" /\ how \in {"ok", "size_limit"}
                   THEN [told EXCEPT ![b] = @ \cup {<<account[b], part>>}] ELSE told
    /\ UNCHANGED <<directory, stage, left, account, users, groups, success>>

(* Resolve returns an empty map; nothing is kept of a call that failed. *)
Conclude(b, ok) ==
    /\ Enter(b, "over")
    /\ success' = [success EXCEPT ![b] = ok]
    /\ found' = [found EXCEPT ![b] = {}]
    /\ users' = [users EXCEPT ![b] = {}]
    /\ groups' = [groups EXCEPT ![b] = {}]
    /\ left' = [left EXCEPT ![b] = {}]
    /\ account' = [account EXCEPT ![b] = Nil]
    /\ IF ok THEN UNCHANGED historyVars
       ELSE matched' = [matched EXCEPT ![b] = {}] /\ told' = [told EXCEPT ![b] = {}]
    /\ UNCHANGED directory

(* resolveUser could not get a connection: an error (lines 171-174, 94-96). *)
UserUnreached(b) ==
    /\ stage[b] = "user"
    /\ at[b] = "failed"
    /\ Conclude(b, FALSE)
    /\ UNCHANGED poolVars

(* Mutant: an early return on a failed or empty search leaves the connection
   out of the pool. *)
UserNotFoundKeepsConn(b) ==
    /\ stage[b] = "user"
    /\ at[b] = "put"
    /\ verdict[b] # "ok" \/ found[b] = {}
    /\ Conclude(b, TRUE)
    /\ UNCHANGED poolVars

(* Any error of the search itself, and no match at all, are an empty result
   without an error (lines 185-187, 200, 97-100). *)
UserNotFound(b) ==
    /\ stage[b] = "user"
    /\ at[b] = "returned"
    /\ verdict[b] # "ok" \/ found[b] = {}
    /\ Conclude(b, TRUE)
    /\ UNCHANGED poolVars

(* Mutant: the next search runs on the connection that was just put back. *)
SearchGroupsWithoutGet(b, a, rest) ==
    /\ account' = [account EXCEPT ![b] = a]
    /\ left' = [left EXCEPT ![b] = rest]
    /\ Goto(b, "search")
    /\ UNCHANGED <<slots, status, conn, verdict, expired>>

(* The next search starts with pool.get, on the same context. *)
SearchGroupsOf(b, a, rest) ==
    /\ account' = [account EXCEPT ![b] = a]
    /\ left' = [left EXCEPT ![b] = rest]
    /\ Ask(b)

(* Lines 102-108: every match contributes its username, then its groups. *)
UserFound(b) ==
    /\ stage[b] = "user"
    /\ at[b] = "returned"
    /\ verdict[b] = "ok"
    /\ users' = [users EXCEPT ![b] = found[b]]
    /\ \E a \in found[b] : SearchGroupsOf(b, a, found[b] \ {a})
    /\ found' = [found EXCEPT ![b] = {}]
    /\ Enter(b, "group")
    /\ UNCHANGED <<directory, groups, success, historyVars>>

GroupSearchFailed(b) ==
    \/ at[b] = "failed"
    \/ at[b] = "returned" /\ verdict[b] \in {"ldap_error", "net_error"}

(* Mutant: after a failed group search the loop goes on with the next account,
   as if this one had no groups. *)
GroupsFailedSkipped(b) ==
    /\ stage[b] = "group"
    /\ GroupSearchFailed(b)
    /\ IF left[b] = {}
       THEN /\ Enter(b, "over")
            /\ success' = [success EXCEPT ![b] = TRUE]
            /\ UNCHANGED <<at, left, account>>
       ELSE /\ \E a \in left[b] :
                /\ account' = [account EXCEPT ![b] = a]
                /\ left' = [left EXCEPT ![b] = left[b] \ {a}]
            /\ Goto(b, "get")
            /\ UNCHANGED <<stage, success>>
    /\ UNCHANGED <<slots, status, conn, verdict, expired, directory, found, users, groups,
                   historyVars>>

(* Lines 109-111, 227, 241-243: no group, or one account's groups only, are
   never returned in place of an error. *)
GroupsFailed(b) ==
    /\ stage[b] = "group"
    /\ GroupSearchFailed(b)
    /\ Conclude(b, FALSE)
    /\ UNCHANGED poolVars

GroupsFound(b) ==
    /\ stage[b] = "group"
    /\ at[b] = "returned"
    /\ ~GroupSearchFailed(b)
    /\ groups' = [groups EXCEPT ![b] = @ \cup found[b]]
    /\ found' = [found EXCEPT ![b] = {}]
    /\ IF left[b] = {}
       THEN /\ Enter(b, "over")
            /\ success' = [success EXCEPT ![b] = TRUE]
            /\ account' = [account EXCEPT ![b] = Nil]
            /\ UNCHANGED <<poolVars, left>>
       ELSE /\ \E a \in left[b] : SearchGroupsOf(b, a, left[b] \ {a})
            /\ UNCHANGED <<stage, success>>
    /\ UNCHANGED <<directory, users, historyVars>>

(* The caller takes what Resolve has returned. *)
End(b) ==
    /\ stage[b] = "over"
    /\ Leave(b)
    /\ Enter(b, "rest")
    /\ found' = [found EXCEPT ![b] = {}]
    /\ users' = [users EXCEPT ![b] = {}]
    /\ groups' = [groups EXCEPT ![b] = {}]
    /\ success' = [success EXCEPT ![b] = FALSE]
    /\ matched' = [matched EXCEPT ![b] = {}]
    /\ told' = [told EXCEPT ![b] = {}]
    /\ UNCHANGED <<directory, left, account>>

ResolveStep(b) ==
    \/ UserUnreached(b)
    \/ UserNotFound(b)
    \/ UserFound(b)
    \/ GroupsFailed(b)
    \/ GroupsFound(b)

PoolOnly(b) ==
    /\ PoolStep(b) \/ Connecting(b) \/ Binding(b) \/ Expire(b)
    /\ UNCHANGED <<directory, resolveVars>>

DirectoryMoves ==
    /\ \E d \in Directories : d # directory /\ directory' = d
    /\ UNCHANGED <<poolVars, resolveVars>>

ProviderNext ==
    \/ \E b \in Borrowers :
        \/ Begin(b)
        \/ PoolOnly(b)
        \/ \E how \in Verdicts : SearchReads(b, how)
        \/ ResolveStep(b)
        \/ End(b)
    \/ \E k \in Conns : ConnDrops(k) /\ UNCHANGED <<directory, resolveVars>>
    \/ DirectoryMoves

ProviderSpec == ProviderInit /\ [][ProviderNext]_providerVars

(* A goroutine that can take a step takes one, connecting ends, for its dialer
   carries a timeout, and deadlines pass.  Nothing makes the server answer a
   bind or a search. *)
GoroutineStep(b) ==
    \/ (PoolStep(b) \/ Connecting(b)) /\ UNCHANGED <<directory, resolveVars>>
    \/ ResolveStep(b)
    \/ End(b)

ProviderFairness ==
    \A b \in Borrowers :
        /\ WF_providerVars(GoroutineStep(b))
        /\ WF_providerVars(Expire(b) /\ UNCHANGED <<directory, resolveVars>>)

(* Beyond that, a server that answers every bind and every search. *)
ServerAnswers(b) ==
    \/ Binding(b) /\ UNCHANGED <<directory, resolveVars>>
    \/ \E how \in Verdicts : SearchReads(b, how)

ServerFairness == \A b \in Borrowers : WF_providerVars(ServerAnswers(b))

SilentServerSpec == ProviderSpec /\ ProviderFairness

-----------------------------------------------------------------------------
(* Properties *)

ProviderTypeOK ==
    /\ PoolTypeOK
    /\ directory \in Directories
    /\ stage \in [Borrowers -> {"rest", "user", "group", "over"}]
    /\ found \in [Borrowers -> SUBSET (Accounts \cup Groups)]
    /\ left \in [Borrowers -> SUBSET Accounts]
    /\ account \in [Borrowers -> Accounts \cup {Nil}]
    /\ users \in [Borrowers -> SUBSET Accounts]
    /\ groups \in [Borrowers -> SUBSET Groups]
    /\ success \in [Borrowers -> BOOLEAN]
    /\ matched \in [Borrowers -> SUBSET Accounts]
    /\ told \in [Borrowers -> SUBSET (Accounts \X SUBSET Groups)]

(* The accounts whose group search was answered during a call, and all the
   groups those searches returned. *)
Asked(b) == {t[1] : t \in told[b]}

Told(b) == UNION {t[2] : t \in told[b]}

(* A success is the whole answer: its usernames are all those the user search
   returned, a group search was answered for each of them during this call, and
   the groups are everything those searches returned.  A search that fails, in
   the middle or last, cannot be skipped, nor an account forgotten in the loop
   (ldap.go:105-124); a user search that fails or matches nothing gives neither
   usernames nor groups (97-100). *)
SuccessIsWhole ==
    \A b \in Borrowers :
        stage[b] = "over" /\ success[b] =>
            /\ users[b] = matched[b]
            /\ Asked(b) = matched[b]
            /\ groups[b] = Told(b)

(* A call owns a pool slot only while a search is under way, so that calls
   running several searches each cannot hold slots and wait for one another,
   and a call that is over has given everything back. *)
NoSlotBetweenSearches ==
    \A b \in Borrowers :
        /\ stage[b] \in {"rest", "over"} => at[b] \notin HoldsSlot
        /\ at[b] \notin HoldsSlot => conn[b] = Nil

(* The last search of a call was answered and Resolve has yet to use it. *)
Unused(b) == at[b] \in {"put", "returned"} /\ verdict[b] \in {"ok", "size_limit"}

(* What the stages of a call have to do with where it is in the pool, what each
   of them has collected, and which of the accounts matched have been searched
   so far: with it, the properties above are inductive. *)
CallInv(b) ==
    /\ stage[b] = "rest" <=> at[b] = "idle"
    /\ stage[b] = "over" => at[b] \in {"returned", "failed"}
    /\ stage[b] \in {"rest", "user"} =>
        users[b] = {} /\ groups[b] = {} /\ told[b] = {} /\ found[b] \subseteq Accounts
    /\ stage[b] = "rest" => matched[b] = {}
    /\ stage[b] = "user" =>
        matched[b] = IF Unused(b) /\ verdict[b] = "ok" THEN found[b] ELSE {}
    /\ stage[b] = "group" =>
        /\ account[b] \in Accounts
        /\ at[b] \in {"put", "returned"} => found[b] \subseteq Groups
        /\ users[b] = matched[b]
        /\ Unused(b) =>
            matched[b] = Asked(b) \cup left[b] /\ Told(b) = groups[b] \cup found[b]
        /\ ~Unused(b) =>
            matched[b] = Asked(b) \cup left[b] \cup {account[b]} /\ Told(b) = groups[b]

StageInv == \A b \in Borrowers : CallInv(b)

ProviderIndInv == ProviderTypeOK /\ StageInv /\ SuccessIsWhole

(* With a server that answers, every call ends, however many searches it runs
   and however small the pool. *)
ResolveEnds ==
    ServerFairness => \A b \in Borrowers : stage[b] # "rest" ~> stage[b] = "rest"

(* README.md:219 and the comment on Provider (provider.go:20-24): the deadline
   of the context limits a live call. *)
DeadlineEndsCall ==
    \A b \in Borrowers : stage[b] # "rest" /\ expired[b] ~> stage[b] = "rest"
=============================================================================
