------------------------------ MODULE LdapPool ------------------------------
(***************************************************************************)
(* internal/datasources/ldap/pool.go: a channel of at most Size LDAP       *)
(* connections, shared by every goroutine that runs a search.              *)
(*                                                                         *)
(* A borrower is one goroutine between pool.get and pool.put:              *)
(*   idle     -> not using the pool                                        *)
(*   get      -> at the select of get (line 52)                            *)
(*   dial     -> has taken a slot without a usable connection (line 60)    *)
(*   bind     -> connected, simple bind under way (line 109)               *)
(*   refund   -> the dial failed, the slot not yet handed back (line 64)   *)
(*   search   -> owns a connection, conn.Search under way                  *)
(*   put      -> the search is over, the connection not yet put back       *)
(*   returned -> put is done; verdict says how the search went             *)
(*   failed   -> get gave an error, there was no search                    *)
(* A slot holds a connection or Nil.  A connection is up until the server  *)
(* or the network drops it, then closing until the code closes it.         *)
(***************************************************************************)
EXTENDS Integers, Sequences, FiniteSets

CONSTANTS
    Borrowers,  \* goroutines that may search at once
    Conns,      \* connection objects; more than Size of them, so that the
                \* bound on open connections is the pool's doing
    Size,       \* pool_size, defaulted by New to a positive number
    Nil

ASSUME SizeAssumption == Size \in Nat \ {0}

ASSUME PoolNilAssumption == Nil \notin Conns

VARIABLES
    slots,    \* the channel: a queue of connections and Nil placeholders
    status,   \* none, up or closing, for each connection
    at,       \* where each borrower is
    conn,     \* the connection each borrower owns, or Nil
    verdict,  \* how each borrower's last search went, one of Verdicts
    expired   \* whether the borrower's context is done

poolVars == <<slots, status, at, conn, verdict, expired>>

Goto(b, l) == at' = [at EXCEPT ![b] = l]

Close(k) == status' = [status EXCEPT ![k] = "none"]

(* IsClosing. *)
Usable(k) == k # Nil /\ status[k] = "up"

-----------------------------------------------------------------------------
(* newPool, with lazily filled slots. *)
PoolInit ==
    /\ slots = [s \in 1..Size |-> Nil]
    /\ status = [k \in Conns |-> "none"]
    /\ at = [b \in Borrowers |-> "idle"]
    /\ conn = [b \in Borrowers |-> Nil]
    /\ verdict = [b \in Borrowers |-> "ok"]
    /\ expired = [b \in Borrowers |-> FALSE]

(* get, lines 53-56: the slot has a usable connection. *)
TakeUsable(b) ==
    /\ at[b] = "get"
    /\ slots # <<>>
    /\ Usable(Head(slots))
    /\ conn' = [conn EXCEPT ![b] = Head(slots)]
    /\ slots' = Tail(slots)
    /\ Goto(b, "search")
    /\ UNCHANGED <<status, verdict, expired>>

(* Mutant: a slot whose connection is closing is redialed without closing it. *)
TakeSlotUnclosed(b) ==
    /\ at[b] = "get"
    /\ slots # <<>>
    /\ ~Usable(Head(slots))
    /\ slots' = Tail(slots)
    /\ Goto(b, "dial")
    /\ UNCHANGED <<status, conn, verdict, expired>>

(* get, lines 57-60: the slot is empty, or its connection is closed first. *)
TakeSlot(b) ==
    /\ at[b] = "get"
    /\ slots # <<>>
    /\ ~Usable(Head(slots))
    /\ IF Head(slots) = Nil THEN UNCHANGED status ELSE Close(Head(slots))
    /\ slots' = Tail(slots)
    /\ Goto(b, "dial")
    /\ UNCHANGED <<conn, verdict, expired>>

(* Mutant: the select has no ctx.Done case. *)
NeverGiveUp(b) ==
    /\ FALSE
    /\ UNCHANGED poolVars

(* get, lines 68-69.  With a slot ready as well, select picks either case. *)
GiveUp(b) ==
    /\ at[b] = "get"
    /\ expired[b]
    /\ Goto(b, "failed")
    /\ UNCHANGED <<slots, status, conn, verdict, expired>>

(* dialAndBind, lines 97-114: connect, then bind. *)
DialConnects(b, k) ==
    /\ at[b] = "dial"
    /\ status[k] = "none"
    /\ status' = [status EXCEPT ![k] = "up"]
    /\ conn' = [conn EXCEPT ![b] = k]
    /\ Goto(b, "bind")
    /\ UNCHANGED <<slots, verdict, expired>>

DialFails(b) ==
    /\ at[b] = "dial"
    /\ Goto(b, "refund")
    /\ UNCHANGED <<slots, status, conn, verdict, expired>>

BindAccepted(b) ==
    /\ at[b] = "bind"
    /\ Usable(conn[b])
    /\ Goto(b, "search")
    /\ UNCHANGED <<slots, status, conn, verdict, expired>>

BindFails(b) ==
    /\ at[b] = "bind"
    /\ Close(conn[b])
    /\ conn' = [conn EXCEPT ![b] = Nil]
    /\ Goto(b, "refund")
    /\ UNCHANGED <<slots, verdict, expired>>

(* Mutant: a failed dial keeps its slot. *)
DropSlot(b) ==
    /\ at[b] = "refund"
    /\ Goto(b, "failed")
    /\ UNCHANGED <<slots, status, conn, verdict, expired>>

(* get, lines 61-65: the send waits for room in the channel. *)
Refund(b) ==
    /\ at[b] = "refund"
    /\ Len(slots) < Size
    /\ slots' = Append(slots, Nil)
    /\ Goto(b, "failed")
    /\ UNCHANGED <<status, conn, verdict, expired>>

(* conn.Search: the server answers with entries (ok, or size_limit when it
   cuts the list short), or there is an error, which the library returns as a
   *goldap.Error or as something else.  The call takes no context and the
   request carries no time limit, so nothing bounds it. *)
Verdicts == {"ok", "size_limit", "ldap_error", "net_error"}

SearchEnds(b, how) ==
    /\ at[b] = "search"
    /\ how \in {"ok", "size_limit"} => Usable(conn[b])
    /\ verdict' = [verdict EXCEPT ![b] = how]
    /\ Goto(b, "put")
    /\ UNCHANGED <<slots, status, conn, expired>>

(* connHealthyAfterError. *)
HealthyAfter(how) == how # "net_error"

(* Mutant: an unhealthy connection's slot is handed back twice. *)
PutTwice(b) ==
    /\ at[b] = "put"
    /\ Len(slots) < Size
    /\ IF HealthyAfter(verdict[b])
       THEN slots' = slots \o <<conn[b]>> /\ UNCHANGED status
       ELSE slots' = slots \o <<Nil, Nil>> /\ Close(conn[b])
    /\ conn' = [conn EXCEPT ![b] = Nil]
    /\ Goto(b, "returned")
    /\ UNCHANGED <<verdict, expired>>

(* Mutant: the connection is handed back while its search still runs. *)
PutBeforeSearchEnds(b) ==
    /\ at[b] = "search"
    /\ Len(slots) < Size
    /\ slots' = Append(slots, conn[b])
    /\ Goto(b, "put")
    /\ UNCHANGED <<status, conn, verdict, expired>>

(* put, lines 75-82. *)
Put(b) ==
    /\ at[b] = "put"
    /\ Len(slots) < Size
    /\ IF HealthyAfter(verdict[b])
       THEN slots' = Append(slots, conn[b]) /\ UNCHANGED status
       ELSE slots' = Append(slots, Nil) /\ Close(conn[b])
    /\ conn' = [conn EXCEPT ![b] = Nil]
    /\ Goto(b, "returned")
    /\ UNCHANGED <<verdict, expired>>

(* The decision's deadline passes, whatever the borrower is doing. *)
Expire(b) ==
    /\ at[b] # "idle"
    /\ ~expired[b]
    /\ expired' = [expired EXCEPT ![b] = TRUE]
    /\ UNCHANGED <<slots, status, at, conn, verdict>>

(* The server closes a connection, idle in the pool or in use. *)
ConnDrops(k) ==
    /\ status[k] = "up"
    /\ status' = [status EXCEPT ![k] = "closing"]
    /\ UNCHANGED <<slots, at, conn, verdict, expired>>

-----------------------------------------------------------------------------
(* The pool with borrowers that use it one search at a time, on a context that
   may serve for several. *)
Ask(b) ==
    /\ at[b] \in {"idle", "returned"}
    /\ Goto(b, "get")
    /\ UNCHANGED <<slots, status, conn, verdict, expired>>

Leave(b) ==
    /\ at[b] \in {"returned", "failed"}
    /\ Goto(b, "idle")
    /\ expired' = [expired EXCEPT ![b] = FALSE]
    /\ verdict' = [verdict EXCEPT ![b] = "ok"]
    /\ UNCHANGED <<slots, status, conn>>

(* Steps of the code. *)
PoolStep(b) ==
    \/ TakeUsable(b)
    \/ TakeSlot(b)
    \/ GiveUp(b)
    \/ Refund(b)
    \/ Put(b)

(* Steps that wait for the network.  Only the first has a timeout. *)
Connecting(b) ==
    \/ \E k \in Conns : DialConnects(b, k)
    \/ DialFails(b)

Binding(b) ==
    \/ BindAccepted(b)
    \/ BindFails(b)

Searching(b) == \E how \in Verdicts : SearchEnds(b, how)

PoolNext ==
    \/ \E b \in Borrowers :
        \/ Ask(b)
        \/ PoolStep(b)
        \/ Connecting(b)
        \/ Binding(b)
        \/ Searching(b)
        \/ Expire(b)
        \/ Leave(b)
    \/ \E k \in Conns : ConnDrops(k)

PoolSpec == PoolInit /\ [][PoolNext]_poolVars

-----------------------------------------------------------------------------
(* Properties *)

HoldsSlot == {"dial", "bind", "refund", "search", "put"}

HoldsConn == {"bind", "search", "put"}

Locations == {"idle", "get", "returned", "failed"} \cup HoldsSlot

PoolTypeOK ==
    /\ slots \in Seq(Conns \cup {Nil}) /\ Len(slots) <= Size
    /\ status \in [Conns -> {"none", "up", "closing"}]
    /\ at \in [Borrowers -> Locations]
    /\ conn \in [Borrowers -> Conns \cup {Nil}]
    /\ verdict \in [Borrowers -> Verdicts]
    /\ expired \in [Borrowers -> BOOLEAN]

Holders == {b \in Borrowers : at[b] \in HoldsSlot}

(* The channel's occupancy is always the number of slots not checked out
   (the comment on pool, lines 28-31), through failed dials, failed binds and
   unhealthy returns. *)
SlotsConserved ==
    /\ IsFiniteSet(Holders)
    /\ Len(slots) + Cardinality(Holders) = Size

(* Handing a slot back never blocks: there is always room in the channel. *)
PutNeverBlocks ==
    \A b \in Borrowers : at[b] \in {"refund", "put"} => Len(slots) < Size

InSlot(k) == \E s \in 1..Len(slots) : slots[s] = k

(* A connection is in one slot or with one borrower, never in two places: no
   two searches share a connection. *)
ExclusiveConn ==
    /\ \A s, t \in 1..Len(slots) : slots[s] = slots[t] /\ slots[s] # Nil => s = t
    /\ \A b, c \in Borrowers : conn[b] = conn[c] /\ conn[b] # Nil => b = c
    /\ \A b \in Borrowers : conn[b] # Nil => ~InSlot(conn[b])

(* No connection is forgotten: one that was opened and not closed is in a slot
   or with a borrower, so that at most Size of them are open. *)
NoConnLeaked ==
    \A k \in Conns :
        status[k] # "none" => InSlot(k) \/ \E b \in Borrowers : conn[b] = k

OpenConns == {k \in Conns : status[k] # "none"}

ConnsBounded == Cardinality(OpenConns) <= Size

(* The inductive invariant: the four facts above need each other, and that a
   borrower owns a connection exactly between taking and putting it, and a
   slot or a borrower only ever refers to a connection that exists. *)
OwnershipInv ==
    /\ \A b \in Borrowers : at[b] \in HoldsConn <=> conn[b] # Nil
    /\ \A b \in Borrowers : conn[b] # Nil => status[conn[b]] # "none"
    /\ \A s \in 1..Len(slots) : slots[s] # Nil => status[slots[s]] # "none"

PoolIndInv ==
    PoolTypeOK /\ SlotsConserved /\ OwnershipInv /\ ExclusiveConn /\ NoConnLeaked

(* Whoever waits for a slot stops waiting, if only because its deadline
   passes (the comment on get, lines 48-50). *)
GetReturns == \A b \in Borrowers : at[b] = "get" ~> at[b] # "get"
=============================================================================
