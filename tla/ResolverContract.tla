-------------------------- MODULE ResolverContract --------------------------
(***************************************************************************)
(* What a resolver promises the rules that call it, apart from how it      *)
(* caches: concurrent calls, each answered with nothing or with a value of *)
(* the identity asked about; the values given for one identity never go    *)
(* back in time, whichever caller they are given to, and are never newer   *)
(* than the directory.  One answer may serve any number of callers that    *)
(* ask for the same identity.                                              *)
(***************************************************************************)
EXTENDS Integers

CONSTANTS Callers, Identities, Nil

VARIABLES
    version,  \* the version the directory is at
    call,     \* idle, pending or done, for each caller
    want,     \* the identity each caller asks about
    given,    \* what a caller that is done was given
    latest    \* the version of the last value given for each identity

vars == <<version, call, want, given, latest>>

Init ==
    /\ version = 0
    /\ call = [c \in Callers |-> "idle"]
    /\ want \in [Callers -> Identities]
    /\ given = [c \in Callers |-> Nil]
    /\ latest = [i \in Identities |-> 0]

Ask(c, i) ==
    /\ call[c] = "idle"
    /\ call' = [call EXCEPT ![c] = "pending"]
    /\ want' = [want EXCEPT ![c] = i]
    /\ UNCHANGED <<version, given, latest>>

(* A request without an identity is answered with nothing at once. *)
Refuse(c) ==
    /\ call[c] = "idle"
    /\ call' = [call EXCEPT ![c] = "done"]
    /\ UNCHANGED <<version, want, given, latest>>

Finish(S) ==
    /\ S # {}
    /\ \A c \in S : call[c] = "pending"
    /\ call' = [c \in Callers |-> IF c \in S THEN "done" ELSE call[c]]

Answer(S, i, n) ==
    /\ Finish(S)
    /\ \A c \in S : want[c] = i
    /\ latest[i] <= n
    /\ n <= version
    /\ given' = [c \in Callers |->
                    IF c \in S THEN [of |-> i, version |-> n] ELSE given[c]]
    /\ latest' = [latest EXCEPT ![i] = n]
    /\ UNCHANGED <<version, want>>

GiveNothing(S) ==
    /\ Finish(S)
    /\ UNCHANGED <<version, want, given, latest>>

Leave(c) ==
    /\ call[c] = "done"
    /\ call' = [call EXCEPT ![c] = "idle"]
    /\ given' = [given EXCEPT ![c] = Nil]
    /\ UNCHANGED <<version, want, latest>>

Advance ==
    /\ version' = version + 1
    /\ UNCHANGED <<call, want, given, latest>>

Next ==
    \/ \E c \in Callers :
        \/ \E i \in Identities : Ask(c, i)
        \/ Refuse(c)
        \/ Leave(c)
    \/ \E S \in SUBSET Callers :
        \/ \E i \in Identities : \E n \in 0..version : Answer(S, i, n)
        \/ GiveNothing(S)
    \/ Advance

Spec == Init /\ [][Next]_vars
=============================================================================
