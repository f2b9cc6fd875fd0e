---------------------------- MODULE AuthZPhases -----------------------------
(***************************************************************************)
(* internal/dockerapi/handler.go: dockerd asks about one request twice,    *)
(* before it executes it (AuthZReq) and after (AuthZRes).  The handler     *)
(* keeps nothing in between: both calls go through the chain of RuleChain  *)
(* from its beginning, with lookups of their own, and the datasources may  *)
(* have moved on.                                                          *)
(***************************************************************************)
EXTENDS RuleChain

VARIABLE first  \* what dockerd executed: the request as the first phase saw it
                \* and the answers it was allowed on; Nil before

phaseVars == <<vars, first>>

PhasesInit == Init /\ first = Nil

handleAuthZReq(r) ==
    /\ first = Nil
    /\ Receive(r)
    /\ UNCHANGED first

(* The second call carries the fields of the first, with or without the body. *)
handleAuthZRes(r) ==
    /\ first # Nil
    /\ r \in {first.request, WithoutBody(first.request)}
    /\ Receive(r)
    /\ UNCHANGED first

(* dockerd executes what the first phase allows, and only then asks again. *)
AnswerReq ==
    /\ first = Nil
    /\ Respond
    /\ first' = IF verdict = "allow" THEN [request |-> request, heard |-> heard] ELSE Nil

AnswerRes ==
    /\ first # Nil
    /\ Respond
    /\ first' = Nil

(* Decide, and the datasources. *)
Between ==
    /\ \/ Abstain
       \/ \E l \in {"admin", "allowlist"}, s \in Sources : Contribute(l, s)
       \/ AdminRule
       \/ AllowlistRule
       \/ \E g \in Gates : GateRule(g)
       \/ DefaultAllow
       \/ \E s \in Sources : SourceMoves(s)
    /\ UNCHANGED first

PhasesNext ==
    \/ \E r \in Requests : handleAuthZReq(r) \/ handleAuthZRes(r)
    \/ AnswerReq
    \/ AnswerRes
    \/ Between

PhasesSpec == PhasesInit /\ [][PhasesNext]_phaseVars

-----------------------------------------------------------------------------
(* Whatever one lookup was told, the other was told too. *)
ToldAsMuch(before, now) ==
    \A s \in Sources : before[s] \in Answers =>
        \A v \in Variables : \A n \in before[s][v] : Said(now, v, n)

(* The response of what dockerd has executed is not withheld for no reason: the
   second phase allows what the first allowed, with or without its body, unless
   one of its lookups was told less (handler.go:111-124 runs the chain again;
   the allowlist is looked up only for a request that has mounts in it). *)
PhasesAgree ==
    /\ first # Nil /\ request # Nil /\ verdict # Nil
    /\ ToldAsMuch(first.heard["admin"], heard["admin"])
    /\ request.mounts # {} => ToldAsMuch(first.heard["allowlist"], heard["allowlist"])
    => verdict = "allow"
=============================================================================
