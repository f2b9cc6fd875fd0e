------------------------- MODULE ServerReloadProofs -------------------------
(***************************************************************************)
(* Proofs about ServerReload, for any number of requests, reloads and      *)
(* changes of the directory.                                               *)
(***************************************************************************)
EXTENDS ServerReload, TLAPS

(* The bounds are natural numbers. *)
LEMMA Bounds ==
    /\ 0 \in Reloads /\ 0 \in Versions
    /\ Nil \notin Versions
    /\ \A v \in Versions : v \in Int /\ v >= 0
    /\ \A s \in Reloads : s \in Int /\ s >= 0
<1>1. MaxSignals \in Nat /\ MaxVersion \in Nat
  BY ReloadBounds
<1>. QED BY <1>1, ReloadBounds DEF Reloads, Versions

(* At start-up there is one set, and nothing in its cache. *)
LEMMA InitInductive == Init => IndInv
<1>. SUFFICES ASSUME Init PROVE IndInv
  OBVIOUS
<1>. USE DEF Init, Startup
<1>1. TypeOK
  <2>1. FilesOK
    BY DEF FilesOK, Kinds
  <2>2. WatcherOK
    BY Bounds DEF WatcherOK
  <2>3. Startup \in State
    BY Bounds DEF State
  <2>4. ServerOK
    BY <2>3, Bounds DEF ServerOK
  <2>5. RequestsOK
    BY <2>3, Bounds DEF RequestsOK
  <2>. QED BY <2>1, <2>2, <2>4, <2>5 DEF TypeOK
<1>2. LookupInv
  BY Bounds DEF LookupInv, FreshInv, AtLeast
<1>3. ClockInv /\ SetInv /\ CountInv
  BY Bounds DEF ClockInv, SetInv, CountInv
<1>4. DecisionInv /\ FailureChangesNothing /\ ReloadRevokes
  BY DEF DecisionInv, FailureChangesNothing, ReloadRevokes
<1>. QED BY <1>1, <1>2, <1>3, <1>4 DEF IndInv

-----------------------------------------------------------------------------
(* What a step leaves alone keeps its part of the invariant. *)

LEMMA FilesFrame ==
    ASSUME FilesOK, UNCHANGED <<disk, loaded>> PROVE FilesOK'
BY DEF FilesOK

LEMMA WatcherFrame ==
    ASSUME WatcherOK, UNCHANGED watchVars PROVE WatcherOK'
BY DEF WatcherOK, watchVars

LEMMA ServerFrame ==
    ASSUME ServerOK, UNCHANGED <<directory, up, pointers, cache>> PROVE ServerOK'
BY DEF ServerOK, pointers

LEMMA RequestsFrame ==
    ASSUME RequestsOK, UNCHANGED requestVars PROVE RequestsOK'
BY DEF RequestsOK, requestVars

LEMMA LookupFrame ==
    ASSUME LookupInv, UNCHANGED <<floor, active, cache, requestVars>>,
           watch' = "flush" => FreshInv(base)'
    PROVE  LookupInv'
<1>1. FreshInv(floor)'
  BY DEF LookupInv, FreshInv, requestVars
<1>. QED BY <1>1 DEF LookupInv, AtLeast, requestVars

LEMMA SetFrame ==
    ASSUME SetInv, UNCHANGED <<active, building, cert, watch, cache, requestVars>>
    PROVE  SetInv'
BY DEF SetInv, requestVars

LEMMA DecisionFrame ==
    ASSUME DecisionInv, ReloadRevokes, UNCHANGED requestVars
    PROVE  DecisionInv' /\ ReloadRevokes'
BY DEF DecisionInv, ReloadRevokes, requestVars

(* A step of the watcher that touches neither the pointers nor the sets. *)
LEMMA QuietStep ==
    ASSUME IndInv, UNCHANGED <<directory, up, signals, pointers, cache, requestVars>>,
           watch' # "flush", FilesOK', WatcherOK', ClockInv', SetInv', CountInv',
           FailureChangesNothing'
    PROVE  IndInv'
<1>1. TypeOK'
  BY ServerFrame, RequestsFrame DEF IndInv, TypeOK
<1>2. LookupInv'
  BY LookupFrame DEF IndInv, pointers
<1>3. DecisionInv' /\ ReloadRevokes'
  BY DecisionFrame DEF IndInv
<1>. QED BY <1>1, <1>2, <1>3 DEF IndInv

(* A step of a request: it moves, and its own data, lookups and set's cache
   change. *)
LEMMA RequestStepKeeps ==
    ASSUME IndInv, NEW r \in Requests, NEW from, NEW to, Move(r, from, to),
           cache' \in [Reloads -> Versions \cup {Nil}], RequestsOK',
           \A q \in Requests : since'[q] <= floor,
           \A q \in Requests : state'[q].set <= active.set,
           \A s \in Reloads : s > active.set => cache'[s] = Nil,
           LookupInv', DecisionInv', ReloadRevokes'
    PROVE  IndInv'
<1>1. FilesOK' /\ WatcherOK'
  BY FilesFrame, WatcherFrame DEF IndInv, TypeOK, Move, watchVars
<1>2. ServerOK'
  BY DEF IndInv, TypeOK, ServerOK, Move, pointers
<1>3. ClockInv'
  BY DEF IndInv, ClockInv, Move, watchVars, pointers
<1>4. SetInv'
  BY DEF IndInv, SetInv, Move, watchVars, pointers
<1>5. CountInv' /\ FailureChangesNothing'
  BY DEF IndInv, CountInv, FailureChangesNothing, Move, watchVars, pointers
<1>. QED BY <1>1, <1>2, <1>3, <1>4, <1>5 DEF IndInv, TypeOK

-----------------------------------------------------------------------------
(* The surroundings and the phases of the process touch no pointer, no set and
   no request. *)

LEMMA EditInductive == ASSUME IndInv, Edit PROVE IndInv'
<1>1. FilesOK'
  BY DEF IndInv, TypeOK, FilesOK, Edit, watchVars
<1>2. TypeOK'
  BY <1>1, WatcherFrame, ServerFrame, RequestsFrame DEF IndInv, TypeOK, Edit
<1>3. LookupInv'
  BY LookupFrame DEF IndInv, LookupInv, FreshInv, Edit, watchVars, pointers, requestVars
<1>4. ClockInv' /\ CountInv' /\ FailureChangesNothing'
  BY DEF IndInv, Edit, ClockInv, CountInv, FailureChangesNothing, watchVars, pointers,
         requestVars
<1>5. SetInv'
  BY SetFrame DEF IndInv, Edit, watchVars, pointers
<1>6. DecisionInv' /\ ReloadRevokes'
  BY DecisionFrame DEF IndInv, Edit
<1>. QED BY <1>2, <1>3, <1>4, <1>5, <1>6 DEF IndInv

(* The directory only moves forward. *)
LEMMA DirectoryChangeInductive == ASSUME IndInv, DirectoryChange PROVE IndInv'
<1>1. directory' \in Versions /\ directory <= directory'
  BY ReloadBounds DEF IndInv, TypeOK, ServerOK, DirectoryChange, Versions
<1>2. ServerOK'
  BY <1>1 DEF IndInv, TypeOK, ServerOK, DirectoryChange, pointers
<1>3. TypeOK'
  BY <1>2, FilesFrame, WatcherFrame, RequestsFrame
  DEF IndInv, TypeOK, DirectoryChange, watchVars
<1>4. LookupInv'
  BY LookupFrame
  DEF IndInv, LookupInv, FreshInv, DirectoryChange, watchVars, pointers, requestVars
<1>5. ClockInv'
  <2>1. base \in Int /\ directory \in Int /\ directory' \in Int
    BY <1>1, Bounds DEF IndInv, TypeOK, WatcherOK, ServerOK
  <2>2. base <= directory'
    BY <1>1, <2>1 DEF IndInv, ClockInv
  <2>. QED BY <2>2 DEF IndInv, ClockInv, DirectoryChange, watchVars, pointers, requestVars
<1>6. CountInv' /\ FailureChangesNothing'
  BY DEF IndInv, DirectoryChange, CountInv, FailureChangesNothing, watchVars, pointers
<1>7. SetInv'
  BY SetFrame DEF IndInv, DirectoryChange, watchVars, pointers
<1>8. DecisionInv' /\ ReloadRevokes'
  BY DecisionFrame DEF IndInv, DirectoryChange
<1>. QED BY <1>3, <1>4, <1>5, <1>6, <1>7, <1>8 DEF IndInv

(* A signal raises the count that bounds the reloads. *)
LEMMA SignalInductive == ASSUME IndInv, Signal PROVE IndInv'
<1>1. signals \in Int /\ building \in Int /\ signals' = signals + 1 /\ signals' \in Reloads
  BY ReloadBounds DEF IndInv, TypeOK, WatcherOK, Signal, Reloads
<1>2. WatcherOK'
  BY <1>1 DEF IndInv, TypeOK, WatcherOK, Signal
<1>3. ServerOK'
  BY DEF IndInv, TypeOK, ServerOK, Signal, pointers
<1>4. TypeOK'
  BY <1>2, <1>3, FilesFrame, RequestsFrame DEF IndInv, TypeOK, Signal
<1>5. LookupInv'
  BY LookupFrame DEF IndInv, LookupInv, FreshInv, Signal, pointers, requestVars
<1>6. CountInv'
  BY <1>1 DEF IndInv, CountInv, Signal
<1>7. ClockInv' /\ FailureChangesNothing'
  BY DEF IndInv, ClockInv, FailureChangesNothing, Signal, pointers, requestVars
<1>8. SetInv'
  BY SetFrame DEF IndInv, Signal, pointers
<1>9. DecisionInv' /\ ReloadRevokes'
  BY DecisionFrame DEF IndInv, Signal
<1>. QED BY <1>4, <1>5, <1>6, <1>7, <1>8, <1>9 DEF IndInv

(* The phases of the process touch neither sets nor requests. *)
LEMMA PhaseInductive ==
    ASSUME IndInv, NEW phase \in {"serving", "draining", "exited"}, Enter(phase)
    PROVE  IndInv'
<1>1. ServerOK'
  BY DEF IndInv, TypeOK, ServerOK, Enter, pointers
<1>2. TypeOK'
  BY <1>1, FilesFrame, WatcherFrame, RequestsFrame DEF IndInv, TypeOK, Enter, watchVars
<1>3. LookupInv'
  BY LookupFrame DEF IndInv, LookupInv, FreshInv, Enter, watchVars, pointers, requestVars
<1>4. ClockInv' /\ CountInv' /\ FailureChangesNothing'
  BY DEF IndInv, ClockInv, CountInv, FailureChangesNothing, Enter, watchVars, pointers,
         requestVars
<1>5. SetInv'
  BY SetFrame DEF IndInv, Enter, watchVars, pointers
<1>6. DecisionInv' /\ ReloadRevokes'
  BY DecisionFrame DEF IndInv, Enter
<1>. QED BY <1>2, <1>3, <1>4, <1>5, <1>6 DEF IndInv

-----------------------------------------------------------------------------
(* The watcher. *)

(* The new base is the directory as it is now; the signal becomes the reload
   that it pays for. *)
LEMMA ReceiveInductive == ASSUME IndInv, Receive PROVE IndInv'
<1>. USE DEF Receive, Reloading
<1>1. FilesOK' /\ WatcherOK'
  BY FilesFrame DEF IndInv, TypeOK, WatcherOK, ServerOK
<1>2. ClockInv'
  <2>1. floor \in Int /\ base \in Int /\ directory \in Int
    BY Bounds DEF IndInv, TypeOK, WatcherOK, ServerOK
  <2>2. floor <= directory /\ directory <= directory
    BY <2>1 DEF IndInv, ClockInv
  <2>. QED BY <2>2 DEF IndInv, ClockInv, pointers, requestVars
<1>3. SetInv'
  BY DEF IndInv, SetInv, pointers, requestVars
<1>4. CountInv' /\ FailureChangesNothing'
  <2>1. building \in Int /\ signals \in Int
    BY Bounds DEF IndInv, TypeOK, WatcherOK
  <2>. QED BY <2>1 DEF IndInv, CountInv, FailureChangesNothing, pointers
<1>. QED BY <1>1, <1>2, <1>3, <1>4, QuietStep

(* Loading the files changes nothing in use. *)
LEMMA LoadFullInductive == ASSUME IndInv, LoadFull PROVE IndInv'
<1>. USE DEF LoadFull, Reloading
<1>1. FilesOK' /\ WatcherOK'
  BY DEF IndInv, TypeOK, FilesOK, WatcherOK
<1>2. ClockInv'
  BY DEF IndInv, ClockInv, pointers, requestVars
<1>3. SetInv'
  BY DEF IndInv, SetInv, pointers, requestVars
<1>4. CountInv' /\ FailureChangesNothing'
  <2>1. building \in Int /\ signals \in Int
    BY Bounds DEF IndInv, TypeOK, WatcherOK
  <2>. QED BY <2>1 DEF IndInv, CountInv, FailureChangesNothing, pointers
<1>. QED BY <1>1, <1>2, <1>3, <1>4, QuietStep

(* The signal that Receive took pays for the number of the new reload. *)
LEMMA BuildInductive == ASSUME IndInv, Build PROVE IndInv'
<1>. USE DEF Build, Reloading
<1>1. building \in Int /\ signals \in Int /\ active.set \in Int
  BY Bounds DEF IndInv, TypeOK, WatcherOK, ServerOK, State
<1>2. building + 1 + (IF pending THEN 1 ELSE 0) <= signals
  BY <1>1 DEF IndInv, CountInv
<1>3. building + 1 \in Reloads
  BY <1>1, <1>2, ReloadBounds DEF IndInv, TypeOK, WatcherOK, Reloads
<1>4. FilesOK' /\ WatcherOK'
  BY <1>3, FilesFrame DEF IndInv, TypeOK, WatcherOK
<1>5. ClockInv'
  BY DEF IndInv, ClockInv, pointers, requestVars
<1>6. SetInv'
  <2>1. active.set < building + 1 /\ active.set <= building + 1
    BY <1>1 DEF IndInv, SetInv
  <2>. QED BY <2>1 DEF IndInv, SetInv, pointers, requestVars
<1>7. CountInv' /\ FailureChangesNothing'
  BY <1>1, <1>2 DEF IndInv, CountInv, FailureChangesNothing, pointers
<1>. QED BY <1>4, <1>5, <1>6, <1>7, QuietStep

(* Nor does reading the certificate. *)
LEMMA LoadCertInductive == ASSUME IndInv, LoadCert PROVE IndInv'
<1>. USE DEF LoadCert, Reloading
<1>1. FilesOK' /\ WatcherOK'
  BY FilesFrame DEF IndInv, TypeOK, WatcherOK
<1>2. ClockInv'
  BY DEF IndInv, ClockInv, pointers, requestVars
<1>3. SetInv'
  BY DEF IndInv, SetInv, pointers, requestVars
<1>4. CountInv' /\ FailureChangesNothing'
  BY DEF IndInv, CountInv, FailureChangesNothing, pointers
<1>. QED BY <1>1, <1>2, <1>3, <1>4, QuietStep

(* The first store puts the certificate ahead of the state, until the second. *)
LEMMA SwapCertInductive == ASSUME IndInv, SwapCert PROVE IndInv'
<1>. USE DEF SwapCert, Reloading
<1>1. WatcherOK' /\ ServerOK'
  BY DEF IndInv, TypeOK, WatcherOK, ServerOK
<1>2. TypeOK'
  BY <1>1, FilesFrame, RequestsFrame DEF IndInv, TypeOK
<1>3. LookupInv'
  BY LookupFrame DEF IndInv
<1>4. ClockInv' /\ CountInv' /\ FailureChangesNothing'
  BY DEF IndInv, ClockInv, CountInv, FailureChangesNothing, requestVars
<1>5. SetInv'
  BY DEF IndInv, SetInv, requestVars
<1>6. DecisionInv' /\ ReloadRevokes'
  BY DecisionFrame DEF IndInv
<1>. QED BY <1>2, <1>3, <1>4, <1>5, <1>6 DEF IndInv

(* The new set is the newest, so that nothing was cached in it and no decision
   uses it yet. *)
LEMMA SwapStateInductive == ASSUME IndInv, SwapState PROVE IndInv'
<1>. USE DEF SwapState, Reloading
<1>1. /\ active'.set = building /\ active'.reload = building
      /\ building \in Reloads /\ active.set \in Reloads /\ active.set < building
      /\ cert = building
  BY DEF IndInv, TypeOK, WatcherOK, ServerOK, State, SetInv
<1>2. \A q \in Requests : state[q].set \in Reloads
  BY DEF IndInv, TypeOK, RequestsOK, State
<1>3. \A q \in Requests : state[q].set < building /\ state[q].set <= building
                          /\ state[q].set # building
  BY <1>1, <1>2, Bounds DEF IndInv, SetInv
<1>4. cache[building] = Nil
  BY <1>1, Bounds DEF IndInv, SetInv
<1>5. ServerOK' /\ WatcherOK'
  BY <1>1 DEF IndInv, TypeOK, WatcherOK, ServerOK, State
<1>6. TypeOK'
  BY <1>5, FilesFrame, RequestsFrame DEF IndInv, TypeOK
<1>7. FreshInv(floor)' /\ FreshInv(base)'
  BY <1>1, <1>3, <1>4 DEF FreshInv, AtLeast, requestVars
<1>8. LookupInv'
  BY <1>7 DEF IndInv, LookupInv, AtLeast, requestVars
<1>9. SetInv'
  <2>1. \A s \in Reloads : s > building => cache[s] = Nil
    BY <1>1, Bounds DEF IndInv, SetInv
  <2>2. building <= building
    BY <1>1, Bounds
  <2>. QED BY <1>1, <1>3, <2>1, <2>2 DEF SetInv, requestVars
<1>10. ClockInv' /\ CountInv' /\ FailureChangesNothing'
  BY <1>1 DEF IndInv, ClockInv, CountInv, FailureChangesNothing, requestVars
<1>11. DecisionInv' /\ ReloadRevokes'
  BY DecisionFrame DEF IndInv
<1>. QED BY <1>6, <1>8, <1>9, <1>10, <1>11 DEF IndInv

(* What the active set holds was read since the reload began, so that the floor
   can rise to base. *)
LEMMA FlushInductive == ASSUME IndInv, Flush PROVE IndInv'
<1>. USE DEF Flush, Reloading
<1>1. active.set \in Reloads /\ floor \in Int /\ base \in Int /\ base \in Versions
  BY Bounds DEF IndInv, TypeOK, WatcherOK, ServerOK, State
<1>2. \A s \in Reloads : cache'[s] = Nil \/ cache'[s] = cache[s]
  BY DEF IndInv, TypeOK, ServerOK
<1>3. cache' \in [Reloads -> Versions \cup {Nil}] /\ cache'[active.set] = Nil
  BY <1>1 DEF IndInv, TypeOK, ServerOK
<1>4. ServerOK' /\ WatcherOK'
  BY <1>1, <1>3 DEF IndInv, TypeOK, WatcherOK, ServerOK
<1>5. TypeOK'
  BY <1>4, FilesFrame, RequestsFrame DEF IndInv, TypeOK
<1>6. FreshInv(base)
  BY DEF IndInv, LookupInv
<1>7. FreshInv(floor)'
  BY <1>3, <1>6 DEF FreshInv, AtLeast, requestVars
<1>8. LookupInv'
  <2>1. \A q \in Requests : AtLeast(cache'[state[q].set], since[q])
    <3>1. \A q \in Requests : state[q].set \in Reloads
      BY DEF IndInv, TypeOK, RequestsOK, State
    <3>. QED BY <1>2, <3>1 DEF IndInv, LookupInv, AtLeast
  <2>. QED BY <1>7, <2>1 DEF IndInv, LookupInv, requestVars
<1>9. ClockInv'
  <2>1. \A q \in Requests : since[q] \in Int
    BY Bounds DEF IndInv, TypeOK, RequestsOK
  <2>2. floor <= base /\ \A q \in Requests : since[q] <= base
    BY <1>1, <2>1 DEF IndInv, ClockInv
  <2>3. base <= base
    BY <1>1
  <2>. QED BY <2>2, <2>3 DEF IndInv, ClockInv, requestVars
<1>10. SetInv'
  BY <1>2 DEF IndInv, SetInv, requestVars
<1>11. CountInv' /\ FailureChangesNothing'
  BY DEF IndInv, CountInv, FailureChangesNothing
<1>12. DecisionInv' /\ ReloadRevokes'
  BY DecisionFrame DEF IndInv
<1>. QED BY <1>5, <1>8, <1>9, <1>10, <1>11, <1>12 DEF IndInv

-----------------------------------------------------------------------------
(* Requests. *)

(* A request that keeps its decision keeps its bounds, too. *)
LEMMA SameDecision ==
    ASSUME IndInv, UNCHANGED <<state, since>>
    PROVE  /\ \A q \in Requests : since'[q] <= floor
           /\ \A q \in Requests : state'[q].set <= active.set
BY DEF IndInv, ClockInv, SetInv

LEMMA SameCache ==
    ASSUME IndInv, UNCHANGED cache
    PROVE  /\ cache' \in [Reloads -> Versions \cup {Nil}]
           /\ \A s \in Reloads : s > active.set => cache'[s] = Nil
BY DEF IndInv, TypeOK, ServerOK, SetInv

LEMMA HandshakeInductive ==
    ASSUME IndInv, NEW r \in Requests, Handshake(r) PROVE IndInv'
<1>. USE DEF Handshake
<1>1. RequestsOK'
  BY DEF IndInv, TypeOK, RequestsOK, Move
<1>2. FreshInv(floor)' /\ (watch' = "flush" => FreshInv(base)')
  BY DEF IndInv, LookupInv, FreshInv, Move, watchVars, pointers
<1>3. LookupInv'
  BY <1>2 DEF IndInv, TypeOK, RequestsOK, LookupInv, AtLeast, Move
<1>4. DecisionInv' /\ ReloadRevokes'
  BY DEF IndInv, TypeOK, RequestsOK, DecisionInv, ReloadRevokes, Move
<1>. QED BY <1>1, <1>3, <1>4, SameDecision, SameCache, RequestStepKeeps

(* A decision begins in the active set, which holds nothing older than the
   floor. *)
LEMMA BeginInductive == ASSUME IndInv, NEW r \in Requests, Begin(r) PROVE IndInv'
<1>. USE DEF Begin
<1>1. /\ \A q \in Requests : state'[q] = (IF q = r THEN active ELSE state[q])
      /\ \A q \in Requests : since'[q] = (IF q = r THEN floor ELSE since[q])
      /\ \A q \in Requests : seen'[q] = (IF q = r THEN {active.reload} ELSE seen[q])
      /\ \A q \in Requests : at'[q] = (IF q = r THEN "deciding" ELSE at[q])
      /\ data[r] = Nil /\ used[r] = {}
      /\ UNCHANGED <<cache, data, used, floor, base, active, watch>>
  BY DEF IndInv, TypeOK, RequestsOK, LookupInv, DecisionInv, Move, watchVars, pointers
<1>2. active \in State /\ active.reload \in Reloads /\ active.set \in Int /\ floor \in Versions
      /\ floor \in Int
  BY Bounds DEF IndInv, TypeOK, ServerOK, State
<1>3. RequestsOK'
  BY <1>2 DEF IndInv, TypeOK, RequestsOK, Move
<1>4. FreshInv(floor)' /\ (watch' = "flush" => FreshInv(base)')
  BY <1>1 DEF IndInv, LookupInv, FreshInv, AtLeast
<1>5. LookupInv'
  <2>1. \A q \in Requests : at'[q] = "fetched" <=> data'[q] # Nil
    BY <1>1 DEF IndInv, LookupInv
  <2>2. \A q \in Requests : AtLeast(cache'[state'[q].set], since'[q])
    BY <1>1 DEF IndInv, LookupInv, FreshInv
  <2>3. \A q, o \in Requests :
            state'[o].set = state'[q].set => AtLeast(data'[o], since'[q])
    BY <1>1 DEF IndInv, LookupInv, FreshInv, AtLeast
  <2>. QED BY <1>4, <2>1, <2>2, <2>3 DEF LookupInv
<1>6. DecisionInv' /\ ReloadRevokes'
  BY <1>1 DEF IndInv, DecisionInv, ReloadRevokes
<1>7. \A q \in Requests : since'[q] <= floor
  BY <1>1, <1>2 DEF IndInv, ClockInv
<1>8. \A q \in Requests : state'[q].set <= active.set
  BY <1>1, <1>2 DEF IndInv, SetInv
<1>. QED BY <1>3, <1>5, <1>6, <1>7, <1>8, SameCache, RequestStepKeeps

(* A lookup that returns v, no older than the decision may use. *)
LEMMA ReturnKeeps ==
    ASSUME IndInv, NEW r \in Requests, NEW v \in Versions, Return(r, v),
           at[r] \in {"deciding", "fetched"}, at' = [at EXCEPT ![r] = "deciding"],
           v >= since[r], UNCHANGED <<state, since>>
    PROVE  /\ used' \in [Requests -> SUBSET Versions]
           /\ seen' \in [Requests -> SUBSET Reloads]
           /\ DecisionInv' /\ ReloadRevokes'
<1>. USE DEF Return
<1>1. state[r].reload \in Reloads
  BY DEF IndInv, TypeOK, RequestsOK, State
<1>2. /\ \A q \in Requests : used'[q] = (IF q = r THEN used[q] \cup {v} ELSE used[q])
      /\ \A q \in Requests : seen'[q] = (IF q = r THEN seen[q] \cup {state[q].reload}
                                         ELSE seen[q])
      /\ \A q \in Requests : at'[q] = (IF q = r THEN "deciding" ELSE at[q])
  BY DEF IndInv, TypeOK, RequestsOK
<1>3. used' \in [Requests -> SUBSET Versions]
  BY DEF IndInv, TypeOK, RequestsOK
<1>4. seen' \in [Requests -> SUBSET Reloads]
  BY <1>1 DEF IndInv, TypeOK, RequestsOK
<1>5. DecisionInv'
  BY <1>2 DEF IndInv, DecisionInv
<1>6. ReloadRevokes'
  BY <1>2 DEF IndInv, ReloadRevokes
<1>. QED BY <1>3, <1>4, <1>5, <1>6

(* What a set has cached is no older than its decisions may use. *)
LEMMA ServeCachedInductive ==
    ASSUME IndInv, NEW r \in Requests, ServeCached(r) PROVE IndInv'
<1>. USE DEF ServeCached
<1>1. cache[state[r].set] \in Versions /\ cache[state[r].set] >= since[r]
  BY DEF IndInv, TypeOK, ServerOK, RequestsOK, State, LookupInv, AtLeast
<1>2. at' = at /\ at' = [at EXCEPT ![r] = "deciding"] /\ at[r] = "deciding"
  BY DEF IndInv, TypeOK, RequestsOK, Move
<1>3. RequestsOK' /\ DecisionInv' /\ ReloadRevokes'
  BY <1>1, <1>2, ReturnKeeps DEF IndInv, TypeOK, RequestsOK
<1>4. FreshInv(floor)' /\ (watch' = "flush" => FreshInv(base)')
  BY DEF IndInv, LookupInv, FreshInv, Move, watchVars, pointers
<1>5. LookupInv'
  BY <1>2, <1>4 DEF IndInv, LookupInv, AtLeast
<1>. QED BY <1>3, <1>5, SameDecision, SameCache, RequestStepKeeps

(* Nor is what a live call of the same set has read. *)
LEMMA CoalesceInductive ==
    ASSUME IndInv, NEW r \in Requests, NEW o \in Requests, Coalesce(r, o) PROVE IndInv'
<1>. USE DEF Coalesce
<1>1. data[o] \in Versions /\ data[o] >= since[r]
  BY DEF IndInv, TypeOK, RequestsOK, LookupInv, AtLeast
<1>2. at' = at /\ at' = [at EXCEPT ![r] = "deciding"] /\ at[r] = "deciding"
  BY DEF IndInv, TypeOK, RequestsOK, Move
<1>3. RequestsOK' /\ DecisionInv' /\ ReloadRevokes'
  BY <1>1, <1>2, ReturnKeeps DEF IndInv, TypeOK, RequestsOK
<1>4. FreshInv(floor)' /\ (watch' = "flush" => FreshInv(base)')
  BY DEF IndInv, LookupInv, FreshInv, Move, watchVars, pointers
<1>5. LookupInv'
  BY <1>2, <1>4 DEF IndInv, LookupInv, AtLeast
<1>. QED BY <1>3, <1>5, SameDecision, SameCache, RequestStepKeeps

(* A live call reads the directory as it is now, which no floor exceeds. *)
LEMMA FetchInductive == ASSUME IndInv, NEW r \in Requests, Fetch(r) PROVE IndInv'
<1>. USE DEF Fetch
<1>1. /\ \A q \in Requests : data'[q] = (IF q = r THEN directory ELSE data[q])
      /\ \A q \in Requests : at'[q] = (IF q = r THEN "fetched" ELSE at[q])
      /\ UNCHANGED <<cache, state, used, seen, since, floor, base, active, watch>>
  BY DEF IndInv, TypeOK, RequestsOK, Move, watchVars, pointers
<1>2. /\ directory \in Versions /\ directory # Nil
      /\ directory >= floor /\ directory >= base
      /\ \A q \in Requests : directory >= since[q]
  <2>1. directory \in Versions /\ directory \in Int /\ floor \in Int /\ base \in Int
        /\ \A q \in Requests : since[q] \in Int
    BY Bounds DEF IndInv, TypeOK, WatcherOK, ServerOK, RequestsOK
  <2>. QED BY <2>1, Bounds DEF IndInv, ClockInv
<1>3. RequestsOK'
  BY <1>2 DEF IndInv, TypeOK, RequestsOK, Move
<1>4. FreshInv(floor)' /\ (watch' = "flush" => FreshInv(base)')
  BY <1>1, <1>2 DEF IndInv, LookupInv, FreshInv, AtLeast
<1>5. LookupInv'
  <2>1. \A q \in Requests : at'[q] = "fetched" <=> data'[q] # Nil
    BY <1>1, <1>2 DEF IndInv, LookupInv
  <2>2. \A q, o \in Requests :
            state'[o].set = state'[q].set => AtLeast(data'[o], since'[q])
    BY <1>1, <1>2 DEF IndInv, LookupInv, AtLeast
  <2>3. \A q \in Requests : AtLeast(cache'[state'[q].set], since'[q])
    BY <1>1 DEF IndInv, LookupInv
  <2>. QED BY <1>4, <2>1, <2>2, <2>3 DEF LookupInv
<1>6. DecisionInv' /\ ReloadRevokes'
  BY <1>1 DEF IndInv, DecisionInv, ReloadRevokes
<1>. QED BY <1>3, <1>5, <1>6, SameDecision, SameCache, RequestStepKeeps

(* A live call fills the cache of its own set. *)
LEMMA FillInductive == ASSUME IndInv, NEW r \in Requests, Fill(r) PROVE IndInv'
<1>. USE DEF Fill
<1>1. data[r] \in Versions /\ data[r] >= since[r] /\ state[r].set \in Reloads
  BY DEF IndInv, TypeOK, RequestsOK, State, LookupInv, AtLeast, Move
<1>2. /\ \A q \in Requests : data'[q] = (IF q = r THEN Nil ELSE data[q])
      /\ \A q \in Requests : at'[q] = (IF q = r THEN "deciding" ELSE at[q])
      /\ \A s \in Reloads : cache'[s] = (IF s = state[r].set THEN data[r] ELSE cache[s])
      /\ cache' \in [Reloads -> Versions \cup {Nil}]
      /\ UNCHANGED <<state, since, floor, base, active, watch>>
  BY <1>1 DEF IndInv, TypeOK, ServerOK, RequestsOK, Move, watchVars, pointers
<1>3. RequestsOK' /\ DecisionInv' /\ ReloadRevokes'
  <2>1. at[r] = "fetched" /\ at' = [at EXCEPT ![r] = "deciding"]
    BY DEF Move
  <2>2. DecisionInv' /\ ReloadRevokes' /\ used' \in [Requests -> SUBSET Versions]
        /\ seen' \in [Requests -> SUBSET Reloads]
    BY <1>1, <2>1, ReturnKeeps
  <2>. QED BY <2>1, <2>2 DEF IndInv, TypeOK, RequestsOK
<1>4. \A q \in Requests : state[q].set \in Reloads
  BY DEF IndInv, TypeOK, RequestsOK, State
<1>5. active.set \in Reloads
  BY DEF IndInv, TypeOK, ServerOK, State
<1>6. FreshInv(floor)' /\ (watch' = "flush" => FreshInv(base)')
  BY <1>1, <1>2, <1>5 DEF IndInv, LookupInv, FreshInv, AtLeast
<1>7. LookupInv'
  <2>1. \A q \in Requests : at'[q] = "fetched" <=> data'[q] # Nil
    BY <1>2 DEF IndInv, LookupInv
  <2>2. \A q, o \in Requests :
            state'[o].set = state'[q].set => AtLeast(data'[o], since'[q])
    BY <1>2 DEF IndInv, LookupInv, AtLeast
  <2>3. \A q \in Requests : AtLeast(cache'[state'[q].set], since'[q])
    BY <1>1, <1>2, <1>4 DEF IndInv, LookupInv
  <2>. QED BY <1>6, <2>1, <2>2, <2>3 DEF LookupInv
<1>8. \A s \in Reloads : s > active.set => cache'[s] = Nil
  <2>1. state[r].set <= active.set /\ state[r].set \in Int /\ active.set \in Int
    BY <1>1, <1>5, Bounds DEF IndInv, SetInv
  <2>. QED BY <1>2, <2>1, Bounds DEF IndInv, SetInv
<1>. QED BY <1>2, <1>3, <1>7, <1>8, SameDecision, RequestStepKeeps

(* An answered request forgets what it used. *)
LEMMA AnswerInductive == ASSUME IndInv, NEW r \in Requests, Answer(r) PROVE IndInv'
<1>. USE DEF Answer
<1>1. PICK to \in {"away", "connected"} : Move(r, "deciding", to)
  OBVIOUS
<1>2. Startup \in State /\ Startup.set = 0
  BY Bounds DEF State, Startup
<1>3. /\ \A q \in Requests : at'[q] = (IF q = r THEN to ELSE at[q])
      /\ \A q \in Requests : since'[q] = (IF q = r THEN 0 ELSE since[q])
      /\ \A q \in Requests : state'[q] = (IF q = r THEN Startup ELSE state[q])
      /\ \A q \in Requests : used'[q] = (IF q = r THEN {} ELSE used[q])
      /\ \A q \in Requests : seen'[q] = (IF q = r THEN {} ELSE seen[q])
      /\ data[r] = Nil /\ UNCHANGED <<cache, data, floor, base, active, watch>>
  BY <1>1 DEF IndInv, TypeOK, RequestsOK, LookupInv, Move, watchVars, pointers
<1>4. RequestsOK'
  BY <1>1, <1>2, Bounds DEF IndInv, TypeOK, RequestsOK, Move
<1>5. FreshInv(floor)' /\ (watch' = "flush" => FreshInv(base)')
  BY <1>3 DEF IndInv, LookupInv, FreshInv, AtLeast
<1>6. LookupInv'
  <2>1. \A q \in Requests : at'[q] = "fetched" <=> data'[q] # Nil
    BY <1>3 DEF IndInv, LookupInv
  <2>2. \A s \in Reloads : AtLeast(cache[s], 0)
    BY Bounds DEF IndInv, TypeOK, ServerOK, AtLeast
  <2>3. \A o \in Requests : AtLeast(data[o], 0)
    BY Bounds DEF IndInv, TypeOK, RequestsOK, AtLeast
  <2>4. \A q \in Requests : AtLeast(cache'[state'[q].set], since'[q])
    BY <1>2, <1>3, <2>2, Bounds DEF IndInv, LookupInv
  <2>5. \A q, o \in Requests :
            state'[o].set = state'[q].set => AtLeast(data'[o], since'[q])
    <3>. SUFFICES ASSUME NEW q \in Requests, NEW o \in Requests,
                         state'[o].set = state'[q].set
                  PROVE  AtLeast(data[o], since'[q])
      BY <1>3
    <3>1. CASE o = r BY <3>1, <1>3 DEF AtLeast
    <3>2. CASE q = r BY <3>2, <1>3, <2>3
    <3>3. CASE o # r /\ q # r BY <3>3, <1>3 DEF IndInv, LookupInv
    <3>. QED BY <3>1, <3>2, <3>3
  <2>. QED BY <1>5, <2>1, <2>4, <2>5 DEF LookupInv
<1>7. DecisionInv' /\ ReloadRevokes'
  BY <1>1, <1>3 DEF IndInv, DecisionInv, ReloadRevokes
<1>8. \A q \in Requests : since'[q] <= floor
  <2>1. floor >= 0 /\ floor \in Int
    BY Bounds DEF IndInv, TypeOK, ServerOK
  <2>. QED BY <1>3, <2>1 DEF IndInv, ClockInv
<1>9. \A q \in Requests : state'[q].set <= active.set
  <2>1. active.set >= 0 /\ active.set \in Int
    BY Bounds DEF IndInv, TypeOK, ServerOK, State
  <2>. QED BY <1>2, <1>3, <2>1 DEF IndInv, SetInv
<1>. QED BY <1>1, <1>4, <1>6, <1>7, <1>8, <1>9, <1>3, SameCache, RequestStepKeeps

-----------------------------------------------------------------------------
(* Every step of the process preserves the invariant. *)
LEMMA NextInductive == IndInv /\ [Next]_vars => IndInv'
<1>. SUFFICES ASSUME IndInv, [Next]_vars PROVE IndInv'
  OBVIOUS
<1>1. CASE Edit BY <1>1, EditInductive
<1>2. CASE DirectoryChange BY <1>2, DirectoryChangeInductive
<1>3. CASE Signal BY <1>3, SignalInductive
<1>4. CASE StartWatch \/ Terminate \/ Drained \/ GraceOver
  BY <1>4, PhaseInductive DEF StartWatch, Terminate, Drained, GraceOver
<1>5. CASE WatchStep
  BY <1>5, ReceiveInductive, LoadFullInductive, BuildInductive, LoadCertInductive,
     SwapCertInductive, SwapStateInductive, FlushInductive, PhaseInductive
  DEF WatchStep, Die
<1>6. ASSUME NEW r \in Requests, RequestStep(r) PROVE IndInv'
  BY <1>6, HandshakeInductive, BeginInductive, ServeCachedInductive,
     CoalesceInductive, FetchInductive, FillInductive, AnswerInductive
  DEF RequestStep
<1>7. CASE UNCHANGED vars
  <2>. USE <1>7 DEF vars, watchVars, pointers, requestVars
  <2>1. TypeOK'
    BY FilesFrame, WatcherFrame, ServerFrame, RequestsFrame DEF IndInv, TypeOK
  <2>2. LookupInv'
    BY LookupFrame DEF IndInv, LookupInv, FreshInv
  <2>3. ClockInv' /\ SetInv' /\ CountInv' /\ FailureChangesNothing'
    BY SetFrame DEF IndInv, ClockInv, CountInv, FailureChangesNothing
  <2>4. DecisionInv' /\ ReloadRevokes'
    BY DecisionFrame DEF IndInv
  <2>. QED BY <2>1, <2>2, <2>3, <2>4 DEF IndInv
<1>. QED BY <1>1, <1>2, <1>3, <1>4, <1>5, <1>6, <1>7 DEF Next

(* The invariant behind the four theorems below. *)
THEOREM ReloadInductive == Spec => []IndInv
BY InitInductive, NextInductive, PTL DEF Spec

(* Type correctness, with the number of reloads bounded by the number of
   signals. *)
THEOREM ReloadTypeCorrect == Spec => []TypeOK
<1>1. IndInv => TypeOK BY DEF IndInv
<1>. QED BY <1>1, ReloadInductive, PTL

(* A reload is a revocation lever: no decision that begins after it uses an
   answer read from a directory before it began. *)
THEOREM ReloadIsLever == Spec => []ReloadRevokes
<1>1. IndInv => ReloadRevokes BY DEF IndInv
<1>. QED BY <1>1, ReloadInductive, PTL

(* A decision never mixes two reloads. *)
THEOREM DecisionsAreConsistent == Spec => []OneStatePerDecision
<1>1. IndInv => OneStatePerDecision BY DEF IndInv, DecisionInv, OneStatePerDecision
<1>. QED BY <1>1, ReloadInductive, PTL

(* A failed reload leaves certificate and state those of one earlier reload. *)
THEOREM FailureIsHarmless == Spec => []FailureChangesNothing
<1>1. IndInv => FailureChangesNothing BY DEF IndInv
<1>. QED BY <1>1, ReloadInductive, PTL
=============================================================================
