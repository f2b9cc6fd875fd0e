---------------------------- MODULE ServerReload ----------------------------
(***************************************************************************)
(* The life of the process around its requests: main.go (run),             *)
(* internal/config (LoadFull, Watch) and internal/server (Start, Reload,   *)
(* Decide, getCertificate, Shutdown), for a server with TLS.               *)
(*                                                                         *)
(* Three kinds of goroutines share the two atomic pointers of Server: the  *)
(* watcher, which turns a SIGHUP into a reload; handshakes, which load the *)
(* certificate; and decisions, which load the active state and look        *)
(* identities up in its datasource set.                                    *)
(*                                                                         *)
(* A reload is known by its number, startup being number 0; every reload   *)
(* builds a datasource set of its own.  The set is modelled by one cached  *)
(* answer, the version of the directory it was read from; its entry never  *)
(* expires, so that only a reload makes the service ask again.             *)
(***************************************************************************)
EXTENDS Integers, FiniteSets

CONSTANTS
    Requests,    \* decisions that may be under way at once
    MaxSignals,  \* bounds on SIGHUPs and on changes of the directory
    MaxVersion,
    Nil

ASSUME ReloadBounds == {MaxSignals, MaxVersion} \subseteq Nat /\ Nil \notin Nat

Reloads == 0..MaxSignals

(* What the files on disk are good for: LoadFull fails on bad_config, NewSet
   and the checks before it on bad_datasource, loadCertificate on bad_cert. *)
Kinds == {"good", "bad_config", "bad_datasource", "bad_cert"}

VARIABLES
    disk,       \* the kind of the files on disk
    directory,  \* how many times the directory behind the datasource changed
    up,         \* starting (serving, but Watch not reached yet), serving,
                \* draining or exited
    signals,    \* SIGHUPs sent
    pending,    \* whether one is in Watch's channel, which holds one
    watch,      \* the step of the reload the watcher is at, or idle
    loaded,     \* the kind of those the watcher loaded
    base,       \* the version of the directory when the reload began
    building,   \* the number of the reload under way, or of the last one
    cert,       \* the reload whose certificate handshakes get
    active,     \* the state that decisions load: its reload and its set
    floor,      \* base of the last reload that ended
    cache,      \* what each set has cached: a version, or Nil
    at,         \* where each request is
    state,      \* the state its decision loaded
    data,       \* the version its live call read, or Nil
    used,       \* the versions its lookups returned
    seen,       \* the reloads whose state its decision used
    since       \* floor when its decision began

watchVars == <<signals, pending, watch, loaded, base, building>>
pointers == <<cert, active, floor>>
requestVars == <<at, state, data, used, seen, since>>
vars == <<disk, directory, up, watchVars, pointers, cache, requestVars>>

Startup == [reload |-> 0, set |-> 0]

(* run, up to config.Watch: the server listens already. *)
Init ==
    /\ disk = "good"
    /\ directory = 0
    /\ up = "starting"
    /\ signals = 0 /\ pending = FALSE
    /\ watch = "idle" /\ loaded = disk /\ base = 0 /\ building = 0
    /\ cert = 0 /\ active = Startup /\ floor = 0
    /\ cache = [s \in Reloads |-> Nil]
    /\ at = [r \in Requests |-> "away"]
    /\ state = [r \in Requests |-> Startup]
    /\ data = [r \in Requests |-> Nil]
    /\ used = [r \in Requests |-> {}]
    /\ seen = [r \in Requests |-> {}]
    /\ since = [r \in Requests |-> 0]

-----------------------------------------------------------------------------
(* The surroundings. *)
Edit ==
    /\ up # "exited"
    /\ \E k \in Kinds \ {disk} : disk' = k
    /\ UNCHANGED <<directory, up, watchVars, pointers, cache, requestVars>>

DirectoryChange ==
    /\ up # "exited"
    /\ directory < MaxVersion
    /\ directory' = directory + 1
    /\ UNCHANGED <<disk, up, watchVars, pointers, cache, requestVars>>

(* SIGHUP.  Before signal.Notify it ends the process; a signal that finds the
   channel full is dropped. *)
Signal ==
    /\ up # "exited"
    /\ signals < MaxSignals
    /\ signals' = signals + 1
    /\ IF up = "starting"
       THEN up' = "exited" /\ UNCHANGED pending
       ELSE pending' = TRUE /\ UNCHANGED up
    /\ UNCHANGED <<disk, directory, watch, loaded, base, building, pointers, cache,
                   requestVars>>

-----------------------------------------------------------------------------
(* run: Watch, then waiting for SIGINT or SIGTERM, then the drain. *)
Enter(phase) ==
    /\ up' = phase
    /\ UNCHANGED <<disk, directory, watchVars, pointers, cache, requestVars>>

StartWatch == up = "starting" /\ Enter("serving")

Terminate ==
    \/ up = "starting" /\ Enter("exited")
    \/ up = "serving" /\ Enter("draining")

(* Shutdown returns once no request is active, or when the grace period is
   over. *)
Drained == up = "draining" /\ (\A r \in Requests : at[r] = "away") /\ Enter("exited")

GraceOver == up = "draining" /\ Enter("exited")

-----------------------------------------------------------------------------
(* The watcher: Watch, with onReload and Server.Reload inlined. *)
Reloading(from, to) ==
    /\ up \in {"serving", "draining"}
    /\ watch = from
    /\ watch' = to
    /\ UNCHANGED <<disk, directory, up, signals, requestVars>>

Receive ==
    /\ pending
    /\ Reloading("idle", "load")
    /\ pending' = FALSE
    /\ base' = directory
    /\ UNCHANGED <<loaded, building, pointers, cache>>

LoadFull ==
    /\ Reloading("load", IF disk = "bad_config" THEN "failed" ELSE "build")
    /\ loaded' = disk
    /\ UNCHANGED <<pending, base, building, pointers, cache>>

(* Mutant: the certificate is put in place before the rest is built. *)
BuildBehindCert ==
    /\ Reloading("build", IF loaded = "bad_datasource" THEN "failed" ELSE "cert")
    /\ building' = building + 1
    /\ cert' = building + 1
    /\ UNCHANGED <<pending, loaded, base, active, floor, cache>>

(* Reload, lines 238-260: the mode check, NewSet and NewBuiltinChain. *)
Build ==
    /\ Reloading("build", IF loaded = "bad_datasource" THEN "failed" ELSE "cert")
    /\ building' = building + 1
    /\ UNCHANGED <<pending, loaded, base, pointers, cache>>

(* Lines 262-270: the pair is read from disk now. *)
LoadCert ==
    /\ Reloading("cert", IF disk = "bad_cert" THEN "failed" ELSE "swap_cert")
    /\ UNCHANGED <<pending, loaded, base, building, pointers, cache>>

(* Lines 274-276. *)
SwapCert ==
    /\ Reloading("swap_cert", "swap_state")
    /\ cert' = building
    /\ UNCHANGED <<pending, loaded, base, building, active, floor, cache>>

(* Mutant: the datasource set survives the reload and is only flushed. *)
SwapStateKeepingSet ==
    /\ Reloading("swap_state", "flush")
    /\ active' = [reload |-> building, set |-> active.set]
    /\ UNCHANGED <<pending, loaded, base, building, cert, floor, cache>>

(* Lines 277-280. *)
SwapState ==
    /\ Reloading("swap_state", "flush")
    /\ active' = [reload |-> building, set |-> building]
    /\ UNCHANGED <<pending, loaded, base, building, cert, floor, cache>>

(* Line 283, and the way back to Watch's select. *)
Flush ==
    /\ Reloading("flush", "idle")
    /\ cache' = [cache EXCEPT ![active.set] = Nil]
    /\ floor' = base
    /\ UNCHANGED <<pending, loaded, base, building, cert, active>>

(* onReload logs the error and ends the process (main.go:116-125). *)
Die ==
    /\ up \in {"serving", "draining"}
    /\ watch = "failed"
    /\ Enter("exited")

WatchStep ==
    \/ Receive
    \/ LoadFull
    \/ Build
    \/ LoadCert
    \/ SwapCert
    \/ SwapState
    \/ Flush
    \/ Die

-----------------------------------------------------------------------------
(* Requests.  While draining, nothing new is accepted. *)
Move(r, from, to) ==
    /\ up # "exited"
    /\ at[r] = from
    /\ at' = [at EXCEPT ![r] = to]
    /\ UNCHANGED <<disk, directory, up, watchVars, pointers>>

(* getCertificate. *)
Handshake(r) ==
    /\ up # "draining"
    /\ Move(r, "away", "connected")
    /\ UNCHANGED <<cache, state, data, used, seen, since>>

(* Decide, lines 194-196. *)
Begin(r) ==
    /\ Move(r, "connected", "deciding")
    /\ state' = [state EXCEPT ![r] = active]
    /\ seen' = [seen EXCEPT ![r] = {active.reload}]
    /\ since' = [since EXCEPT ![r] = floor]
    /\ UNCHANGED <<cache, data, used>>

Return(r, v) ==
    /\ used' = [used EXCEPT ![r] = @ \cup {v}]
    /\ seen' = [seen EXCEPT ![r] = @ \cup {state[r].reload}]

(* A lookup of the decision's chain in the decision's set: from the cache, ... *)
ServeCached(r) ==
    /\ cache[state[r].set] # Nil
    /\ Move(r, "deciding", "deciding")
    /\ Return(r, cache[state[r].set])
    /\ UNCHANGED <<cache, state, data, since>>

(* ... by waiting for the live call of another request, ... *)
Coalesce(r, o) ==
    /\ cache[state[r].set] = Nil
    /\ at[o] = "fetched"
    /\ state[o].set = state[r].set
    /\ Move(r, "deciding", "deciding")
    /\ Return(r, data[o])
    /\ UNCHANGED <<cache, state, data, since>>

(* ... or by a live call of its own, which reads the directory and then fills
   the cache. *)
Fetch(r) ==
    /\ cache[state[r].set] = Nil
    /\ \A o \in Requests : ~(at[o] = "fetched" /\ state[o].set = state[r].set)
    /\ Move(r, "deciding", "fetched")
    /\ data' = [data EXCEPT ![r] = directory]
    /\ UNCHANGED <<cache, state, used, seen, since>>

(* Mutant: a lookup takes the state that is active by now. *)
FillActive(r) ==
    /\ Move(r, "fetched", "deciding")
    /\ cache' = [cache EXCEPT ![active.set] = data[r]]
    /\ used' = [used EXCEPT ![r] = @ \cup {data[r]}]
    /\ seen' = [seen EXCEPT ![r] = @ \cup {active.reload}]
    /\ data' = [data EXCEPT ![r] = Nil]
    /\ UNCHANGED <<state, since>>

(* Mutant: a live call fills the cache that is in use when it ends. *)
FillInUse(r) ==
    /\ Move(r, "fetched", "deciding")
    /\ cache' = [cache EXCEPT ![active.set] = data[r]]
    /\ Return(r, data[r])
    /\ data' = [data EXCEPT ![r] = Nil]
    /\ UNCHANGED <<state, since>>

Fill(r) ==
    /\ Move(r, "fetched", "deciding")
    /\ cache' = [cache EXCEPT ![state[r].set] = data[r]]
    /\ Return(r, data[r])
    /\ data' = [data EXCEPT ![r] = Nil]
    /\ UNCHANGED <<state, since>>

(* The answer is sent; a kept-alive connection may bring another request. *)
Answer(r) ==
    /\ \/ Move(r, "deciding", "away")
       \/ up # "draining" /\ Move(r, "deciding", "connected")
    /\ state' = [state EXCEPT ![r] = Startup]
    /\ used' = [used EXCEPT ![r] = {}]
    /\ seen' = [seen EXCEPT ![r] = {}]
    /\ since' = [since EXCEPT ![r] = 0]
    /\ UNCHANGED <<cache, data>>

RequestStep(r) ==
    \/ Handshake(r)
    \/ Begin(r)
    \/ ServeCached(r)
    \/ \E o \in Requests : Coalesce(r, o)
    \/ Fetch(r)
    \/ Fill(r)
    \/ Answer(r)

Next ==
    \/ Edit
    \/ DirectoryChange
    \/ Signal
    \/ StartWatch
    \/ Terminate
    \/ Drained
    \/ GraceOver
    \/ WatchStep
    \/ \E r \in Requests : RequestStep(r)

Spec == Init /\ [][Next]_vars

-----------------------------------------------------------------------------
(* Properties *)

State == [reload : Reloads, set : Reloads]

Versions == 0..MaxVersion

FilesOK == disk \in Kinds /\ loaded \in Kinds

WatcherOK ==
    /\ signals \in Reloads /\ building \in Reloads
    /\ pending \in BOOLEAN
    /\ base \in Versions
    /\ watch \in {"idle", "load", "build", "cert", "swap_cert", "swap_state", "flush",
                  "failed"}

ServerOK ==
    /\ directory \in Versions /\ floor \in Versions
    /\ up \in {"starting", "serving", "draining", "exited"}
    /\ cert \in Reloads /\ active \in State
    /\ cache \in [Reloads -> Versions \cup {Nil}]

RequestsOK ==
    /\ at \in [Requests -> {"away", "connected", "deciding", "fetched"}]
    /\ state \in [Requests -> State]
    /\ data \in [Requests -> Versions \cup {Nil}]
    /\ used \in [Requests -> SUBSET Versions]
    /\ seen \in [Requests -> SUBSET Reloads]
    /\ since \in [Requests -> Versions]

TypeOK == FilesOK /\ WatcherOK /\ ServerOK /\ RequestsOK

(* The emergency lever (server.go:230-233): a decision that begins once a
   reload is over uses nothing that was read from the directory before that
   reload began, although decisions and live calls of the state before are
   still under way. *)
ReloadRevokes == \A r \in Requests : \A v \in used[r] : v >= since[r]

(* A decision sees one reload only, whatever reloads happen during it
   (server.go:38-41, 190-193). *)
OneStatePerDecision ==
    \A r \in Requests : \A m, n \in seen[r] : m = n

(* A reload that fails leaves everything as it was, for the requests still
   served until the process ends (server.go:227-229): the certificate and the
   state in use are those of the same reload, except between the two stores of
   one that succeeds. *)
FailureChangesNothing ==
    watch # "swap_state" => cert = active.reload

(* The inductive invariant.  Why no old answer reaches a new decision: a set
   becomes active before anything looks an identity up in it, so that all it
   ever holds, in its cache or in a live call, was read after the reload that
   built it began; and a set no longer active is only used by decisions that
   began while it was, which asked for no more. *)
AtLeast(v, n) == v # Nil => v >= n

ClockInv ==
    /\ floor <= base /\ base <= directory
    /\ \A r \in Requests : since[r] <= floor

SetInv ==
    /\ active.set <= building
    /\ watch \in {"cert", "swap_cert", "swap_state"} => active.set < building
    /\ watch = "swap_state" => cert = building
    /\ \A r \in Requests : state[r].set <= active.set
    /\ \A s \in Reloads : s > active.set => cache[s] = Nil

(* A reload needs a signal of its own, so the bound on signals bounds it. *)
CountInv ==
    building + (IF watch \in {"load", "build"} THEN 1 ELSE 0) + (IF pending THEN 1 ELSE 0)
        <= signals

FreshInv(n) ==
    /\ AtLeast(cache[active.set], n)
    /\ \A r \in Requests : state[r].set = active.set => AtLeast(data[r], n)

LookupInv ==
    /\ FreshInv(floor)
    /\ watch = "flush" => FreshInv(base)
    /\ \A r \in Requests : at[r] = "fetched" <=> data[r] # Nil
    /\ \A r \in Requests : AtLeast(cache[state[r].set], since[r])
    /\ \A r, o \in Requests :
        state[o].set = state[r].set => AtLeast(data[o], since[r])

DecisionInv ==
    \A r \in Requests :
        /\ seen[r] \subseteq {state[r].reload}
        /\ at[r] \in {"away", "connected"} => used[r] = {}

IndInv ==
    /\ TypeOK
    /\ ClockInv
    /\ SetInv
    /\ CountInv
    /\ LookupInv
    /\ DecisionInv
    /\ FailureChangesNothing
    /\ ReloadRevokes
=============================================================================
