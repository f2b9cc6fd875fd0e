-------------------------- MODULE ConfigLoadProofs --------------------------
(* Proofs about ConfigLoad: the precedence of what is stored, that half-read
   edits are repaired, and that the policy in force is that of all the layers.
   They hold for any files, names and directories and for any number of edits,
   signals and loads. *)
EXTENDS ConfigLoad, WellFoundedInduction, TLAPS

(* ReadPart takes the least position that is left. *)
LEMMA Least ==
    ASSUME NEW T \in SUBSET Nat, T # {}
    PROVE  Min(T) \in T /\ \A n \in T : Min(T) <= n
<1>. DEFINE R == OpToRel(<, Nat)
<1>1. IsWellFoundedOn(R, Nat)
  BY NatLessThanWellFounded
<1>2. \A m, n \in Nat : <<m, n>> \in R <=> m < n
  BY DEF OpToRel
<1>. HIDE DEF R
<1>3. PICK m \in T : \A n \in T : ~(<<n, m>> \in R)
  BY <1>1, WFMin
<1>4. m \in Nat /\ \A n \in T : n \in Nat /\ ~(n < m)
  BY <1>2, <1>3
<1>5. \A n \in T : m <= n
  BY <1>4
<1>. QED BY <1>3, <1>5 DEF Min

-----------------------------------------------------------------------------
(* Precedence. *)

(* Sets of positions that have a greatest element. *)
HasMax(T) == T # {} => \E m \in T : \A n \in T : n <= m

FileFields == Fields \ {"config_dir"}

(* The load in progress has what the last layer read says of each field, and
   the files it has yet to read come after those it has read. *)
PrecInv ==
    /\ DOMAIN cfg = {"scalars", "allow", "sources"} /\ DOMAIN cfg.scalars = Fields
    /\ DOMAIN read \in SUBSET Nat /\ \A T \in SUBSET DOMAIN read : HasMax(T)
    /\ step = "top" => cfg = Empty /\ read = <<>>
    /\ step \in {"top", "dir", "parts"} =>
           \A f \in FileFields : cfg.scalars[f] = LastSetting(read, f)
    /\ step = "dir" => DOMAIN read = {0}
    /\ step = "parts" =>
        /\ DOMAIN todo \in SUBSET Nat
        /\ \A i \in DOMAIN read, j \in DOMAIN todo : i < j
    /\ step = "store" => Precedence(cfg, read)
    /\ PrecedenceHolds

LEMMA MaxIs ==
    ASSUME NEW T \in SUBSET Nat, NEW m \in T, \A n \in T : n <= m
    PROVE  Max(T) = m
<1>1. \A x \in T : (\A n \in T : x >= n) => x = m
  OBVIOUS
<1>2. \A n \in T : m >= n
  OBVIOUS
<1>. QED BY <1>1, <1>2 DEF Max

LEMMA MaxIn ==
    ASSUME NEW T \in SUBSET Nat, HasMax(T), T # {}
    PROVE  Max(T) \in T
  BY MaxIs DEF HasMax

(* A layer read after all the others has the last word on its fields. *)
LEMMA NextLayer ==
    ASSUME NEW layers, NEW i \in Nat, NEW layer, NEW more, NEW f,
           DOMAIN layers \in SUBSET Nat, \A T \in SUBSET DOMAIN layers : HasMax(T),
           \A k \in DOMAIN layers : k < i,
           more = [k \in DOMAIN layers \cup {i} |-> IF k = i THEN layer ELSE layers[k]]
    PROVE  /\ DOMAIN more \in SUBSET Nat
           /\ \A T \in SUBSET DOMAIN more : HasMax(T)
           /\ LastSetting(more, f) =
                  IF f \in DOMAIN layer.scalars THEN layer.scalars[f]
                  ELSE LastSetting(layers, f)
<1>. DEFINE before == {k \in DOMAIN layers : f \in DOMAIN layers[k].scalars}
            after == {k \in DOMAIN more : f \in DOMAIN more[k].scalars}
<1>1. DOMAIN more = DOMAIN layers \cup {i} /\ i \notin DOMAIN layers /\ more[i] = layer
  OBVIOUS
<1>2. \A k \in DOMAIN layers : more[k] = layers[k]
  BY <1>1
<1>3. DOMAIN more \in SUBSET Nat
  BY <1>1
<1>4. ASSUME NEW T \in SUBSET DOMAIN more
      PROVE  HasMax(T)
  <2>1. CASE i \in T
    <3>1. \A n \in T : n <= i
      BY <1>1
    <3>. QED BY <2>1, <3>1 DEF HasMax
  <2>2. CASE i \notin T
    BY <2>2, <1>1
  <2>. QED BY <2>1, <2>2
<1>5. CASE f \in DOMAIN layer.scalars
  <2>1. i \in after /\ after \in SUBSET Nat
    BY <1>1, <1>3, <1>5
  <2>2. \A n \in after : n <= i
    BY <1>1
  <2>3. Max(after) = i
    BY <2>1, <2>2, MaxIs
  <2>. QED BY <1>1, <1>3, <1>4, <1>5, <2>1, <2>3 DEF LastSetting
<1>6. CASE f \notin DOMAIN layer.scalars
  <2>1. after = before
    BY <1>1, <1>2, <1>6
  <2>2. before # {} => Max(before) \in before
    BY MaxIn
  <2>3. LastSetting(more, f) = LastSetting(layers, f)
    BY <2>1, <2>2, <1>2 DEF LastSetting
  <2>. QED BY <1>3, <1>4, <1>6, <2>3
<1>. QED BY <1>5, <1>6

LEMMA EmptyScalars ==
    ASSUME NEW f \in Fields
    PROVE  Empty.scalars[f] = Zero /\ LastSetting(<<>>, f) = Zero
  BY DEF Empty, LastSetting

LEMMA EmptyShape ==
    /\ DOMAIN Empty = {"scalars", "allow", "sources"} /\ DOMAIN Empty.scalars = Fields
    /\ DOMAIN <<>> \in SUBSET Nat /\ \A T \in SUBSET DOMAIN <<>> : HasMax(T)
  BY DEF Empty, HasMax

LEMMA PrecInit == Init => PrecInv
<1>. SUFFICES ASSUME Init PROVE PrecInv
  OBVIOUS
<1>1. cfg = Empty /\ read = <<>> /\ step = "top" /\ store = Nil
  BY DEF Init
<1>2. \A f \in FileFields : cfg.scalars[f] = LastSetting(read, f)
  BY <1>1, EmptyScalars DEF FileFields
<1>. QED BY <1>1, <1>2, EmptyShape DEF PrecInv, PrecedenceHolds

LEMMA MergeShape ==
    ASSUME NEW c, NEW layer
    PROVE  /\ DOMAIN Merge(c, layer) = {"scalars", "allow", "sources"}
           /\ DOMAIN Merge(c, layer).scalars = Fields
           /\ \A f \in Fields :
                Merge(c, layer).scalars[f] =
                    IF f \in DOMAIN layer.scalars THEN layer.scalars[f] ELSE c.scalars[f]
  BY DEF Merge, Override

(* Steps that leave the load, the store and the overrides alone. *)
LEMMA PrecUntouched ==
    ASSUME PrecInv, UNCHANGED <<load, stored, env, flags>>
    PROVE  PrecInv'
  BY DEF PrecInv, PrecedenceHolds, Precedence, load, stored

LEMMA PrecReceive == ASSUME PrecInv, Receive PROVE PrecInv'
<1>1. cfg' = Empty /\ read' = <<>> /\ step' = "top"
  BY DEF Receive
<1>2. \A f \in FileFields : cfg'.scalars[f] = LastSetting(read', f)
  BY <1>1, EmptyScalars DEF FileFields
<1>3. PrecedenceHolds'
  BY DEF Receive, stored, PrecInv, PrecedenceHolds, Precedence
<1>. QED BY <1>1, <1>2, <1>3, EmptyShape DEF PrecInv

LEMMA PrecReadTop == ASSUME PrecInv, ReadTop PROVE PrecInv'
<1>1. CASE Fail
  BY <1>1, PrecUntouched DEF Fail, Become
<1>2. CASE ~Fail
  <2>1. /\ cfg = Empty /\ read = <<>> /\ step' = "dir"
        /\ cfg' = Merge(cfg, top) /\ read' = [i \in {0} |-> top]
        /\ UNCHANGED <<env, flags, store, basis>>
    BY <1>2 DEF PrecInv, ReadTop, At, process, stored
  <2>2. read' = [k \in DOMAIN read \cup {0} |-> IF k = 0 THEN top ELSE read[k]]
    BY <2>1
  <2>3. \A k \in DOMAIN read : k < 0
    BY <2>1
  <2>. HIDE DEF LastSetting
  <2>4. \A f : /\ DOMAIN read' \in SUBSET Nat
               /\ \A T \in SUBSET DOMAIN read' : HasMax(T)
               /\ LastSetting(read', f) =
                      IF f \in DOMAIN top.scalars THEN top.scalars[f]
                      ELSE LastSetting(read, f)
    BY <2>2, <2>3, NextLayer DEF PrecInv
  <2>5. \A f \in FileFields : cfg'.scalars[f] = LastSetting(read', f)
    BY <2>1, <2>4, MergeShape, EmptyScalars DEF FileFields
  <2>6. PrecedenceHolds'
    BY <2>1 DEF PrecInv, PrecedenceHolds, Precedence
  <2>7. DOMAIN cfg' = {"scalars", "allow", "sources"} /\ DOMAIN cfg'.scalars = Fields
    BY <2>1, MergeShape
  <2>8. step' = "dir" /\ DOMAIN read' = {0} /\ \A T \in SUBSET DOMAIN read' : HasMax(T)
    BY <2>1, <2>4
  <2>. QED BY <2>5, <2>6, <2>7, <2>8 DEF PrecInv
<1>. QED BY <1>1, <1>2

(* Positions of files follow that of config.yaml. *)
LEMMA ListingDomain ==
    ASSUME NEW d
    PROVE  DOMAIN Listing(d) \in SUBSET (Nat \ {0})
<1>1. DOMAIN Names = 1..Len(Names) /\ Len(Names) \in Nat
  BY NamesAssumption
<1>. QED BY <1>1 DEF Listing

LEMMA PrecReadDir == ASSUME PrecInv, ReadDir PROVE PrecInv'
<1>1. CASE Fail
  BY <1>1, PrecUntouched DEF Fail, Become
<1>2. CASE ~Fail
  <2>. DEFINE d == DirOf(cfg.scalars)
  <2>1. /\ step = "dir" /\ step' = "parts"
        /\ cfg' = [cfg EXCEPT !.scalars["config_dir"] = d] /\ todo' = Listing(d)
        /\ UNCHANGED <<env, flags, store, basis, read>>
    BY <1>2 DEF ReadDir, At, process, stored
  <2>2. /\ DOMAIN cfg' = {"scalars", "allow", "sources"} /\ DOMAIN cfg'.scalars = Fields
        /\ \A f \in FileFields : cfg'.scalars[f] = cfg.scalars[f]
    BY <2>1 DEF PrecInv, FileFields
  <2>3. \A f \in FileFields : cfg'.scalars[f] = LastSetting(read', f)
    BY <2>1, <2>2 DEF PrecInv
  <2>4. /\ DOMAIN todo' \in SUBSET Nat
        /\ \A i \in DOMAIN read', j \in DOMAIN todo' : i < j
    BY <2>1, ListingDomain DEF PrecInv
  <2>5. PrecedenceHolds'
    BY <2>1 DEF PrecInv, PrecedenceHolds, Precedence
  <2>. QED BY <2>1, <2>2, <2>3, <2>4, <2>5 DEF PrecInv
<1>. QED BY <1>1, <1>2

LEMMA PrecReadPart == ASSUME PrecInv, ReadPart PROVE PrecInv'
<1>1. CASE Fail
  BY <1>1, PrecUntouched DEF Fail, Become
<1>2. CASE ~Fail
  <2>. DEFINE i == Min(DOMAIN todo)
              layer == confd[todo[i]]
  <2>1. /\ step = "parts" /\ step' = "parts"
        /\ cfg' = Merge(cfg, layer)
        /\ read' = [k \in DOMAIN read \cup {i} |-> IF k = i THEN layer ELSE read[k]]
        /\ todo' = [k \in DOMAIN todo \ {i} |-> todo[k]]
        /\ DOMAIN todo # {} /\ UNCHANGED <<env, flags, store, basis>>
    BY <1>2 DEF ReadPart, At, process, stored
  <2>2. i \in DOMAIN todo /\ \A n \in DOMAIN todo : i <= n
    BY <2>1, Least DEF PrecInv
  <2>. HIDE DEF i
  <2>3. i \in Nat /\ \A k \in DOMAIN read : k < i
    BY <2>1, <2>2 DEF PrecInv
  <2>. HIDE DEF layer
  <2>4. \A f : /\ DOMAIN read' \in SUBSET Nat
               /\ \A T \in SUBSET DOMAIN read' : HasMax(T)
               /\ LastSetting(read', f) =
                      IF f \in DOMAIN layer.scalars THEN layer.scalars[f]
                      ELSE LastSetting(read, f)
    BY <2>1, <2>3, NextLayer DEF PrecInv
  <2>5. ASSUME NEW f \in FileFields
        PROVE  cfg'.scalars[f] = LastSetting(read', f)
    <3>1. f \in Fields /\ cfg.scalars[f] = LastSetting(read, f)
      BY <2>1, <2>5 DEF PrecInv, FileFields
    <3>2. cfg'.scalars[f] =
              IF f \in DOMAIN layer.scalars THEN layer.scalars[f] ELSE cfg.scalars[f]
      BY <2>1, <3>1, MergeShape
    <3>. QED BY <2>4, <3>1, <3>2
  <2>6. DOMAIN todo' \in SUBSET Nat
    BY <2>1 DEF PrecInv
  <2>7. \A j \in DOMAIN todo' : j \in DOMAIN todo /\ i < j
    BY <2>1, <2>2, <2>3 DEF PrecInv
  <2>8. \A k \in DOMAIN read', j \in DOMAIN todo' : k < j
    BY <2>1, <2>7 DEF PrecInv
  <2>9. PrecedenceHolds'
    BY <2>1 DEF PrecInv, PrecedenceHolds, Precedence
  <2>10. step' = "parts"
         /\ DOMAIN cfg' = {"scalars", "allow", "sources"} /\ DOMAIN cfg'.scalars = Fields
    BY <2>1, MergeShape
  <2>11. DOMAIN read' \in SUBSET Nat /\ \A T \in SUBSET DOMAIN read' : HasMax(T)
    BY <2>4
  <2>12. \A f \in FileFields : cfg'.scalars[f] = LastSetting(read', f)
    BY <2>5
  <2>. QED BY <2>6, <2>8, <2>9, <2>10, <2>11, <2>12 DEF PrecInv
<1>. QED BY <1>1, <1>2

(* Defaults, environment and flags, in this order. *)
LEMMA FinalPrecedence ==
    ASSUME NEW layers, DOMAIN cfg = {"scalars", "allow", "sources"},
           \A f \in FileFields : cfg.scalars[f] = LastSetting(layers, f)
    PROVE  /\ DOMAIN Final(cfg) = {"scalars", "allow", "sources"}
           /\ DOMAIN Final(cfg).scalars = Fields
           /\ Precedence(Final(cfg), layers)
<1>. DEFINE D == ApplyDefaults(cfg)
            E == ApplyEnv(D)
            V == ParsedAll(env)
            G == ParsedAll(Given)
<1>1. DOMAIN D = DOMAIN cfg
      /\ D.scalars = [f \in Fields |->
                          IF cfg.scalars[f] = Zero THEN Default[f] ELSE cfg.scalars[f]]
  BY DEF ApplyDefaults
<1>. HIDE DEF D
<1>2. DOMAIN E = DOMAIN cfg /\ E.scalars = Override(D.scalars, V)
  BY <1>1 DEF ApplyEnv
<1>. HIDE DEF E
<1>3. DOMAIN ApplyFlags(E) = DOMAIN cfg
      /\ ApplyFlags(E).scalars = Override(E.scalars, G)
  BY <1>2 DEF ApplyFlags
<1>4. Final(cfg) = ApplyFlags(E)
  BY DEF Final, D, E
<1>7. DOMAIN V = DOMAIN env /\ \A f \in DOMAIN env : V[f] = Parsed(f, env[f])
  BY DEF ParsedAll
<1>8. /\ DOMAIN G = {f \in DOMAIN flags : flags[f] # ""}
      /\ \A f \in DOMAIN G : G[f] = Parsed(f, flags[f])
  BY DEF ParsedAll, Given
<1>. HIDE DEF V, G
<1>5. ASSUME NEW f \in FileFields
      PROVE  Final(cfg).scalars[f] =
                 IF f \in DOMAIN flags /\ flags[f] # "" THEN Parsed(f, flags[f])
                 ELSE IF f \in DOMAIN env THEN Parsed(f, env[f])
                 ELSE IF LastSetting(layers, f) # Zero THEN LastSetting(layers, f)
                 ELSE Default[f]
  <2>1. D.scalars[f] = IF LastSetting(layers, f) # Zero THEN LastSetting(layers, f)
                       ELSE Default[f]
    BY <1>1, <1>5 DEF FileFields
  <2>2. E.scalars[f] = IF f \in DOMAIN env THEN Parsed(f, env[f]) ELSE D.scalars[f]
    BY <1>2, <1>5, <1>7 DEF FileFields, Override
  <2>3. Override(E.scalars, G)[f] = IF f \in DOMAIN G THEN G[f] ELSE E.scalars[f]
    BY <1>5 DEF FileFields, Override
  <2>. QED BY <1>3, <1>4, <1>8, <2>1, <2>2, <2>3
<1>6. DOMAIN Final(cfg).scalars = Fields
  BY <1>3, <1>4 DEF Override
<1>. QED BY <1>3, <1>4, <1>5, <1>6 DEF Precedence, FileFields

LEMMA PrecFinish == ASSUME PrecInv, Finish PROVE PrecInv'
<1>1. CASE Fail
  BY <1>1, PrecUntouched DEF Fail, Become
<1>2. CASE ~Fail
  <2>1. /\ step = "parts" /\ step' = "store" /\ cfg' = Final(cfg)
        /\ UNCHANGED <<env, flags, store, basis, read>>
    BY <1>2 DEF Finish, At, process, stored
  <2>2. /\ DOMAIN Final(cfg) = {"scalars", "allow", "sources"}
        /\ DOMAIN Final(cfg).scalars = Fields
        /\ Precedence(Final(cfg), read)
    BY <2>1, FinalPrecedence DEF PrecInv
  <2>3. Precedence(cfg', read')
    BY <2>1, <2>2
  <2>4. Precedence(cfg, read)'
    BY <2>1, <2>3 DEF Precedence
  <2>5. PrecedenceHolds'
    BY <2>1 DEF PrecInv, PrecedenceHolds, Precedence
  <2>. QED BY <2>1, <2>2, <2>4, <2>5 DEF PrecInv
<1>. QED BY <1>1, <1>2

LEMMA PrecKeep == ASSUME PrecInv, Keep PROVE PrecInv'
<1>1. /\ step = "store" /\ step' \in {"idle", "apply"} /\ store' = cfg /\ basis' = read
      /\ UNCHANGED <<env, flags, cfg, read>>
  BY DEF Keep, At
<1>2. PrecedenceHolds'
  BY <1>1 DEF PrecInv, PrecedenceHolds, Precedence
<1>. QED BY <1>1, <1>2 DEF PrecInv

LEMMA PrecApply == ASSUME PrecInv, Apply PROVE PrecInv'
<1>1. step' = "idle" /\ UNCHANGED <<env, flags, cfg, read, store, basis>>
  BY DEF Apply, process, stored
<1>2. PrecedenceHolds'
  BY <1>1 DEF PrecInv, PrecedenceHolds, Precedence
<1>. QED BY <1>1, <1>2 DEF PrecInv

LEMMA PrecNext == ASSUME PrecInv, [Next]_vars PROVE PrecInv'
<1>1. CASE UNCHANGED <<load, stored, env, flags>>
  BY <1>1, PrecUntouched
<1>2. CASE EditTop \/ EditPart \/ Signal \/ Terminate \/ StartWatch \/ Refuse \/ UNCHANGED vars
  BY <1>1, <1>2 DEF EditTop, EditPart, Signal, Terminate, StartWatch, Refuse, Fail, Become,
                    vars, process
<1>. QED BY <1>2, PrecReceive, PrecReadTop, PrecReadDir, PrecReadPart, PrecFinish, PrecKeep,
            PrecApply DEF Next, LoadStep

(* What is stored follows the documented precedence of flags, environment, the
   last file and the defaults, whatever edits the load met (config.Load with
   mergeLayer, ApplyEnv and ApplyFlags). *)
THEOREM StoredPrecedence == Spec => []PrecedenceHolds
<1>1. PrecInv => PrecedenceHolds
  BY DEF PrecInv
<1>. QED BY <1>1, PrecInit, PrecNext, PTL DEF Spec

-----------------------------------------------------------------------------
(* The configuration in force is the one that was signalled. *)

(* No signal waits and no file was edited since the last. *)
Settled == up # "exited" /\ ~dirty /\ ~pending

NowDir == DirOf(Override(Empty.scalars, top.scalars))

(* A load that started after the last signal has read of each file what is in
   it, and has the rest of the listing before it. *)
SettledInv ==
    /\ step \in {"top", "dir", "parts", "store", "apply", "idle"}
    /\ step = "top" => cfg = Empty
    /\ Settled =>
        /\ step = "dir" =>
            /\ top \notin {Bad, Missing}
            /\ cfg.scalars = Override(Empty.scalars, top.scalars)
            /\ read = [i \in {0} |-> top]
        /\ step = "parts" =>
            /\ top \notin {Bad, Missing}
            /\ DOMAIN read \cup DOMAIN todo = {0} \cup DOMAIN Listing(NowDir)
            /\ DOMAIN todo \in SUBSET DOMAIN Listing(NowDir)
            /\ \A i \in DOMAIN todo : todo[i] = Listing(NowDir)[i]
            /\ read = [i \in DOMAIN read |-> LayersNow[i]]
        /\ step = "store" => read = LayersNow
        /\ step \in {"apply", "idle"} => basis = LayersNow

LEMMA SettledInit == Init => SettledInv
  BY DEF Init, SettledInv

LEMMA LayersWhenReadable ==
    ASSUME top \notin {Bad, Missing}
    PROVE  LayersNow = [i \in {0} \cup DOMAIN Listing(NowDir) |->
                            IF i = 0 THEN top ELSE confd[Listing(NowDir)[i]]]
  BY DEF LayersNow, NowDir

(* What the files say stays the same while nobody edits them. *)
LEMMA SameFiles ==
    ASSUME UNCHANGED files
    PROVE  LayersNow' = LayersNow /\ Listing(NowDir)' = Listing(NowDir)
  BY DEF files, LayersNow, NowDir, Listing

(* Edits make the state unsettled, and so does a signal; Terminate and errors
   end the process. *)
LEMMA SettledUntouched ==
    ASSUME SettledInv, UNCHANGED <<load, stored>>, Settled' => Settled /\ UNCHANGED files
    PROVE  SettledInv'
<1>1. UNCHANGED <<step, cfg, todo, read, basis>>
  BY DEF load, stored
<1>2. ASSUME Settled'
      PROVE  Settled /\ UNCHANGED top /\ LayersNow' = LayersNow
             /\ Listing(NowDir)' = Listing(NowDir)
  BY <1>2, SameFiles DEF files
<1>. QED BY <1>1, <1>2 DEF SettledInv

LEMMA SettledOthers ==
    ASSUME SettledInv,
           EditTop \/ EditPart \/ Signal \/ Terminate \/ StartWatch \/ Fail \/ UNCHANGED vars
    PROVE  SettledInv'
<1>1. UNCHANGED <<load, stored>>
  BY DEF EditTop, EditPart, Signal, Terminate, StartWatch, Fail, Become, vars
<1>2. ASSUME Settled' PROVE Settled /\ UNCHANGED files
  BY <1>2 DEF EditTop, EditPart, Signal, Terminate, StartWatch, Fail, Become, vars, Settled,
              files, process
<1>. QED BY <1>1, <1>2, SettledUntouched

LEMMA SettledReceive == ASSUME SettledInv, Receive PROVE SettledInv'
  BY DEF SettledInv, Receive

LEMMA SettledReadTop == ASSUME SettledInv, ReadTop, ~Fail PROVE SettledInv'
<1>1. /\ step = "top" /\ step' = "dir" /\ cfg' = Merge(cfg, top)
      /\ read' = [i \in {0} |-> top] /\ top \notin {Bad, Missing} /\ UNCHANGED top
  BY DEF ReadTop, At, files
<1>2. cfg'.scalars = Override(Empty.scalars, top.scalars)
  BY <1>1 DEF SettledInv, Merge
<1>. QED BY <1>1, <1>2 DEF SettledInv

LEMMA SettledReadDir == ASSUME SettledInv, ReadDir, ~Fail PROVE SettledInv'
<1>1. /\ step = "dir" /\ step' = "parts" /\ todo' = Listing(DirOf(cfg.scalars))
      /\ UNCHANGED <<top, files, dirty, up, pending, read>>
  BY DEF ReadDir, At, files, process
<1>. SUFFICES ASSUME Settled'
              PROVE  /\ top \notin {Bad, Missing} /\ step' = "parts"
                     /\ todo' = Listing(NowDir) /\ read' = [i \in {0} |-> top]
                     /\ LayersNow' = LayersNow /\ Listing(NowDir)' = Listing(NowDir)
  <2>1. ASSUME top \notin {Bad, Missing}
        PROVE  LayersNow[0] = top
    BY <2>1, LayersWhenReadable
  <2>. QED BY <1>1, <2>1 DEF SettledInv
<1>2. Settled
  BY <1>1 DEF Settled
<1>. QED BY <1>1, <1>2, SameFiles DEF SettledInv, NowDir

LEMMA SettledReadPart ==
    ASSUME SettledInv, PrecInv, ReadPart, ~Fail
    PROVE  SettledInv'
<1>. DEFINE i == Min(DOMAIN todo)
<1>1. /\ step = "parts" /\ step' = "parts" /\ DOMAIN todo # {}
      /\ read' = [k \in DOMAIN read \cup {i} |-> IF k = i THEN confd[todo[i]] ELSE read[k]]
      /\ todo' = [k \in DOMAIN todo \ {i} |-> todo[k]]
      /\ UNCHANGED <<files, top, dirty, up, pending>>
  BY DEF ReadPart, At, files, process
<1>2. i \in DOMAIN todo
  BY <1>1, Least DEF PrecInv
<1>. HIDE DEF i
<1>3. LayersNow' = LayersNow /\ Listing(NowDir)' = Listing(NowDir)
  BY <1>1, SameFiles
<1>. SUFFICES ASSUME Settled'
              PROVE  /\ top \notin {Bad, Missing}
                     /\ DOMAIN read' \cup DOMAIN todo' = {0} \cup DOMAIN Listing(NowDir)
                     /\ DOMAIN todo' \in SUBSET DOMAIN Listing(NowDir)
                     /\ \A k \in DOMAIN todo' : todo'[k] = Listing(NowDir)[k]
                     /\ read' = [k \in DOMAIN read' |-> LayersNow[k]]
  BY <1>1, <1>3 DEF SettledInv
<1>4. /\ top \notin {Bad, Missing}
      /\ DOMAIN read \cup DOMAIN todo = {0} \cup DOMAIN Listing(NowDir)
      /\ DOMAIN todo \in SUBSET DOMAIN Listing(NowDir)
      /\ \A k \in DOMAIN todo : todo[k] = Listing(NowDir)[k]
      /\ read = [k \in DOMAIN read |-> LayersNow[k]]
  BY <1>1 DEF SettledInv, Settled
<1>5. DOMAIN read' = DOMAIN read \cup {i} /\ DOMAIN todo' = DOMAIN todo \ {i}
  BY <1>1
<1>6. i # 0
  BY <1>2, <1>4, ListingDomain
<1>7. confd[todo[i]] = LayersNow[i]
  BY <1>2, <1>4, <1>6, LayersWhenReadable
<1>8. \A k \in DOMAIN read' : read'[k] = LayersNow[k]
  BY <1>1, <1>4, <1>7
<1>9. read' = [k \in DOMAIN read' |-> LayersNow[k]]
  BY <1>1, <1>8
<1>10. \A k \in DOMAIN todo' : todo'[k] = Listing(NowDir)[k]
  BY <1>1, <1>4
<1>. QED BY <1>2, <1>4, <1>5, <1>9, <1>10

LEMMA SettledFinish == ASSUME SettledInv, Finish, ~Fail PROVE SettledInv'
<1>1. /\ step = "parts" /\ step' = "store" /\ DOMAIN todo = {}
      /\ UNCHANGED <<files, top, dirty, up, pending, read>>
  BY DEF Finish, At, files, process
<1>2. LayersNow' = LayersNow
  BY <1>1, SameFiles
<1>3. ASSUME Settled' PROVE read = LayersNow
  <2>1. /\ top \notin {Bad, Missing}
        /\ DOMAIN read = {0} \cup DOMAIN Listing(NowDir)
        /\ read = [k \in DOMAIN read |-> LayersNow[k]]
    BY <1>1, <1>3 DEF SettledInv, Settled
  <2>2. LayersNow = [k \in {0} \cup DOMAIN Listing(NowDir) |-> LayersNow[k]]
    BY <2>1, LayersWhenReadable
  <2>. QED BY <2>1, <2>2
<1>. QED BY <1>1, <1>2, <1>3 DEF SettledInv

LEMMA SettledKeep == ASSUME SettledInv, Keep PROVE SettledInv'
<1>1. /\ step = "store" /\ step' \in {"idle", "apply"} /\ basis' = read
      /\ UNCHANGED <<files, dirty, pending>> /\ up # "exited"
  BY DEF Keep, At, files
<1>2. LayersNow' = LayersNow
  BY <1>1, SameFiles
<1>. QED BY <1>1, <1>2 DEF SettledInv, Settled

LEMMA SettledApply == ASSUME SettledInv, Apply PROVE SettledInv'
<1>1. step = "apply" /\ step' = "idle" /\ UNCHANGED <<files, dirty, up, pending, basis>>
  BY DEF Apply, At, files, process, stored
<1>2. LayersNow' = LayersNow
  BY <1>1, SameFiles
<1>. QED BY <1>1, <1>2 DEF SettledInv, Settled

LEMMA SettledNext == ASSUME SettledInv, PrecInv, [Next]_vars PROVE SettledInv'
<1>1. CASE Refuse
  BY <1>1, SettledOthers DEF Refuse
<1>2. CASE Fail
  BY <1>2, SettledOthers
<1>. QED BY <1>1, <1>2, SettledOthers, SettledReceive, SettledReadTop, SettledReadDir,
            SettledReadPart, SettledFinish, SettledKeep, SettledApply DEF Next, LoadStep

(* However edits, signals and loads interleave, once every edit was signalled
   and no signal waits, a serving process has what the files say: the single
   place in the channel loses nothing (Watch). *)
THEOREM SignalledIsInForce == Spec => []SettledIsCurrent
<1>1. PrecInv /\ SettledInv => SettledIsCurrent
  BY DEF SettledInv, Settled, SettledIsCurrent
<1>2. PrecInv /\ SettledInv /\ [Next]_vars => PrecInv' /\ SettledInv'
  BY PrecNext, SettledNext
<1>. QED BY <1>1, <1>2, PrecInit, SettledInit, PTL DEF Spec

-----------------------------------------------------------------------------
(* Folds.  Union and MergeSources put the entries of a list into another one
   after the other. *)

Place(what, list, x) == IF what = "allow" THEN AddNew(list, x) ELSE PutSource(list, x)

(* The function of FoldLeft, on the sets of the first n positions. *)
Iterates(g, what, base, add, n) ==
    g = [s \in SUBSET (1..n) |->
            IF s = {} THEN base ELSE Place(what, g[s \ {Max(s)}], add[Max(s)])]

LEMMA IntervalMax ==
    ASSUME NEW n \in Nat
    PROVE  \A s \in SUBSET (1..n) : HasMax(s)
<1>. DEFINE T == {m \in Nat : \E s \in SUBSET (1..m) : ~HasMax(s)}
<1>. SUFFICES ASSUME T # {} PROVE FALSE
  OBVIOUS
<1>1. PICK m \in T : \A k \in T : m <= k
  BY Least
<1>2. PICK s \in SUBSET (1..m) : ~HasMax(s)
  OBVIOUS
<1>3. CASE m \in s
  <2>1. \A k \in s : k <= m
    OBVIOUS
  <2>. QED BY <1>2, <1>3, <2>1 DEF HasMax
<1>4. CASE m \notin s /\ m # 0
  <2>1. s \in SUBSET (1..(m - 1)) /\ m - 1 \in Nat
    BY <1>4
  <2>2. m - 1 \in T
    BY <1>2, <2>1
  <2>. QED BY <1>1, <2>2
<1>5. CASE m = 0
  <2>1. 1..0 = {}
    OBVIOUS
  <2>2. s = {}
    BY <1>5, <2>1
  <2>. QED BY <1>2, <2>2 DEF HasMax
<1>. QED BY <1>3, <1>4, <1>5

(* Taking the last position out of a set of the first n + 1. *)
LEMMA LastPosition ==
    ASSUME NEW n \in Nat, NEW s \in SUBSET (1..(n + 1))
    PROVE  /\ n + 1 \in s => Max(s) = n + 1 /\ s \ {Max(s)} \in SUBSET (1..n)
           /\ n + 1 \notin s => s \in SUBSET (1..n)
           /\ s # {} => Max(s) \in s
<1>1. s \in SUBSET Nat
  OBVIOUS
<1>2. \A k \in s : k <= n + 1
  OBVIOUS
<1>3. n + 1 \in s => Max(s) = n + 1
  BY <1>1, <1>2, MaxIs
<1>4. s # {} => Max(s) \in s
  BY <1>1, IntervalMax, MaxIn
<1>5. s \ {n + 1} \in SUBSET (1..n)
  OBVIOUS
<1>6. n + 1 \notin s => s = s \ {n + 1}
  OBVIOUS
<1>. QED BY <1>3, <1>4, <1>5, <1>6

LEMMA IteratesExists ==
    ASSUME NEW what, NEW base, NEW add, NEW n \in Nat
    PROVE  \E g : Iterates(g, what, base, add, n)
<1>. DEFINE T == {m \in Nat : ~\E g : Iterates(g, what, base, add, m)}
<1>. SUFFICES ASSUME T # {} PROVE FALSE
  OBVIOUS
<1>1. PICK m \in T : \A k \in T : m <= k
  BY Least
<1>2. CASE m = 0
  <2>. DEFINE g == [s \in SUBSET (1..0) |-> base]
  <2>0. 1..0 = {}
    OBVIOUS
  <2>1. \A s \in SUBSET (1..0) : s = {}
    BY <2>0
  <2>2. Iterates(g, what, base, add, 0)
    BY <2>1 DEF Iterates
  <2>. QED BY <1>2, <2>2
<1>3. CASE m # 0
  <2>. DEFINE k == m - 1
  <2>1. k \in Nat /\ k + 1 = m /\ k \notin T
    BY <1>1, <1>3
  <2>. HIDE DEF k
  <2>2. PICK g : Iterates(g, what, base, add, k)
    BY <2>1
  <2>. DEFINE F(h, s) == IF s = {} THEN base ELSE Place(what, h[s \ {Max(s)}], add[Max(s)])
              h == [s \in SUBSET (1..(k + 1)) |->
                       IF k + 1 \in s THEN Place(what, g[s \ {k + 1}], add[k + 1]) ELSE g[s]]
  <2>3. \A s \in SUBSET (1..k) : g[s] = F(g, s) /\ h[s] = g[s]
    <3>1. \A s \in SUBSET (1..k) : g[s] = F(g, s)
      BY <2>2 DEF Iterates
    <3>2. \A s \in SUBSET (1..k) : s \in SUBSET (1..(k + 1)) /\ k + 1 \notin s
      BY <2>1
    <3>3. \A s \in SUBSET (1..k) : h[s] = g[s]
      BY <3>2
    <3>. QED BY <3>1, <3>3
  <2>4. ASSUME NEW s \in SUBSET (1..(k + 1))
        PROVE  h[s] = F(h, s)
    <3>1. CASE k + 1 \in s
      <4>1. Max(s) = k + 1 /\ s \ {Max(s)} \in SUBSET (1..k)
        BY <2>1, <3>1, LastPosition
      <4>2. h[s \ {Max(s)}] = g[s \ {k + 1}]
        BY <2>3, <4>1
      <4>. QED BY <3>1, <4>1, <4>2
    <3>2. CASE k + 1 \notin s
      <4>1. s \in SUBSET (1..k) /\ (s # {} => Max(s) \in s)
        BY <2>1, <3>2, LastPosition
      <4>2. s \ {Max(s)} \in SUBSET (1..k)
        BY <4>1
      <4>3. h[s] = g[s] /\ h[s \ {Max(s)}] = g[s \ {Max(s)}] /\ g[s] = F(g, s)
        BY <2>3, <4>1, <4>2
      <4>. HIDE DEF h
      <4>. QED BY <4>3
    <3>. QED BY <3>1, <3>2
  <2>5. h = [s \in SUBSET (1..(k + 1)) |-> F(h, s)]
    BY <2>4
  <2>6. Iterates(h, what, base, add, k + 1)
    BY <2>5 DEF Iterates
  <2>. QED BY <2>1, <2>6
<1>. QED BY <1>2, <1>3

(* Both are the last of the lists reached by placing one entry after the other. *)
LEMMA FoldIterates ==
    ASSUME NEW base, NEW add, DOMAIN add = 1..Len(add), Len(add) \in Nat
    PROVE  /\ \E h : Iterates(h, "allow", base, add, Len(add))
                     /\ Union(base, add) = h[1..Len(add)]
           /\ \E h : Iterates(h, "sources", base, add, Len(add))
                     /\ MergeSources(base, add) = h[1..Len(add)]
<1>. HIDE DEF AddNew, PutSource, Max
<1>1. \E h : Iterates(h, "allow", base, add, Len(add)) /\ Union(base, add) = h[1..Len(add)]
  <2>. DEFINE W(h) == h = [s \in SUBSET DOMAIN add |->
                              IF s = {} THEN base ELSE AddNew(h[s \ {Max(s)}], add[Max(s)])]
              C == CHOOSE h : W(h)
  <2>1. Union(base, add) = C[DOMAIN add]
    BY DEF Union, FoldLeft, MapThenFoldSet
  <2>2. ASSUME NEW h
        PROVE  W(h) <=> Iterates(h, "allow", base, add, Len(add))
    <3>1. \A list, x : Place("allow", list, x) = AddNew(list, x)
      BY DEF Place
    <3>2. [s \in SUBSET DOMAIN add |->
              IF s = {} THEN base ELSE AddNew(h[s \ {Max(s)}], add[Max(s)])]
          = [s \in SUBSET (1..Len(add)) |->
              IF s = {} THEN base ELSE Place("allow", h[s \ {Max(s)}], add[Max(s)])]
      BY <3>1
    <3>. QED BY <3>2 DEF Iterates
  <2>. HIDE DEF W
  <2>3. \E h : W(h)
    BY <2>2, IteratesExists
  <2>4. W(C)
    BY <2>3
  <2>. QED BY <2>1, <2>2, <2>4
<1>2. \E h : Iterates(h, "sources", base, add, Len(add)) /\ MergeSources(base, add) = h[1..Len(add)]
  <2>. DEFINE W(h) == h = [s \in SUBSET DOMAIN add |->
                              IF s = {} THEN base ELSE PutSource(h[s \ {Max(s)}], add[Max(s)])]
              C == CHOOSE h : W(h)
  <2>1. MergeSources(base, add) = C[DOMAIN add]
    BY DEF MergeSources, FoldLeft, MapThenFoldSet
  <2>2. ASSUME NEW h
        PROVE  W(h) <=> Iterates(h, "sources", base, add, Len(add))
    <3>1. \A list, x : Place("sources", list, x) = PutSource(list, x)
      BY DEF Place
    <3>2. [s \in SUBSET DOMAIN add |->
              IF s = {} THEN base ELSE PutSource(h[s \ {Max(s)}], add[Max(s)])]
          = [s \in SUBSET (1..Len(add)) |->
              IF s = {} THEN base ELSE Place("sources", h[s \ {Max(s)}], add[Max(s)])]
      BY <3>1
    <3>. QED BY <3>2 DEF Iterates
  <2>. HIDE DEF W
  <2>3. \E h : W(h)
    BY <2>2, IteratesExists
  <2>4. W(C)
    BY <2>3
  <2>. QED BY <2>1, <2>2, <2>4
<1>. QED BY <1>1, <1>2

(* The lists on the way, the first of them the one they start from. *)
Lists(f, what, base, add) ==
    /\ f[0] = base
    /\ \A k \in 1..Len(add) : f[k] = Place(what, f[k - 1], add[k])

LEMMA FoldLists ==
    ASSUME NEW base, NEW add, DOMAIN add = 1..Len(add), Len(add) \in Nat
    PROVE  /\ \E f : Lists(f, "allow", base, add) /\ Union(base, add) = f[Len(add)]
           /\ \E f : Lists(f, "sources", base, add) /\ MergeSources(base, add) = f[Len(add)]
<1>1. ASSUME NEW what, NEW h, Iterates(h, what, base, add, Len(add))
      PROVE  LET f == [k \in 0..Len(add) |-> h[1..k]]
             IN  Lists(f, what, base, add) /\ f[Len(add)] = h[1..Len(add)]
  <2>. DEFINE f == [k \in 0..Len(add) |-> h[1..k]]
  <2>1. \A s \in SUBSET (1..Len(add)) :
            h[s] = IF s = {} THEN base ELSE Place(what, h[s \ {Max(s)}], add[Max(s)])
    BY <1>1 DEF Iterates
  <2>2. f[0] = base
    <3>1. 1..0 = {} /\ {} \in SUBSET (1..Len(add))
      OBVIOUS
    <3>2. h[1..0] = base
      BY <2>1, <3>1
    <3>. QED BY <3>2
  <2>3. ASSUME NEW k \in 1..Len(add)
        PROVE  f[k] = Place(what, f[k - 1], add[k])
    <3>1. k \in 1..k /\ 1..k \in SUBSET Nat /\ \A j \in 1..k : j <= k
      OBVIOUS
    <3>2. Max(1..k) = k
      BY <3>1, MaxIs
    <3>3. (1..k) \ {k} = 1..(k - 1)
      OBVIOUS
    <3>4. 1..k # {} /\ 1..k \in SUBSET (1..Len(add))
      OBVIOUS
    <3>5. h[1..k] = Place(what, h[1..(k - 1)], add[k])
      BY <2>1, <3>2, <3>3, <3>4
    <3>6. f[k] = h[1..k] /\ f[k - 1] = h[1..(k - 1)]
      OBVIOUS
    <3>. QED BY <3>5, <3>6
  <2>4. f[Len(add)] = h[1..Len(add)]
    OBVIOUS
  <2>. QED BY <2>2, <2>3, <2>4 DEF Lists
<1>2. PICK h : /\ Iterates(h, "allow", base, add, Len(add))
               /\ Union(base, add) = h[1..Len(add)]
  BY FoldIterates
<1>3. PICK g : /\ Iterates(g, "sources", base, add, Len(add))
               /\ MergeSources(base, add) = g[1..Len(add)]
  BY FoldIterates
<1>. QED BY <1>1, <1>2, <1>3

-----------------------------------------------------------------------------
(* What one entry does to a list, and then a whole layer. *)

NamedOnce(list) == \A i, j \in DOMAIN list : list[i].name = list[j].name => i = j

Called(list) == {d.name : d \in Range(list)}

LEMMA SeqFacts ==
    ASSUME NEW S, NEW list \in Seq(S), NEW x \in S
    PROVE  /\ Len(list) \in Nat /\ DOMAIN list = 1..Len(list)
           /\ Append(list, x) \in Seq(S)
           /\ DOMAIN Append(list, x) = 1..(Len(list) + 1)
           /\ \A i \in 1..Len(list) : Append(list, x)[i] = list[i]
           /\ Append(list, x)[Len(list) + 1] = x
OBVIOUS

LEMMA AppendRange ==
    ASSUME NEW S, NEW list \in Seq(S), NEW x \in S
    PROVE  Range(Append(list, x)) = Range(list) \cup {x}
<1>1. ASSUME NEW i \in DOMAIN list
      PROVE  i \in DOMAIN Append(list, x) /\ Append(list, x)[i] = list[i]
  BY SeqFacts
<1>2. ASSUME NEW i \in DOMAIN Append(list, x)
      PROVE  Append(list, x)[i] \in Range(list) \cup {x}
  BY SeqFacts DEF Range
<1>3. x \in Range(Append(list, x))
  BY SeqFacts DEF Range
<1>. QED BY <1>1, <1>2, <1>3 DEF Range

LEMMA AddNewFacts ==
    ASSUME NEW S, NEW list \in Seq(S), NEW x \in S, IsInjective(list)
    PROVE  /\ AddNew(list, x) \in Seq(S)
           /\ Range(AddNew(list, x)) = Range(list) \cup {x}
           /\ IsInjective(AddNew(list, x))
<1>1. CASE Contains(list, x)
  <2>1. x \in Range(list)
    BY <1>1, SeqFacts DEF Contains, Range
  <2>. QED BY <1>1, <2>1 DEF AddNew
<1>2. CASE ~Contains(list, x)
  <2>1. \A i \in 1..Len(list) : list[i] # x
    BY <1>2 DEF Contains
  <2>2. IsInjective(Append(list, x))
    BY <2>1, SeqFacts DEF IsInjective
  <2>. QED BY <1>2, <2>2, AppendRange, SeqFacts DEF AddNew
<1>. QED BY <1>1, <1>2

LEMMA PutSourceFacts ==
    ASSUME NEW S, NEW list \in Seq(S), NEW d \in S, NamedOnce(list)
    PROVE  /\ PutSource(list, d) \in Seq(S)
           /\ NamedOnce(PutSource(list, d))
           /\ \A e : e \in Range(PutSource(list, d)) <=>
                        e = d \/ (e \in Range(list) /\ e.name # d.name)
<1>1. CASE \E i \in DOMAIN list : list[i].name = d.name
  <2>. DEFINE put == [i \in DOMAIN list |-> IF list[i].name = d.name THEN d ELSE list[i]]
  <2>1. PutSource(list, d) = put
    BY <1>1 DEF PutSource
  <2>2. put \in Seq(S)
    BY SeqFacts
  <2>3. DOMAIN put = DOMAIN list /\ \A i \in DOMAIN list : put[i].name = list[i].name
    OBVIOUS
  <2>4. NamedOnce(put)
    BY <2>3 DEF NamedOnce
  <2>5. ASSUME NEW e
        PROVE  e \in Range(put) <=> e = d \/ (e \in Range(list) /\ e.name # d.name)
    BY <1>1 DEF Range
  <2>. QED BY <2>1, <2>2, <2>4, <2>5
<1>2. CASE ~\E i \in DOMAIN list : list[i].name = d.name
  <2>1. PutSource(list, d) = Append(list, d)
    BY <1>2 DEF PutSource
  <2>2. NamedOnce(Append(list, d))
    BY <1>2, SeqFacts DEF NamedOnce
  <2>3. \A e \in Range(list) : e.name # d.name
    BY <1>2 DEF Range
  <2>. QED BY <2>1, <2>2, <2>3, AppendRange, SeqFacts
<1>. QED BY <1>1, <1>2

(* unionStrings: nothing is lost, nothing is there twice. *)
LEMMA UnionFacts ==
    ASSUME NEW S, NEW base \in Seq(S), NEW add \in Seq(S), IsInjective(base)
    PROVE  /\ Union(base, add) \in Seq(S)
           /\ Range(Union(base, add)) = Range(base) \cup Range(add)
           /\ IsInjective(Union(base, add))
<1>1. DOMAIN add = 1..Len(add) /\ Len(add) \in Nat
  OBVIOUS
<1>2. PICK f : Lists(f, "allow", base, add) /\ Union(base, add) = f[Len(add)]
  BY <1>1, FoldLists
<1>. DEFINE P(k) == /\ f[k] \in Seq(S)
                    /\ Range(f[k]) = Range(base) \cup {add[j] : j \in 1..k}
                    /\ IsInjective(f[k])
<1>3. P(0)
  BY <1>2 DEF Lists
<1>4. ASSUME NEW k \in 1..Len(add), P(k - 1)
      PROVE  P(k)
  <2>1. f[k] = AddNew(f[k - 1], add[k]) /\ add[k] \in S
    BY <1>1, <1>2 DEF Lists, Place
  <2>. DEFINE before == f[k - 1]
  <2>. HIDE DEF before
  <2>2. /\ AddNew(before, add[k]) \in Seq(S) /\ IsInjective(AddNew(before, add[k]))
        /\ Range(AddNew(before, add[k])) = Range(before) \cup {add[k]}
    <3>1. before \in Seq(S) /\ IsInjective(before)
      BY <1>4 DEF before
    <3>. QED BY <2>1, <3>1, AddNewFacts
  <2>3. {add[j] : j \in 1..k} = {add[j] : j \in 1..(k - 1)} \cup {add[k]}
    OBVIOUS
  <2>. QED BY <1>4, <2>1, <2>2, <2>3 DEF before
<1>. HIDE DEF P
<1>5. ASSUME NEW n \in 0..Len(add), ~P(n) PROVE FALSE
  <2>. DEFINE T == {k \in 0..Len(add) : ~P(k)}
  <2>1. T \in SUBSET Nat /\ T # {}
    BY <1>1, <1>5
  <2>2. PICK m \in T : \A k \in T : m <= k
    BY <2>1, Least
  <2>3. m # 0
    BY <1>3
  <2>4. m \in 1..Len(add) /\ m - 1 \in 0..Len(add) /\ m - 1 \notin T
    BY <1>1, <2>2, <2>3
  <2>. QED BY <1>4, <2>4
<1>6. P(Len(add))
  BY <1>1, <1>5
<1>. QED BY <1>1, <1>2, <1>6 DEF P, Range

(* The last of the first k definitions of its name. *)
LastIn(add, k, e) ==
    \E j \in 1..k : add[j] = e /\ \A m \in 1..k : add[m].name = e.name => m <= j

NotIn(add, k, e) == \A m \in 1..k : add[m].name # e.name

(* Datasources keyed by name: of the new ones the last of each name, of the old
   ones those that are not redefined. *)
LEMMA MergeSourcesFacts ==
    ASSUME NEW S, NEW base \in Seq(S), NEW add \in Seq(S), NamedOnce(base)
    PROVE  /\ MergeSources(base, add) \in Seq(S)
           /\ NamedOnce(MergeSources(base, add))
           /\ Called(MergeSources(base, add)) = Called(base) \cup Called(add)
           /\ \A e \in Range(MergeSources(base, add)) :
                 LastIn(add, Len(add), e) \/ (e \in Range(base) /\ NotIn(add, Len(add), e))
<1>1. DOMAIN add = 1..Len(add) /\ Len(add) \in Nat
  OBVIOUS
<1>2. PICK f : Lists(f, "sources", base, add) /\ MergeSources(base, add) = f[Len(add)]
  BY <1>1, FoldLists
<1>. DEFINE P(k) == /\ f[k] \in Seq(S)
                    /\ NamedOnce(f[k])
                    /\ Called(f[k]) = Called(base) \cup {add[j].name : j \in 1..k}
                    /\ \A e \in Range(f[k]) :
                          LastIn(add, k, e) \/ (e \in Range(base) /\ NotIn(add, k, e))
<1>3. P(0)
  BY <1>2 DEF Lists, NotIn
<1>4. ASSUME NEW k \in 1..Len(add), P(k - 1)
      PROVE  P(k)
  <2>1. f[k] = PutSource(f[k - 1], add[k]) /\ add[k] \in S
    BY <1>1, <1>2 DEF Lists, Place
  <2>2. /\ f[k] \in Seq(S) /\ NamedOnce(f[k])
        /\ \A e : e \in Range(f[k]) <=>
                     e = add[k] \/ (e \in Range(f[k - 1]) /\ e.name # add[k].name)
    BY <2>1, <1>4, PutSourceFacts
  <2>3. Called(f[k]) = Called(f[k - 1]) \cup {add[k].name}
    BY <2>2 DEF Called
  <2>4. {add[j].name : j \in 1..k} = {add[j].name : j \in 1..(k - 1)} \cup {add[k].name}
    OBVIOUS
  <2>5. ASSUME NEW e \in Range(f[k])
        PROVE  LastIn(add, k, e) \/ (e \in Range(base) /\ NotIn(add, k, e))
    <3>1. CASE e = add[k]
      <4>1. \A m \in 1..k : m <= k
        OBVIOUS
      <4>. QED BY <3>1, <4>1 DEF LastIn
    <3>2. CASE e # add[k]
      <4>1. e \in Range(f[k - 1]) /\ add[k].name # e.name
        BY <2>2, <3>2
      <4>2. \A m \in 1..k : m \in 1..(k - 1) \/ m = k
        OBVIOUS
      <4>3. \A m \in 1..(k - 1) : m \in 1..k
        OBVIOUS
      <4>4. LastIn(add, k - 1, e) => LastIn(add, k, e)
        BY <4>1, <4>2, <4>3 DEF LastIn
      <4>5. NotIn(add, k - 1, e) => NotIn(add, k, e)
        BY <4>1, <4>2 DEF NotIn
      <4>. QED BY <1>4, <4>1, <4>4, <4>5
    <3>. QED BY <3>1, <3>2
  <2>. QED BY <1>4, <2>2, <2>3, <2>4, <2>5
<1>. HIDE DEF P
<1>5. ASSUME NEW n \in 0..Len(add), ~P(n) PROVE FALSE
  <2>. DEFINE T == {k \in 0..Len(add) : ~P(k)}
  <2>1. T \in SUBSET Nat /\ T # {}
    BY <1>1, <1>5
  <2>2. PICK m \in T : \A k \in T : m <= k
    BY <2>1, Least
  <2>3. m # 0
    BY <1>3
  <2>4. m \in 1..Len(add) /\ m - 1 \in 0..Len(add) /\ m - 1 \notin T
    BY <1>1, <2>2, <2>3
  <2>. QED BY <1>4, <2>4
<1>6. P(Len(add))
  BY <1>1, <1>5
<1>7. Called(add) = {add[j].name : j \in 1..Len(add)}
  BY <1>1 DEF Called, Range
<1>. QED BY <1>2, <1>6, <1>7 DEF P

-----------------------------------------------------------------------------
(* The policy of all the layers. *)

IsLayer(layer) ==
    /\ layer.allow \in Seq(Range(layer.allow))
    /\ layer.sources \in Seq(Range(layer.sources))
    /\ \A d \in Range(layer.sources) : DOMAIN d = {"name", "type", "ttl"}

(* Definition j of layer i is that of d, and no later one has its name. *)
LastDefinition(layers, i, j, d) ==
    /\ layers[i].sources[j].name = d.name
    /\ layers[i].sources[j].type = d.type
    /\ \A k \in DOMAIN layers : \A m \in DOMAIN layers[k].sources :
           layers[k].sources[m].name = d.name => k < i \/ (k = i /\ m <= j)

HasDefinition(layers, d) ==
    \E i \in DOMAIN layers : \E j \in DOMAIN layers[i].sources :
        LastDefinition(layers, i, j, d)

IsConfig(c) ==
    /\ DOMAIN c = {"scalars", "allow", "sources"}
    /\ DOMAIN c.scalars = Fields
    /\ c.allow \in Seq(Range(c.allow))
    /\ c.sources \in Seq(Range(c.sources))
    /\ \A d \in Range(c.sources) : DOMAIN d = {"name", "type", "ttl"}

AreLayers(layers) ==
    DOMAIN layers \in SUBSET Nat /\ \A i \in DOMAIN layers : IsLayer(layers[i])

(* A configuration made of the layers, with or without its defaults. *)
Gathered(c, layers) ==
    /\ AreLayers(layers)
    /\ IsConfig(c)
    /\ Range(c.allow) = UNION {Range(layers[i].allow) : i \in DOMAIN layers}
    /\ IsInjective(c.allow)
    /\ NamedOnce(c.sources)
    /\ Called(c.sources) = UNION {Called(layers[i].sources) : i \in DOMAIN layers}
    /\ \A d \in Range(c.sources) : HasDefinition(layers, d)

LEMMA SeqOfMore ==
    ASSUME NEW S, NEW list \in Seq(S), NEW T, Range(list) \subseteq T
    PROVE  list \in Seq(T)
<1>1. Len(list) \in Nat /\ DOMAIN list = 1..Len(list)
      /\ list = [i \in 1..Len(list) |-> list[i]]
  OBVIOUS
<1>2. \A i \in 1..Len(list) : list[i] \in T
  BY <1>1 DEF Range
<1>. QED BY <1>1, <1>2

LEMMA OwnRange ==
    ASSUME NEW S, NEW list \in Seq(S)
    PROVE  list \in Seq(Range(list))
<1>1. Range(list) \subseteq Range(list)
  OBVIOUS
<1>. QED BY <1>1, SeqOfMore

LEMMA EmptyGathered == Gathered(Empty, <<>>)
<1>1. Range(<<>>) = {} /\ DOMAIN <<>> = {}
  BY DEF Range
<1>2. IsConfig(Empty)
  BY <1>1, EmptyShape DEF IsConfig, Empty
<1>3. AreLayers(<<>>)
  BY <1>1 DEF AreLayers
<1>4. Empty.allow = <<>> /\ Empty.sources = <<>>
  BY DEF Empty
<1>. QED BY <1>1, <1>2, <1>3, <1>4 DEF Gathered, IsInjective, NamedOnce, Called

LEMMA GatheredPolicy ==
    ASSUME NEW c, NEW layers, Gathered(c, layers)
    PROVE  Policy(c, layers)
<1>1. ASSUME NEW d \in Range(c.sources)
      PROVE  d.type = LatestSource(layers, d.name).type
  <2>1. PICK i \in DOMAIN layers : \E j \in DOMAIN layers[i].sources :
            LastDefinition(layers, i, j, d)
    BY DEF Gathered, HasDefinition
  <2>2. PICK j \in DOMAIN layers[i].sources : LastDefinition(layers, i, j, d)
    BY <2>1
  <2>. DEFINE T == {k \in DOMAIN layers : Defining(layers, k, d.name) # {}}
              U == Defining(layers, i, d.name)
  <2>3. j \in U /\ i \in T
    BY <2>2 DEF Defining, LastDefinition
  <2>4. DOMAIN layers \in SUBSET Nat /\ DOMAIN layers[i].sources \in SUBSET Nat
    BY DEF Gathered, AreLayers, IsLayer
  <2>5. \A k \in T : k <= i
    BY <2>2, <2>4 DEF Defining, LastDefinition
  <2>6. \A m \in U : m <= j
    BY <2>2, <2>4 DEF Defining, LastDefinition
  <2>7. T \in SUBSET Nat /\ U \in SUBSET Nat
    BY <2>4 DEF Defining
  <2>. HIDE DEF T, U
  <2>8. Max(T) = i /\ Max(U) = j
    BY <2>3, <2>5, <2>6, <2>7, MaxIs
  <2>9. LatestSource(layers, d.name) = layers[i].sources[j]
    BY <2>8 DEF LatestSource, T, U
  <2>. QED BY <2>2, <2>9 DEF LastDefinition
<1>. QED BY <1>1 DEF Policy, Gathered, Called

LEMMA MergeGathered ==
    ASSUME NEW c, NEW layers, Gathered(c, layers), NEW layer, IsLayer(layer),
           NEW i \in Nat, \A k \in DOMAIN layers : k < i,
           NEW more,
           more = [k \in DOMAIN layers \cup {i} |-> IF k = i THEN layer ELSE layers[k]]
    PROVE  Gathered(Merge(c, layer), more)
<1>. DEFINE allow == Union(c.allow, layer.allow)
            sources == MergeSources(c.sources, layer.sources)
            merged == Merge(c, layer)
<1>1. merged.allow = allow /\ merged.sources = sources
      /\ DOMAIN merged = {"scalars", "allow", "sources"}
      /\ DOMAIN merged.scalars = Fields
  BY DEF Merge, Override
<1>. HIDE DEF merged
<1>2. /\ DOMAIN more = DOMAIN layers \cup {i} /\ i \notin DOMAIN layers /\ more[i] = layer
      /\ \A k \in DOMAIN layers : more[k] = layers[k]
  BY DEF Gathered, AreLayers
<1>3. AreLayers(more)
  BY <1>2 DEF Gathered, AreLayers
<1>4. /\ allow \in Seq(Range(c.allow) \cup Range(layer.allow))
      /\ Range(allow) = Range(c.allow) \cup Range(layer.allow)
      /\ IsInjective(allow)
  <2>. DEFINE S == Range(c.allow) \cup Range(layer.allow)
  <2>1. c.allow \in Seq(S) /\ layer.allow \in Seq(S)
    BY SeqOfMore DEF Gathered, IsConfig, IsLayer
  <2>. HIDE DEF S
  <2>2. allow \in Seq(S) /\ Range(allow) = Range(c.allow) \cup Range(layer.allow)
        /\ IsInjective(allow)
    BY <2>1, UnionFacts DEF Gathered
  <2>. QED BY <2>2 DEF S
<1>5. /\ sources \in Seq(Range(c.sources) \cup Range(layer.sources))
      /\ NamedOnce(sources)
      /\ Called(sources) = Called(c.sources) \cup Called(layer.sources)
      /\ \A e \in Range(sources) :
            \/ LastIn(layer.sources, Len(layer.sources), e)
            \/ e \in Range(c.sources) /\ NotIn(layer.sources, Len(layer.sources), e)
  <2>. DEFINE S == Range(c.sources) \cup Range(layer.sources)
  <2>1. c.sources \in Seq(S) /\ layer.sources \in Seq(S)
    BY SeqOfMore DEF Gathered, IsConfig, IsLayer
  <2>. HIDE DEF S
  <2>2. /\ sources \in Seq(S) /\ NamedOnce(sources)
        /\ Called(sources) = Called(c.sources) \cup Called(layer.sources)
        /\ \A e \in Range(sources) :
              \/ LastIn(layer.sources, Len(layer.sources), e)
              \/ e \in Range(c.sources) /\ NotIn(layer.sources, Len(layer.sources), e)
    BY <2>1, MergeSourcesFacts DEF Gathered
  <2>. QED BY <2>2 DEF S
<1>. HIDE DEF allow, sources
<1>6. DOMAIN layer.sources = 1..Len(layer.sources)
  BY DEF IsLayer
<1>7. Range(sources) \subseteq Range(c.sources) \cup Range(layer.sources)
  BY <1>5, <1>6 DEF LastIn, Range
<1>8. IsConfig(merged)
  BY <1>1, <1>4, <1>5, <1>7, OwnRange DEF IsConfig, Gathered, IsLayer
<1>9. Range(allow) = UNION {Range(more[k].allow) : k \in DOMAIN more}
  <2>1. \A x : x \in Range(allow) <=>
            (\E k \in DOMAIN layers : x \in Range(layers[k].allow)) \/ x \in Range(layer.allow)
    BY <1>4 DEF Gathered
  <2>2. \A x : (\E k \in DOMAIN more : x \in Range(more[k].allow)) <=>
            (\E k \in DOMAIN layers : x \in Range(layers[k].allow)) \/ x \in Range(layer.allow)
    BY <1>2
  <2>. DEFINE whole == UNION {Range(more[k].allow) : k \in DOMAIN more}
  <2>3. \A x : x \in whole <=> \E k \in DOMAIN more : x \in Range(more[k].allow)
    OBVIOUS
  <2>. HIDE DEF whole
  <2>4. Range(allow) = whole
    BY <2>1, <2>2, <2>3
  <2>. QED BY <2>4 DEF whole
<1>10. Called(sources) = UNION {Called(more[k].sources) : k \in DOMAIN more}
  <2>1. \A x : x \in Called(sources) <=>
            (\E k \in DOMAIN layers : x \in Called(layers[k].sources))
            \/ x \in Called(layer.sources)
    BY <1>5 DEF Gathered
  <2>2. \A x : (\E k \in DOMAIN more : x \in Called(more[k].sources)) <=>
            (\E k \in DOMAIN layers : x \in Called(layers[k].sources))
            \/ x \in Called(layer.sources)
    BY <1>2
  <2>. DEFINE whole == UNION {Called(more[k].sources) : k \in DOMAIN more}
  <2>3. \A x : x \in whole <=> \E k \in DOMAIN more : x \in Called(more[k].sources)
    OBVIOUS
  <2>. HIDE DEF whole
  <2>4. Called(sources) = whole
    BY <2>1, <2>2, <2>3
  <2>. QED BY <2>4 DEF whole
<1>11. ASSUME NEW d \in Range(sources)
       PROVE  HasDefinition(more, d)
  <2>1. CASE LastIn(layer.sources, Len(layer.sources), d)
    <3>1. PICK j \in DOMAIN layer.sources :
              /\ layer.sources[j] = d
              /\ \A m \in DOMAIN layer.sources : layer.sources[m].name = d.name => m <= j
      BY <1>6, <2>1 DEF LastIn
    <3>2. LastDefinition(more, i, j, d)
      BY <1>2, <3>1 DEF LastDefinition
    <3>. QED BY <1>2, <3>2 DEF HasDefinition
  <2>2. CASE d \in Range(c.sources) /\ NotIn(layer.sources, Len(layer.sources), d)
    <3>1. PICK k \in DOMAIN layers : \E j \in DOMAIN layers[k].sources :
              LastDefinition(layers, k, j, d)
      BY <2>2 DEF Gathered, HasDefinition
    <3>2. PICK j \in DOMAIN layers[k].sources : LastDefinition(layers, k, j, d)
      BY <3>1
    <3>3. \A m \in DOMAIN layer.sources : layer.sources[m].name # d.name
      BY <1>6, <2>2 DEF NotIn
    <3>4. LastDefinition(more, k, j, d)
      BY <1>2, <3>2, <3>3 DEF LastDefinition
    <3>. QED BY <1>2, <3>4 DEF HasDefinition
  <2>. QED BY <1>5, <2>1, <2>2
<1>. QED BY <1>1, <1>3, <1>4, <1>5, <1>8, <1>9, <1>10, <1>11 DEF Gathered, merged

(* Defaults change nothing but refresh intervals and, with the environment and
   the flags, scalar fields. *)
LEMMA FinalGathered ==
    ASSUME NEW c, NEW layers, Gathered(c, layers)
    PROVE  Gathered(Final(c), layers)
<1>. DEFINE D == ApplyDefaults(c)
            Defaulted(d) == IF d.ttl = Zero THEN [d EXCEPT !.ttl = DefaultTTL] ELSE d
<1>1. DOMAIN c = {"scalars", "allow", "sources"}
  BY DEF Gathered, IsConfig
<1>2. /\ DOMAIN D = DOMAIN c /\ D.allow = c.allow
      /\ D.sources = [i \in DOMAIN c.sources |-> Defaulted(c.sources[i])]
  BY <1>1 DEF ApplyDefaults
<1>3. /\ DOMAIN Final(c) = DOMAIN c
      /\ Final(c).allow = D.allow /\ Final(c).sources = D.sources
      /\ DOMAIN Final(c).scalars = Fields
  <2>. HIDE DEF D
  <2>1. /\ DOMAIN ApplyEnv(D) = DOMAIN D
        /\ ApplyEnv(D).allow = D.allow /\ ApplyEnv(D).sources = D.sources
    BY <1>1, <1>2 DEF ApplyEnv
  <2>2. \A e : DOMAIN e = {"scalars", "allow", "sources"} =>
            /\ DOMAIN ApplyFlags(e) = DOMAIN e
            /\ ApplyFlags(e).allow = e.allow /\ ApplyFlags(e).sources = e.sources
            /\ DOMAIN ApplyFlags(e).scalars = Fields
    BY DEF ApplyFlags, Override
  <2>. QED BY <1>1, <1>2, <2>1, <2>2 DEF Final, D
<1>. HIDE DEF D
<1>4. ASSUME NEW d \in Range(c.sources)
      PROVE  /\ Defaulted(d).name = d.name /\ Defaulted(d).type = d.type
             /\ DOMAIN Defaulted(d) = {"name", "type", "ttl"}
  BY DEF Gathered, IsConfig
<1>. HIDE DEF Defaulted
<1>5. /\ DOMAIN c.sources = 1..Len(c.sources) /\ Len(c.sources) \in Nat
      /\ \A i \in DOMAIN c.sources : c.sources[i] \in Range(c.sources)
  BY DEF Gathered, IsConfig, Range
<1>6. /\ DOMAIN D.sources = DOMAIN c.sources
      /\ \A i \in DOMAIN c.sources : D.sources[i] = Defaulted(c.sources[i])
  BY <1>2
<1>7. Range(D.sources) = {Defaulted(d) : d \in Range(c.sources)}
  BY <1>6 DEF Range
<1>8. D.sources \in Seq(Range(D.sources))
  BY <1>2, <1>5 DEF Range
<1>9. NamedOnce(D.sources)
  BY <1>4, <1>5, <1>6 DEF Gathered, NamedOnce
<1>10. Called(D.sources) = Called(c.sources)
  BY <1>4, <1>7 DEF Called
<1>11. ASSUME NEW e \in Range(D.sources)
       PROVE  HasDefinition(layers, e) /\ DOMAIN e = {"name", "type", "ttl"}
  <2>1. PICK d \in Range(c.sources) : e = Defaulted(d)
    BY <1>7
  <2>2. e.name = d.name /\ e.type = d.type /\ DOMAIN e = {"name", "type", "ttl"}
    BY <1>4, <2>1
  <2>3. HasDefinition(layers, d)
    BY DEF Gathered
  <2>. QED BY <2>2, <2>3 DEF HasDefinition, LastDefinition
<1>12. IsConfig(Final(c))
  BY <1>1, <1>2, <1>3, <1>8, <1>11 DEF IsConfig, Gathered
<1>. QED BY <1>2, <1>3, <1>9, <1>10, <1>11, <1>12 DEF Gathered

-----------------------------------------------------------------------------
(* The policy of the load in progress and of what is stored. *)

PolicyInv ==
    /\ top \in Tops /\ confd \in [Paths -> Parts]
    /\ \A i \in DOMAIN todo : todo[i] \in Paths
    /\ Gathered(cfg, read)
    /\ store # Nil => Gathered(store, basis)

LEMMA PolicyInit == Init => PolicyInv
  BY EmptyGathered DEF Init, PolicyInv

LEMMA ReadableLayer ==
    ASSUME NEW layer \in Tops \cup Parts, layer \notin {Bad, Missing}
    PROVE  IsLayer(layer)
  BY LayersAssumption DEF IsLayer

LEMMA PolicySurroundings ==
    ASSUME PolicyInv,
           EditTop \/ EditPart \/ Signal \/ Terminate \/ StartWatch \/ Fail \/ UNCHANGED vars
    PROVE  PolicyInv'
<1>1. UNCHANGED <<load, stored>>
  BY DEF EditTop, EditPart, Signal, Terminate, StartWatch, Fail, Become, vars
<1>2. top' \in Tops /\ confd' \in [Paths -> Parts]
  BY DEF EditTop, EditPart, Signal, Terminate, StartWatch, Fail, Become, vars, files, PolicyInv
<1>. QED BY <1>1, <1>2 DEF PolicyInv, load, stored

LEMMA PolicyReceive == ASSUME PolicyInv, Receive PROVE PolicyInv'
  BY EmptyGathered DEF PolicyInv, Receive, files, stored

LEMMA PolicyReadTop == ASSUME PolicyInv, PrecInv, ReadTop, ~Fail PROVE PolicyInv'
<1>1. /\ top \notin {Bad, Missing} /\ cfg' = Merge(cfg, top)
      /\ read' = [i \in {0} |-> top] /\ read = <<>>
      /\ UNCHANGED <<files, todo, stored>>
  BY DEF ReadTop, At, PrecInv
<1>2. /\ read' = [k \in DOMAIN read \cup {0} |-> IF k = 0 THEN top ELSE read[k]]
      /\ \A k \in DOMAIN read : k < 0
  BY <1>1
<1>3. IsLayer(top)
  BY <1>1, ReadableLayer DEF PolicyInv
<1>4. Gathered(Merge(cfg, top), read')
  <2>1. Gathered(cfg, read) /\ 0 \in Nat
    BY DEF PolicyInv
  <2>. QED BY <1>2, <1>3, <2>1, MergeGathered
<1>. QED BY <1>1, <1>4 DEF PolicyInv, files, stored

LEMMA PolicyReadDir == ASSUME PolicyInv, ReadDir, ~Fail PROVE PolicyInv'
<1>. DEFINE d == DirOf(cfg.scalars)
<1>1. /\ cfg' = [cfg EXCEPT !.scalars["config_dir"] = d] /\ todo' = Listing(d)
      /\ UNCHANGED <<files, read, stored>>
  BY DEF ReadDir, At
<1>2. \A i \in DOMAIN todo' : todo'[i] \in Paths
  BY <1>1 DEF Listing
<1>3. Gathered(cfg', read')
  <2>1. IsConfig(cfg')
    BY <1>1 DEF PolicyInv, Gathered, IsConfig
  <2>2. cfg'.allow = cfg.allow /\ cfg'.sources = cfg.sources /\ read' = read
    BY <1>1 DEF PolicyInv, Gathered, IsConfig
  <2>. QED BY <2>1, <2>2 DEF PolicyInv, Gathered
<1>. QED BY <1>1, <1>2, <1>3 DEF PolicyInv, files, stored

LEMMA PolicyReadPart == ASSUME PolicyInv, PrecInv, ReadPart, ~Fail PROVE PolicyInv'
<1>. DEFINE i == Min(DOMAIN todo)
            layer == confd[todo[i]]
<1>1. /\ step = "parts" /\ DOMAIN todo # {} /\ layer \notin {Bad, Missing}
      /\ cfg' = Merge(cfg, layer)
      /\ read' = [k \in DOMAIN read \cup {i} |-> IF k = i THEN layer ELSE read[k]]
      /\ todo' = [k \in DOMAIN todo \ {i} |-> todo[k]]
      /\ UNCHANGED <<files, stored>>
  BY DEF ReadPart, At
<1>2. i \in DOMAIN todo
  BY <1>1, Least DEF PrecInv
<1>. HIDE DEF i
<1>3. i \in Nat /\ \A k \in DOMAIN read : k < i
  BY <1>1, <1>2 DEF PrecInv
<1>4. layer \in Parts
  BY <1>2 DEF PolicyInv
<1>. HIDE DEF layer
<1>5. IsLayer(layer)
  BY <1>1, <1>4, ReadableLayer
<1>6. Gathered(cfg', read')
  BY <1>1, <1>3, <1>5, MergeGathered DEF PolicyInv
<1>7. \A k \in DOMAIN todo' : todo'[k] \in Paths
  BY <1>1 DEF PolicyInv
<1>. QED BY <1>1, <1>6, <1>7 DEF PolicyInv, files, stored

LEMMA PolicyFinish == ASSUME PolicyInv, Finish, ~Fail PROVE PolicyInv'
<1>1. cfg' = Final(cfg) /\ UNCHANGED <<files, todo, read, stored>>
  BY DEF Finish
<1>2. Gathered(cfg', read')
  BY <1>1, FinalGathered DEF PolicyInv
<1>. QED BY <1>1, <1>2 DEF PolicyInv, files, stored

LEMMA PolicyKeepApply == ASSUME PolicyInv, Keep \/ Apply PROVE PolicyInv'
  BY DEF PolicyInv, Keep, Apply, files, stored

LEMMA PolicyNext == ASSUME PolicyInv, PrecInv, [Next]_vars PROVE PolicyInv'
<1>1. CASE Fail \/ Refuse
  BY <1>1, PolicySurroundings DEF Refuse
<1>. QED BY <1>1, PolicySurroundings, PolicyReceive, PolicyReadTop, PolicyReadDir,
            PolicyReadPart, PolicyFinish, PolicyKeepApply DEF Next, LoadStep

LEMMA PolicyAlways == Spec => [](PolicyInv /\ PrecInv)
  BY PolicyInit, PrecInit, PolicyNext, PrecNext, PTL DEF Spec

(* Policy comes from the files alone: what is stored allows what any of the
   layers it was made from allows, once, and has of every datasource the last
   definition, whatever the files contain (mergeLayer, unionStrings and the
   merge by name, config.go:386-428). *)
THEOREM StoredPolicy == Spec => []PolicyIsUnion
<1>1. PolicyInv => PolicyIsUnion
  BY GatheredPolicy DEF PolicyInv, PolicyIsUnion
<1>. QED BY <1>1, PolicyAlways, PTL

(* The rest of the types: values that no step touches, and where a load is. *)
ProcessInv ==
    /\ <<env, flags>> \in Overrides
    /\ dirty \in BOOLEAN /\ pending \in BOOLEAN
    /\ up \in {"booting", "starting", "serving", "exited"}
    /\ step \in {"top", "dir", "parts", "store", "apply", "idle"}

LEMMA ProcessInit == Init => ProcessInv
  BY OverridesAssumption DEF Init, ProcessInv

LEMMA ProcessNext == ASSUME ProcessInv, [Next]_vars PROVE ProcessInv'
<1>. USE DEF ProcessInv, files, process, load
<1>1. CASE EditTop \/ EditPart \/ Signal \/ Terminate \/ StartWatch \/ UNCHANGED vars
  BY <1>1 DEF EditTop, EditPart, Signal, Terminate, StartWatch, Become, vars
<1>2. CASE Receive \/ ReadTop \/ ReadDir \/ ReadPart
  BY <1>2 DEF Receive, ReadTop, ReadDir, ReadPart, Fail, Become
<1>3. CASE Finish \/ Keep \/ Refuse \/ Apply
  BY <1>3 DEF Finish, Keep, Refuse, Apply, Fail, Become
<1>. QED BY <1>1, <1>2, <1>3 DEF Next, LoadStep

(* A configuration names each datasource once and has every field, during a
   load as well as in force (config.go:412-429). *)
THEOREM ConfigTypeCorrect == Spec => []ConfigTypeOK
<1>1. Spec => []ProcessInv
  BY ProcessInit, ProcessNext, PTL DEF Spec
<1>2. PolicyInv /\ ProcessInv => ConfigTypeOK
  BY DEF PolicyInv, ProcessInv, ConfigTypeOK, Gathered, IsConfig, NamedOnce
<1>. QED BY <1>1, <1>2, PolicyAlways, PTL
=============================================================================
