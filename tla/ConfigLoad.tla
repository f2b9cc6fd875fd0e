----------------------------- MODULE ConfigLoad -----------------------------
(***************************************************************************)
(* How the configuration in force comes about: internal/config (Load,      *)
(* mergeLayer, ApplyEnv, ApplyFlags, Validate, LoadFull, Store, Watch) and *)
(* its caller in main.go, at start-up and on every SIGHUP.                 *)
(*                                                                         *)
(* A load is not one step.  It reads config.yaml, lists a directory that   *)
(* config.yaml may name, and reads the files found there one by one, while *)
(* someone edits them; a file that has gone since the listing is an error. *)
(*                                                                         *)
(* A file's contents are what the decoder makes of them: the scalar fields *)
(* it has, possibly empty, the entries of its allowlist, and its           *)
(* datasources.  admin_users and admin_groups are united like allowlist    *)
(* and left out.  What onReload does with a configuration is the subject   *)
(* of ServerReload: here it succeeds or fails.                             *)
(***************************************************************************)
EXTENDS SequencesExt

CONSTANTS
    Tops,         \* what config.yaml may contain: layers, Bad or Missing
    Parts,        \* what a file of conf.d may contain
    Names,        \* the names of *.yaml files, as a sequence in lexical order
    Paths,        \* where such files may be: pairs of directory and name
    NoDirs,       \* values of config_dir that name no directory
    Overrides,    \* AUTHZ_* variables and flags of the process: pairs of functions
                  \* from fields to texts
    CertFiles,    \* certificate and key files that exist
    Bad, Missing, Nil

(* Positions are those of a sequence. *)
ASSUME NamesAssumption == Names \in Seq(Range(Names))

(* What the decoder makes of a file has lists, and datasources of three fields. *)
ASSUME LayersAssumption ==
    \A layer \in (Tops \cup Parts) \ {Bad, Missing} :
        /\ layer.allow \in Seq(Range(layer.allow))
        /\ layer.sources \in Seq(Range(layer.sources))
        /\ \A d \in Range(layer.sources) : DOMAIN d = {"name", "type", "ttl"}

ASSUME OverridesAssumption == \A o \in Overrides : o = <<o[1], o[2]>>

(* A Go zero value: the empty string, or the duration 0. *)
Zero == ""

(* The texts of a duration that does not parse, and of the duration 0. *)
Unparsable == "?"
ZeroDuration == "0s"

DefaultDir == "conf.d"

CheckFields == {"host_network", "privileged", "docker_cp", "docker_exec"}

OverridableFields == {"logging_level", "listen_addr", "server_cert", "server_key",
                      "metrics_path", "decision_timeout"}

Fields == CheckFields \cup OverridableFields \cup {"config_dir"}

Default ==
    [f \in Fields |->
        CASE f = "logging_level" -> "info"
          [] f = "listen_addr" -> ":80"
          [] f = "metrics_path" -> "/metrics"
          [] f = "decision_timeout" -> "2s"
          [] f \in CheckFields -> "allow"
          [] OTHER -> Zero]

DefaultTTL == "10m"

VARIABLES
    top,      \* the contents of config.yaml
    confd,    \* and of the files in the directories, Missing where there is none
    dirty,    \* whether a file was edited after the last SIGHUP
    env,      \* the environment of the process and
    flags,    \* its flags, which never change
    up,       \* booting, starting (serving, no Watch yet), serving or exited
    pending,  \* whether a SIGHUP is in Watch's channel
    step,     \* the step of the load under way, or idle
    cfg,      \* the configuration it has so far
    todo,     \* the files of the listing it has yet to read, by position in Names
    read,     \* the layers it has merged: config.yaml at 0, the others at theirs
    store,    \* the configuration in the Store, or Nil, and
    basis     \* the layers that it was made from

files == <<top, confd, dirty>>
process == <<env, flags, up, pending>>
load == <<step, cfg, todo, read>>
stored == <<store, basis>>
vars == <<files, process, load, stored>>

Empty == [scalars |-> [f \in Fields |-> Zero], allow |-> <<>>, sources |-> <<>>]

Init ==
    /\ top \in Tops
    /\ confd \in [Paths -> Parts]
    /\ dirty = FALSE
    /\ \E o \in Overrides : env = o[1] /\ flags = o[2]
    /\ up = "booting" /\ pending = FALSE
    /\ step = "top" /\ cfg = Empty /\ todo = <<>> /\ read = <<>>
    /\ store = Nil /\ basis = <<>>

-----------------------------------------------------------------------------
(* mergeLayer. *)

(* Mutant: emptiness stands for absence. *)
OverrideNonEmpty(scalars, layer) ==
    [f \in Fields |->
        IF f \in DOMAIN layer /\ layer[f] # Zero THEN layer[f] ELSE scalars[f]]

(* Only the fields present in the layer count: a present but empty one
   overrides an earlier layer. *)
Override(scalars, layer) ==
    [f \in Fields |-> IF f \in DOMAIN layer THEN layer[f] ELSE scalars[f]]

(* Mutant: the last file replaces the list. *)
UnionLast(base, add) == IF add = <<>> THEN base ELSE add

(* unionStrings, one entry at a time. *)
AddNew(list, s) == IF Contains(list, s) THEN list ELSE Append(list, s)

Union(base, add) == FoldLeft(AddNew, base, add)

(* Mutant: datasources are appended, whatever their names. *)
MergeSourcesByAppending(base, add) == base \o add

(* Datasources are keyed by name: a known one is replaced in its place. *)
PutSource(list, d) ==
    IF \E i \in DOMAIN list : list[i].name = d.name
    THEN [i \in DOMAIN list |-> IF list[i].name = d.name THEN d ELSE list[i]]
    ELSE Append(list, d)

MergeSources(base, add) == FoldLeft(PutSource, base, add)

Merge(c, layer) ==
    [scalars |-> Override(c.scalars, layer.scalars),
     allow   |-> Union(c.allow, layer.allow),
     sources |-> MergeSources(c.sources, layer.sources)]

-----------------------------------------------------------------------------
(* The rest of LoadFull. *)

(* The end of Load: whatever is still empty gets its default. *)
ApplyDefaults(c) ==
    [c EXCEPT
        !.scalars = [f \in Fields |-> IF @[f] = Zero THEN Default[f] ELSE @[f]],
        !.sources = [i \in DOMAIN @ |->
            IF @[i].ttl = Zero THEN [@[i] EXCEPT !.ttl = DefaultTTL] ELSE @[i]]]

(* time.ParseDuration, of the one field that is not a text itself. *)
Parsed(f, s) == IF f = "decision_timeout" /\ s = ZeroDuration THEN Zero ELSE s

ParsedAll(settings) == [f \in DOMAIN settings |-> Parsed(f, settings[f])]

(* The empty text is no duration. *)
ParseFails(settings) ==
    /\ "decision_timeout" \in DOMAIN settings
    /\ settings["decision_timeout"] \in {Unparsable, ""}

(* A variable that is set overrides even when it is empty. *)
ApplyEnv(c) == [c EXCEPT !.scalars = Override(@, ParsedAll(env))]

(* An empty flag counts as not given; one of "0s" does not. *)
Given == [f \in {g \in DOMAIN flags : flags[g] # ""} |-> flags[f]]

ApplyFlags(c) == [c EXCEPT !.scalars = Override(@, ParsedAll(Given))]

Final(c) == ApplyFlags(ApplyEnv(ApplyDefaults(c)))

ValidTLS(s) ==
    /\ s["server_cert"] = Zero <=> s["server_key"] = Zero
    /\ s["server_cert"] # Zero => {s["server_cert"], s["server_key"]} \subseteq CertFiles

(* The names are unique after MergeSources, so that the code's check for
   duplicates has nothing to find. *)
Valid(c) ==
    /\ c.scalars["logging_level"] \in {"trace", "debug", "info", "warn", "error"}
    /\ ValidTLS(c.scalars)
    /\ c.allow # <<>>
    /\ \A i \in DOMAIN c.sources : c.sources[i].name # Zero /\ c.sources[i].type # Zero
    /\ \A f \in CheckFields : c.scalars[f] \in {"allow", "deny"}

-----------------------------------------------------------------------------
(* The surroundings. *)
EditTop ==
    /\ up # "exited"
    /\ \E l \in Tops \ {top} : top' = l
    /\ dirty' = TRUE
    /\ UNCHANGED <<confd, process, load, stored>>

EditPart ==
    /\ up # "exited"
    /\ \E f \in Paths : \E l \in Parts \ {confd[f]} : confd' = [confd EXCEPT ![f] = l]
    /\ dirty' = TRUE
    /\ UNCHANGED <<top, process, load, stored>>

(* Mutant: the channel has no buffer, so that a signal sent while a reload is
   under way is dropped. *)
SignalUnbuffered ==
    /\ up # "exited"
    /\ dirty' = FALSE
    /\ IF up = "serving"
       THEN pending' = (step = "idle") /\ UNCHANGED up
       ELSE up' = "exited" /\ UNCHANGED pending
    /\ UNCHANGED <<top, confd, env, flags, load, stored>>

(* SIGHUP: into the channel, which holds one; before signal.Notify it ends the
   process. *)
Signal ==
    /\ up # "exited"
    /\ dirty' = FALSE
    /\ IF up = "serving"
       THEN pending' = TRUE /\ UNCHANGED up
       ELSE up' = "exited" /\ UNCHANGED pending
    /\ UNCHANGED <<top, confd, env, flags, load, stored>>

Become(phase) ==
    /\ up' = phase
    /\ UNCHANGED <<files, env, flags, pending, load, stored>>

(* SIGINT or SIGTERM; the drain is left to ServerReload. *)
Terminate == up # "exited" /\ Become("exited")

StartWatch == up = "starting" /\ Become("serving")

-----------------------------------------------------------------------------
(* The load: at start-up, and in Watch's goroutine. *)
At(s) == up \in {"booting", "serving"} /\ step = s

(* An error ends the process: run returns it, or onReload exits. *)
Fail == Become("exited")

(* Mutant: the signal is only taken out of the channel after the load, with
   whatever came meanwhile. *)
ApplyAndDrain ==
    /\ At("apply")
    /\ step' = "idle" /\ pending' = FALSE
    /\ UNCHANGED <<files, env, flags, up, cfg, todo, read, stored>>

Receive ==
    /\ up = "serving" /\ step = "idle" /\ pending
    /\ pending' = FALSE
    /\ step' = "top" /\ cfg' = Empty /\ read' = <<>>
    /\ UNCHANGED <<files, env, flags, up, todo, stored>>

ReadTop ==
    /\ At("top")
    /\ IF top \in {Bad, Missing}
       THEN Fail
       ELSE /\ cfg' = Merge(cfg, top) /\ read' = [i \in {0} |-> top]
            /\ step' = "dir"
            /\ UNCHANGED <<files, process, todo, stored>>

(* The files of a directory; os.ReadDir sorts them by name. *)
Listing(d) ==
    LET listed == {i \in DOMAIN Names :
                       <<d, Names[i]>> \in Paths /\ confd[<<d, Names[i]>>] # Missing}
    IN [i \in listed |-> <<d, Names[i]>>]

DirOf(scalars) ==
    IF scalars["config_dir"] = Zero THEN DefaultDir ELSE scalars["config_dir"]

(* The files are only listed. *)
ReadDir ==
    /\ At("dir")
    /\ LET d == DirOf(cfg.scalars)
       IN IF d \in NoDirs
          THEN Fail
          ELSE /\ cfg' = [cfg EXCEPT !.scalars["config_dir"] = d]
               /\ todo' = Listing(d)
               /\ step' = "parts"
               /\ UNCHANGED <<files, process, read, stored>>

ReadPart ==
    /\ At("parts") /\ DOMAIN todo # {}
    /\ LET i == Min(DOMAIN todo)
           layer == confd[todo[i]]
       IN IF layer \in {Bad, Missing}
          THEN Fail
          ELSE /\ cfg' = Merge(cfg, layer)
               /\ read' = [k \in DOMAIN read \cup {i} |-> IF k = i THEN layer ELSE read[k]]
               /\ todo' = [k \in DOMAIN todo \ {i} |-> todo[k]]
               /\ UNCHANGED <<files, process, step, stored>>

(* Defaults, environment, flags and Validate. *)
Finish ==
    /\ At("parts") /\ DOMAIN todo = {}
    /\ IF ParseFails(env) \/ ParseFails(Given) \/ ~Valid(Final(cfg))
       THEN Fail
       ELSE /\ cfg' = Final(cfg)
            /\ step' = "store"
            /\ UNCHANGED <<files, process, todo, read, stored>>

(* NewStore once the server listens, or Watch's swap of the pointer. *)
Keep ==
    /\ At("store")
    /\ store' = cfg /\ basis' = read
    /\ IF up = "booting"
       THEN up' = "starting" /\ step' = "idle"
       ELSE step' = "apply" /\ UNCHANGED up
    /\ UNCHANGED <<files, env, flags, pending, cfg, todo, read>>

(* Building the server may fail at start-up, Server.Reload later. *)
Refuse ==
    /\ \/ At("store") /\ up = "booting"
       \/ At("apply")
    /\ Fail

Apply ==
    /\ At("apply")
    /\ step' = "idle"
    /\ UNCHANGED <<files, process, cfg, todo, read, stored>>

LoadStep ==
    \/ Receive
    \/ ReadTop
    \/ ReadDir
    \/ ReadPart
    \/ Finish
    \/ Keep
    \/ Refuse
    \/ Apply

Next ==
    \/ EditTop
    \/ EditPart
    \/ Signal
    \/ Terminate
    \/ StartWatch
    \/ LoadStep

(* The process runs.  Nothing is assumed of those who edit and signal. *)
Fairness == WF_vars(StartWatch) /\ WF_vars(LoadStep)

Spec == Init /\ [][Next]_vars /\ Fairness

-----------------------------------------------------------------------------
(* Properties *)

(* Types.  A list of datasources has each name once, whatever the files say
   (config.go:412-429). *)
ConfigTypeOK ==
    /\ top \in Tops /\ confd \in [Paths -> Parts]
    /\ <<env, flags>> \in Overrides
    /\ dirty \in BOOLEAN /\ pending \in BOOLEAN
    /\ up \in {"booting", "starting", "serving", "exited"}
    /\ step \in {"top", "dir", "parts", "store", "apply", "idle"}
    /\ \A i \in DOMAIN todo : todo[i] \in Paths
    /\ \A c \in {cfg, store} \ {Nil} :
        /\ DOMAIN c.scalars = Fields
        /\ \A i, j \in DOMAIN c.sources : c.sources[i].name = c.sources[j].name => i = j

(* What the last of the layers that has the field says, or Zero. *)
LastSetting(layers, f) ==
    LET setting == {i \in DOMAIN layers : f \in DOMAIN layers[i].scalars}
    IN IF setting = {} THEN Zero ELSE layers[Max(setting)].scalars[f]

(* The documented precedence (config.go:614-616): flags before environment
   before files, the last file that has the field, and a default where the
   files leave it empty.  config_dir has no effect beyond the choice of the
   directory. *)
Precedence(c, layers) ==
    \A f \in Fields \ {"config_dir"} :
        c.scalars[f] =
            IF f \in DOMAIN flags /\ flags[f] # "" THEN Parsed(f, flags[f])
            ELSE IF f \in DOMAIN env THEN Parsed(f, env[f])
            ELSE IF LastSetting(layers, f) # Zero THEN LastSetting(layers, f)
            ELSE Default[f]

PrecedenceHolds == store # Nil => Precedence(store, basis)

(* The datasources of a layer that have a name, and of all the layers the last
   definition of it. *)
Defining(layers, i, n) ==
    {j \in DOMAIN layers[i].sources : layers[i].sources[j].name = n}

LatestSource(layers, n) ==
    LET i == Max({k \in DOMAIN layers : Defining(layers, k, n) # {}})
    IN layers[i].sources[Max(Defining(layers, i, n))]

Policy(c, layers) ==
    /\ Range(c.allow) = UNION {Range(layers[i].allow) : i \in DOMAIN layers}
    /\ IsInjective(c.allow)
    /\ {d.name : d \in Range(c.sources)} =
           UNION {{d.name : d \in Range(layers[i].sources)} : i \in DOMAIN layers}
    /\ \A d \in Range(c.sources) : d.type = LatestSource(layers, d.name).type

(* Security policy comes from the files alone and a later file cannot take
   away what an earlier one allows (config.go:114-118, 202-204): the allowlist is the
   union of those of all the layers, without duplicates; and of each datasource
   that any layer defines, the last definition counts. *)
PolicyIsUnion == store # Nil => Policy(store, basis)

(* The layers that a load would read now, were it alone. *)
LayersNow ==
    IF top \in {Bad, Missing} THEN <<>>
    ELSE LET listing == Listing(DirOf(Override(Empty.scalars, top.scalars)))
         IN [i \in {0} \cup DOMAIN listing |-> IF i = 0 THEN top ELSE confd[listing[i]]]

(* A load may read half of an edit, and signals are merged or come while a load
   is under way.  Still, once no signal is left to serve and every edit was
   followed by one, the configuration in force is what the files say. *)
SettledIsCurrent ==
    up = "serving" /\ step = "idle" /\ ~pending /\ ~dirty => basis = LayersNow

(* No SIGHUP is lost (config.go:669-688): files that are signalled and then
   left alone take effect, or the process ends. *)
SignalledEditTakesEffect ==
    ~dirty ~> \/ dirty
              \/ up = "exited"
              \/ up = "serving" /\ basis = LayersNow
=============================================================================
