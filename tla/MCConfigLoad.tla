---------------------------- MODULE MCConfigLoad ----------------------------
(* ConfigLoad for TLC: files that set, empty and leave out the same fields,
   share entries and redefine a datasource. *)
EXTENDS ConfigLoad, TLC

CONSTANTS home, share

Source(n, t) == [name |-> n, type |-> t, ttl |-> Zero]

Layer(scalars, allow, sources) ==
    [scalars |-> scalars, allow |-> allow, sources |-> sources]

NoScalars == [f \in {} |-> Zero]

(* A plain one, and one that goes elsewhere for its conf.d and leaves the key
   of its certificate to a layer there. *)
MCTops == {
    Layer("listen_addr" :> ":1", <<home>>, <<Source("corp", "ldap")>>),
    Layer("server_cert" :> "cert" @@ "config_dir" :> "alt", <<>>, <<>>),
    Layer("config_dir" :> "file", <<home>>, <<>>),
    Bad}

MCParts == {
    Layer("listen_addr" :> Zero @@ "docker_exec" :> "deny",
          <<share>>, <<Source("corp", "file"), Source("lab", "ldap")>>),
    Layer("server_key" :> "key" @@ "listen_addr" :> ":2", <<share>>, <<>>),
    Missing}

MCNames == <<"10.yaml", "20.yaml">>

MCPaths == {<<"conf.d", "10.yaml">>, <<"conf.d", "20.yaml">>, <<"alt", "20.yaml">>}

(* Nothing, a variable that is set and empty, variables and flags for the same
   fields, and a duration that does not parse. *)
MCOverrides == {
    <<NoScalars, NoScalars>>,
    <<"listen_addr" :> "", NoScalars>>,
    <<"listen_addr" :> ":3" @@ "metrics_path" :> "/m" @@ "decision_timeout" :> "5s",
      "listen_addr" :> ":4" @@ "metrics_path" :> "" @@ "decision_timeout" :> ZeroDuration>>,
    <<"decision_timeout" :> Unparsable, NoScalars>>}
=============================================================================
