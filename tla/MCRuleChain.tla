---------------------------- MODULE MCRuleChain -----------------------------
(* RuleChain for TLC: two users, of whom one is an admin by name and one by
   group, a home directory and a shared one, and a user whose names are not
   usable or are two dots.  The requests are those that
   RequestText reads out of the URIs and bodies at the end. *)
EXTENDS RuleChain

CONSTANTS home, share, ann, bob, ops, tail, odd

MCNames == {home, share, ann, bob, ops, tail, odd}

MCUnsafe == {odd}

MCAnswers ==
    {[USER |-> {<<ann>>}, GROUP |-> {}],
     [USER |-> {<<ann>>, <<bob>>}, GROUP |-> {<<ops>>}],
     [USER |-> {<<odd>>, DotDot}, GROUP |-> {<<ops>>, <<>>}]}

(* A path under a home, one under a link into a shared directory, one that
   mixes two users, and one that does not exist. *)
MCCanon == (<<"own">> :> <<<<home>>, <<ann>>, <<share>>>>) @@
           (<<"link">> :> <<<<share>>, <<ops>>, <<bob, tail>>>>) @@
           (<<"mixed">> :> <<<<home>>, <<ann>>, <<share>>, <<bob>>>>) @@
           (<<"gone">> :> Nil)

MCMounts == DOMAIN MCCanon

Everything == [host_network |-> "allow", privileged |-> "allow",
               docker_cp |-> "allow", docker_exec |-> "allow"]

NoPrivileged == [Everything EXCEPT !.privileged = "deny", !.docker_exec = "deny"]

NoHostNetwork == [Everything EXCEPT !.host_network = "deny", !.docker_cp = "deny"]

Config(users, groups, list, checks) ==
    [admin_users |-> users, admin_groups |-> groups, allowlist |-> list, checks |-> checks]

(* /home/$USER and /share/$GROUP/$USER-tail. *)
HomeAndShare ==
    {<<<<>>, <<home>>, <<"USER">>>>, <<<<>>, <<share>>, <<"GROUP">>, <<"USER", tail>>>>}

MCConfigs ==
    {Config({}, {}, HomeAndShare, NoPrivileged),
     Config({<<bob>>}, {}, HomeAndShare, NoPrivileged),
     Config({}, {<<ops>>}, {<<<<>>, <<home>>, <<"USER">>, <<share>>, <<"USER">>>>},
            NoHostNetwork),
     Config({<<ann>>}, {<<ops>>}, {<<<<>>, <<share>>, <<>>>>, <<<<"USER">>, <<home>>>>},
            NoHostNetwork)}

Request(identified, endpoint, mounts, host_network, privileged) ==
    [identified |-> identified, endpoint |-> endpoint, mounts |-> mounts,
     host_network |-> host_network, privileged |-> privileged]

MCRequests ==
    {Request(i, "container_create", m, h, p) :
        i \in BOOLEAN, m \in {b \cup s : b \in {{}, {<<"own">>}, {<<"mixed">>}},
                                       s \in {{}, {<<"link">>}, {<<"gone">>}}},
        h \in BOOLEAN, p \in BOOLEAN}
    \cup {Request(i, "volume_create", m, FALSE, FALSE) :
            i \in BOOLEAN, m \in {{}, {<<"own">>}, {<<"link">>}, {<<"gone">>}}}
    \cup {Request(i, e, {}, FALSE, FALSE) :
            i \in BOOLEAN, e \in {"docker_cp", "docker_exec", "other"}}

NoFields == [Binds |-> {}, Sources |-> {}, NetworkMode |-> Nil, Privileged |-> Nil,
             Driver |-> Nil, o |-> Nil, device |-> Nil]

(* Binds and mounts of a container: one source, one each, or both. *)
Containers ==
    {[NoFields EXCEPT !.Binds = b, !.Sources = s, !.NetworkMode = n, !.Privileged = p] :
        b \in {{}, {<<"own", ":", "data">>}, {<<"mixed">>, <<":", "data">>}},
        s \in {{}, {<<"link">>}, {<<"gone">>}},
        n \in {Nil, "host"}, p \in {Nil, FALSE, TRUE}}

Volumes ==
    {[NoFields EXCEPT !.Driver = d, !.o = o, !.device = m] :
        d \in {Nil, "local", "nfs"}, o \in {Nil, <<"r", "bind">>, <<"rw", ",", "bind">>},
        m \in {Nil, <<"own">>, <<"link">>, <<"gone">>}}

(* A response phase carries the URI without the body. *)
Calls(method, uri, bodies) ==
    {Shape(user, method, uri, body) :
        user \in {"valid", "empty"}, body \in bodies \cup {Nil}}

ASSUME RequestsAreShapes == MCRequests =
    Calls("POST", <<"/", "v", "1", "/", "containers", "/", "create", "?", "name">>, Containers)
    \cup Calls("POST", <<"/", "volumes", "/", "create">>, Volumes)
    \cup Calls("GET", <<"/", "containers", "/", "name", "/", "archive">>, {})
    \cup Calls("POST", <<"/", "containers", "/", "name", "/", "exec">>, {})
    \cup Calls("POST", <<"/", "exec", "/", "name", "/", "start">>, {})
=============================================================================
