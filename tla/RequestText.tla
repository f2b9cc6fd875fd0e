---------------------------- MODULE RequestText -----------------------------
(***************************************************************************)
(* internal/rules: how the rules read a request of the Docker API, the     *)
(* first half of mounts.go and the conditions of decision.go's checks.     *)
(* Shape gives a request the form that RuleChain decides on.               *)
(*                                                                         *)
(* A URI is a sequence of tokens: the characters that matter to            *)
(* pathSegments one by one, the words of the API whole, and "name" for any *)
(* other character.  A decoded body is a record of the fields the rules    *)
(* look at; Nil stands for a body that does not decode, for an absent      *)
(* field, and for a driver that is not given.                              *)
(***************************************************************************)
EXTENDS Integers, SequencesExt

CONSTANT Nil

VersionDigits == {"0", "1"}

(* The positions of a token, and the text before the first of them. *)
CutAt(text, c) ==
    LET met == {i \in DOMAIN text : text[i] = c}
    IN  IF met = {} THEN text ELSE SubSeq(text, 1, Min(met) - 1)

(* strings.Trim. *)
Trim(text, c) ==
    LET kept == {i \in DOMAIN text : text[i] # c}
    IN  IF kept = {} THEN <<>> ELSE SubSeq(text, Min(kept), Max(kept))

(* strings.Split: one part more than there are separators. *)
Split(text, c) ==
    LET Piece(parts, t) ==
            IF t = c THEN Append(parts, <<>>)
                     ELSE Append(Front(parts), Append(Last(parts), t))
    IN  FoldLeft(Piece, <<<<>>>>, text)

isVersionSegment(s) ==
    /\ Len(s) >= 2
    /\ s[1] = "v"
    /\ \A part \in Range(Split(Tail(s), ".")) : part # <<>> /\ Range(part) \subseteq VersionDigits

(* Mutant: the version is looked for before the outer slashes are trimmed. *)
pathSegmentsUntrimmed(uri) ==
    LET segs == Split(CutAt(uri, "?"), "/")
    IN  IF isVersionSegment(segs[1]) THEN Tail(segs) ELSE segs

pathSegments(uri) ==
    LET p == Trim(CutAt(uri, "?"), "/")
        segs == Split(p, "/")
    IN  IF p = <<>> THEN <<>>
        ELSE IF isVersionSegment(segs[1]) THEN Tail(segs) ELSE segs

isContainerCreate(uri) == pathSegments(uri) = <<<<"containers">>, <<"create">>>>

isVolumeCreate(uri) == pathSegments(uri) = <<<<"volumes">>, <<"create">>>>

(* What IsDockerCP and IsDockerExecCreate have in common. *)
NamesContainerAnd(uri, action) ==
    LET segs == pathSegments(uri)
    IN  /\ Len(segs) = 3
        /\ segs[1] = <<"containers">>
        /\ segs[2] # <<>>
        /\ segs[3] = <<action>>

IsDockerCP(method, uri) ==
    method \in {"GET", "PUT"} /\ NamesContainerAnd(uri, "archive")

IsDockerExecCreate(method, uri) == method = "POST" /\ NamesContainerAnd(uri, "exec")

(* Binds: the host part of each bind, and the source of each mount. *)
Binds(uri, body) ==
    IF isContainerCreate(uri) /\ body # Nil
    THEN ({CutAt(b, ":") : b \in body.Binds} \cup body.Sources) \ {<<>>}
    ELSE {}

(* Mutant: the word is looked for anywhere in the options. *)
HasBindOptionAnywhere(o) == \E i \in DOMAIN o : o[i] = "bind"

HasBindOption(o) == \E part \in Range(Split(o, ",")) : Trim(part, " ") = <<"bind">>

(* VolumeBindDevice, as the set of the device it finds. *)
VolumeBindDevice(uri, body) ==
    IF /\ isVolumeCreate(uri)
       /\ body # Nil
       /\ body.Driver \in {Nil, "local"}
       /\ body.o # Nil
       /\ HasBindOption(body.o)
       /\ body.device # Nil
    THEN {body.device}
    ELSE {}

(* What each rule of the chain makes of a request (extractIdentity with
   sanitize, Binds, VolumeBindDevice, NetworkMode, Privileged, IsDockerCP,
   IsDockerExecCreate): an endpoint and its fields.  The method is read for the
   last two only. *)
Endpoint(method, uri) ==
    CASE isContainerCreate(uri)          -> "container_create"
      [] isVolumeCreate(uri)             -> "volume_create"
      [] IsDockerCP(method, uri)         -> "docker_cp"
      [] IsDockerExecCreate(method, uri) -> "docker_exec"
      [] OTHER                           -> "other"

Shape(user, method, uri, body) ==
    [identified   |-> user = "valid",
     endpoint     |-> Endpoint(method, uri),
     mounts       |-> Binds(uri, body) \cup VolumeBindDevice(uri, body),
     host_network |-> isContainerCreate(uri) /\ body # Nil /\ body.NetworkMode = "host",
     privileged   |-> isContainerCreate(uri) /\ body # Nil /\ body.Privileged = TRUE]

-----------------------------------------------------------------------------
(* Properties.  They say where in a text the words stand, without cutting and
   splitting it. *)

IsVersion(s) ==
    /\ Len(s) >= 2
    /\ s[1] = "v"
    /\ s[2] \in VersionDigits /\ s[Len(s)] \in VersionDigits
    /\ \A i \in 2..Len(s) : s[i] \in VersionDigits \cup {"."}
    /\ \A i \in 2..(Len(s) - 1) : s[i] = "." => s[i + 1] \in VersionDigits

(* From i to j stands the whole path, but for slashes around it. *)
PathStands(uri, i, j) ==
    /\ \A k \in 1..(i - 1) : uri[k] = "/"
    /\ uri[i] # "/" /\ uri[j] # "/"
    /\ \A k \in i..j : uri[k] # "?"
    /\ \E q \in j..Len(uri) :
        /\ \A k \in (j + 1)..q : uri[k] = "/"
        /\ q = Len(uri) \/ uri[q + 1] = "?"

(* The same, with a version in front or without one. *)
Reads(uri, Form(_)) ==
    \E i, v, j \in DOMAIN uri :
        /\ i <= v /\ v <= j
        /\ PathStands(uri, i, j)
        /\ v = i \/ (v > i + 1 /\ uri[v - 1] = "/" /\ IsVersion(SubSeq(uri, i, v - 2)))
        /\ Form(SubSeq(uri, v, j))

ActsOnContainer(s, action) ==
    /\ Len(s) >= 5
    /\ SubSeq(s, 1, 2) = <<"containers", "/">>
    /\ SubSeq(s, Len(s) - 1, Len(s)) = <<"/", action>>
    /\ \A k \in 3..(Len(s) - 2) : s[k] # "/"

(* A request is taken for the endpoint its path names and for no other,
   independently of an API version in front, of a query and of slashes around
   the path (the comments on IsDockerCP, IsDockerExecCreate, isContainerCreate,
   isVolumeCreate and isVersionSegment, mounts.go:200-258): a version or a query
   never makes the chain miss a container-create, nor see one where there is
   none. *)
NamesEndpoint(uri) ==
    LET ContainerCreate(s) == s = <<"containers", "/", "create">>
        VolumeCreate(s) == s = <<"volumes", "/", "create">>
        Archive(s) == ActsOnContainer(s, "archive")
        Exec(s) == ActsOnContainer(s, "exec")
        container == Reads(uri, ContainerCreate)
        volume == Reads(uri, VolumeCreate)
        archive == Reads(uri, Archive)
        exec == Reads(uri, Exec)
    IN  \A m \in {"GET", "PUT", "POST", "DELETE"} :
            LET e == Endpoint(m, uri)
            IN  /\ e = "container_create" <=> container
                /\ e = "volume_create" <=> volume
                /\ e = "docker_cp" <=> archive /\ m \in {"GET", "PUT"}
                /\ e = "docker_exec" <=> exec /\ m = "POST"

(* A volume's options ask for a bind mount when "bind" is one of them, whatever
   stands before and after it, spaces included, and not when it is a part of a
   word, like "rbind" (the comment on VolumeBindDevice, mounts.go:157-162). *)
FindsBindOption(o) ==
    HasBindOption(o) <=>
        \E i \in DOMAIN o :
            /\ o[i] = "bind"
            /\ \E p \in 0..(i - 1) :
                (p = 0 \/ o[p] = ",") /\ \A k \in (p + 1)..(i - 1) : o[k] = " "
            /\ \E q \in (i + 1)..(Len(o) + 1) :
                (q = Len(o) + 1 \/ o[q] = ",") /\ \A k \in (i + 1)..(q - 1) : o[k] = " "
=============================================================================
