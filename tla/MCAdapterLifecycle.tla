------------------------- MODULE MCAdapterLifecycle -------------------------
(* Instances of AdapterLifecycle for TLC. *)
EXTENDS AdapterLifecycle, TLC

CONSTANTS a1, g1, g2, r1, r2

OneAdapter == {a1}
TwoGroups == {g1, g2}
TwoRequests == {r1, r2}

AllKinds == {"create", "delete", "health", "sync", "update", "assign", "restart"}

LocalServer(type, text) ==
    [stdio |-> TRUE, url |-> FALSE, type |-> type, text |-> text,
     project |-> "github", release |-> FALSE, secrets |-> Absent, config |-> Absent]

Image == Plain("image")
Secret == Template("pass")
Known == <<[name |-> "pass", env |-> "PASS"]>>

\* Docker commands with an image, with none, and with a template that takes its
\* place unless the secret is known, there or here.
DockerServers ==
    {LocalServer("docker", text) :
        text \in {<<>>, <<Image>>, DockerRun, DockerRun \o <<Flag("-it"), Image>>,
                 DockerRun \o <<PairOf("KEY", "pass"), Image>>}}
      \cup {[LocalServer("docker", DockerRun \o <<Secret>>) EXCEPT !.secrets = s, !.config = c] :
              s \in {Absent, <<>>, Known}, c \in {Absent, Known}}

OtherServers ==
    {LocalServer(type, <<Secret>>) : type \in {"python", "npx", "http", "other"}}
      \cup {[LocalServer("go", text) EXCEPT !.project = project, !.release = release] :
              text \in {<<>>, <<Secret>>}, project \in {Absent, "github"}, release \in BOOLEAN}

RemoteServers ==
    {[LocalServer(type, <<Secret>>) EXCEPT !.stdio = FALSE, !.url = url] :
        type \in {"docker", "http", Absent}, url \in BOOLEAN}

SomeServers ==
    DockerServers \cup OtherServers \cup RemoteServers
      \cup {LocalServer(Absent, <<Secret>>), LocalServer("go", Absent)}

MaybeManager == BOOLEAN

BadServer == {"done", "refused", "lost"}
FaultyDisk == BOOLEAN

\* Bound: no property says anything of a disturbed adapter, now or later.
SomeUndisturbed == disturbed # Adapters

Symmetry == Permutations(TwoRequests) \cup Permutations(TwoGroups)
=============================================================================
