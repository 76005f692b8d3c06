-------------------------- MODULE AdapterLifecycle --------------------------
(***************************************************************************)
(* Adapters, the Kubernetes objects of their sidecars and their group      *)
(* assignments.                                                            *)
(*                                                                         *)
(* Creating an adapter stores it, creates a Deployment and a Service, asks *)
(* the new sidecar for its capabilities and its health, stores the result  *)
(* and assigns the adapter to groups; deleting it takes the Service, the   *)
(* Deployment and the stored adapter away.  Nothing spans these steps: one *)
(* action is one call of a store or of the Kubernetes API server, requests *)
(* interleave and the process may be killed between any two of them.       *)
(*                                                                         *)
(* The answers of a sidecar are free: the URL that the code probes does    *)
(* not name the namespace that SidecarManager deploys to.                  *)
(***************************************************************************)
EXTENDS FiniteSets, Sequences, Commands

CONSTANTS
    Adapters,   \* adapter IDs (an adapter's ID is its name)
    Groups,     \* the groups that hold a permission to be assigned adapters
    Requests,   \* handler goroutines, each serving one request at a time
    Servers,    \* MCP servers that adapters are created from
    Kinds,      \* the operations the clients of an instance call
    Managers,   \* may a start of the process find a kube config: TRUE, FALSE
    Calls,      \* outcomes of a call of the API server
    Saves       \* outcomes of saveToFile: TRUE is success

VARIABLES
    store,          \* FileAdapterStore.adapters
    deployments,    \* adapters whose Deployment mcp-sidecar-<ID> exists
    services,       \* adapters whose Service mcp-sidecar-<ID> exists
    assigned,       \* FileAdapterGroupAssignmentStore.assignments
    storeFile,      \* what the file of the adapter store holds
    assignedFile,   \* what the file of the assignment store holds
    hasManager,     \* has this process a SidecarManager
    req,            \* where each request is, its adapter and the copy it holds
    probe,          \* history: the last health answer since the adapter was created
    disturbed,      \* history: adapters with a change nothing coordinates
    raced,          \* history: adapters two requests worked on at a time
    killed          \* history: adapters whose request died with the process

vars == <<store, deployments, services, assigned, storeFile, assignedFile,
          hasManager, req, probe, disturbed, raced, killed>>

adapters == <<store, storeFile>>
grants == <<assigned, assignedFile>>
cluster == <<deployments, services, hasManager>>
history == <<probe, disturbed, raced, killed>>

\* The part of AdapterResource that the code branches on.  A "sidecar" has
\* ConnectionType StreamableHttp and a SidecarConfig.
Adapter == [kind : {"sidecar", "remote"}, status : {"not_ready", "ready", "error"}]

\* The part of MCPServer that CreateAdapter looks at: has it a stdio package, or
\* a name that is taken to mean one, or a URL; in its metadata the type and the
\* text of a command, the project, the release and the secrets.
Server ==
    LET words == Seq([is : STRING, name : STRING, value : STRING])
        secrets == {Absent} \cup Seq([name : STRING, env : STRING \cup {Absent}])
    IN  [stdio : BOOLEAN, url : BOOLEAN,
         type : {"docker", "python", "npx", "go", "http", "other", Absent},
         text : {Absent} \cup words,
         project : {Absent, "github", "elsewhere"}, release : BOOLEAN,
         secrets : secrets, config : secrets]

ASSUME AbsentAssumption == Absent \notin Adapter
ASSUME ServersAssumption == Servers \subseteq Server
ASSUME ManagersAssumption == Managers \subseteq BOOLEAN
\* "lost": the server did what it was asked to, and the answer is an error.
ASSUME CallsAssumption == Calls \subseteq {"done", "refused", "lost"}
ASSUME SavesAssumption == Saves \subseteq BOOLEAN

Waiting == {"idle", "created", "notCreated", "panicked", "deleted", "notDeleted", "done"}
CreateSteps == {"deploy", "expose", "undeploy", "fail", "undo",
                "discover", "probeNew", "save", "assign"}
DeleteSteps == {"unexpose", "remove", "removeDeployment"}
Steps == Waiting \cup CreateSteps \cup DeleteSteps \cup {"probe", "write", "grant"}

New(kind) == [kind |-> kind,
              status |-> IF kind = "remote" THEN "ready" ELSE "not_ready"]

Request == [at : Steps, adapter : Adapters, copy : Adapter, todo : SUBSET Groups]

TypeOK ==
    /\ store \in [Adapters -> Adapter \cup {Absent}]
    /\ deployments \in SUBSET Adapters
    /\ services \in SUBSET Adapters
    /\ assigned \in SUBSET (Adapters \X Groups)
    /\ storeFile \in [Adapters -> Adapter \cup {Absent}]
    /\ assignedFile \in SUBSET (Adapters \X Groups)
    /\ hasManager \in BOOLEAN
    /\ req \in [Requests -> Request]
    /\ probe \in [Adapters -> {"none", "healthy", "unhealthy"}]
    /\ disturbed \in SUBSET Adapters
    /\ raced \in SUBSET Adapters
    /\ killed \in SUBSET Adapters

Busy(r) == req[r].at \notin Waiting
Idle(a) == \A r \in Requests : Busy(r) => req[r].adapter # a

Init ==
    /\ store = [a \in Adapters |-> Absent]
    /\ deployments = {} /\ services = {} /\ assigned = {}
    /\ storeFile = store /\ assignedFile = assigned
    /\ hasManager \in Managers
    /\ req \in [Requests -> [at : {"idle"}, adapter : Adapters,
                             copy : {New("remote")}, todo : {{}}]]
    /\ probe = [a \in Adapters |-> "none"]
    /\ disturbed = {} /\ raced = {} /\ killed = {}

-----------------------------------------------------------------------------
(* Steps of a request.                                                     *)

Goto(r, step) == req' = [req EXCEPT ![r].at = step]

\* The handler has answered; its copy is garbage.
Return(r, answer) ==
    req' = [req EXCEPT ![r].at = answer, ![r].copy = New("remote"), ![r].todo = {}]

\* A new request on adapter a goes to its next step with a copy.
Start(r, a, step, copy, todo) ==
    req' = [req EXCEPT ![r] = [at |-> step, adapter |-> a, copy |-> copy, todo |-> todo]]

Keep(r, step, copy) == req' = [req EXCEPT ![r].at = step, ![r].copy = copy]

Put(a, v) == store' = [store EXCEPT ![a] = v]

\* saveToFile, after every write of a map: the whole map replaces the file, or
\* the file stays as it was.
Save(saved) == storeFile' = IF saved THEN store' ELSE storeFile

\* One call of the assignment store that makes the assignments `new`.
SetAssigned(new) ==
    /\ assigned' = new
    /\ IF new = assigned THEN UNCHANGED assignedFile
       ELSE \E saved \in Saves : assignedFile' = IF saved THEN new ELSE assignedFile

\* A request begins on a, beside another one perhaps.
Disturb(a, coordinated) ==
    /\ disturbed' = IF coordinated THEN disturbed ELSE disturbed \cup {a}
    /\ raced' = IF Idle(a) THEN raced ELSE raced \cup {a}

Begin(a, coordinated) == Disturb(a, coordinated) /\ UNCHANGED <<probe, killed>>

\* A request is creating the objects of a's sidecar.
Deploying(a) ==
    \E r \in Requests : req[r].adapter = a /\ req[r].at \in {"deploy", "expose"}

\* The API server, or a save, failed where the code does not look at the
\* failure or does not undo what it did.
Lapse(a, lapse) ==
    /\ disturbed' = IF lapse THEN disturbed \cup {a} ELSE disturbed
    /\ UNCHANGED <<probe, raced, killed>>

-----------------------------------------------------------------------------
(* CreateAdapter.                                                          *)

\* The command of the sidecar: the server's own, if it is complete.
GetSidecarConfig(server) ==
    IF server.type = Absent \/ server.text = Absent THEN Absent
    ELSE [type |-> server.type, text |-> server.text,
          project |-> server.project, release |-> server.release]

Command(server) ==
    LET config == GetSidecarConfig(server)
    IN  IF config = Absent
        THEN [type |-> "npx", text |-> <<Plain("npx")>>,
              project |-> Absent, release |-> FALSE]
        ELSE [config EXCEPT !.text = ProcessCommandTemplates(config.type, @, Secrets(server))]

\* Which kind of adapter a server gets, or Absent for none.
Kind(server) ==
    CASE server.stdio /\ Command(server).type = "http" -> "remote"
      [] server.stdio /\ Command(server).type # "http" -> "sidecar"
      [] ~server.stdio /\ (server.url \/ Command(server).type = "http") -> "remote"
      [] OTHER -> Absent

\* What comes of a command once it is to be deployed.
Prepare(command) ==
    LET container == DeployWithKubeClient(command, <<>>)
    IN  CASE container = Failed   -> "fail"
          [] container = Panicked -> "panicked"
          [] OTHER                -> "deploy"

\* Where a creation goes once the adapter is stored.
AfterCreate(server) ==
    CASE Kind(server) = "remote" -> "save"
      [] Kind(server) = "sidecar" /\ hasManager -> Prepare(Command(server))
      [] OTHER -> "undo"

\* The server is looked up, the sidecar configured, store.Create called and the
\* deployment prepared.  A failed save answers an error although the map has the
\* adapter; a panic leaves it there.
CreateAdapter(r, a, server) ==
    /\ "create" \in Kinds
    /\ ~Busy(r)
    /\ UNCHANGED <<cluster, grants>>
    /\ \/ /\ store[a] # Absent \/ Kind(server) = Absent
          /\ Start(r, a, "notCreated", New("remote"), {})
          /\ UNCHANGED <<adapters, history>>
       \/ /\ store[a] = Absent /\ Kind(server) # Absent
          /\ Put(a, New(Kind(server)))
          /\ probe' = [probe EXCEPT ![a] = "none"]
          /\ UNCHANGED killed
          /\ \E saved \in Saves :
                LET step == IF saved THEN AfterCreate(server) ELSE "notCreated"
                IN  /\ Save(saved)
                    /\ Disturb(a, saved /\ Idle(a))
                    /\ Start(r, a, step,
                             New(IF step \in Waiting THEN "remote" ELSE Kind(server)), {})

\* DeploySidecar: the Deployment, which must not exist yet.
Deploy(r) ==
    LET a == req[r].adapter
    IN  /\ req[r].at = "deploy"
        /\ UNCHANGED <<adapters, services, hasManager, grants>>
        /\ \E call \in Calls :
              LET made == a \notin deployments /\ call # "refused"
                  ok == a \notin deployments /\ call = "done"
              IN  /\ deployments' = IF made THEN deployments \cup {a} ELSE deployments
                  /\ Goto(r, IF ok THEN "expose" ELSE "fail")
                  /\ Lapse(a, call = "lost")

\* DeploySidecar: the Service; when that fails the Deployment is deleted.
Expose(r) ==
    LET a == req[r].adapter
    IN  /\ req[r].at = "expose"
        /\ UNCHANGED <<adapters, deployments, hasManager, grants>>
        /\ \E call \in Calls :
              LET made == a \notin services /\ call # "refused"
                  ok == a \notin services /\ call = "done"
              IN  /\ services' = IF made THEN services \cup {a} ELSE services
                  /\ Goto(r, IF ok THEN "discover" ELSE "undeploy")
                  /\ Lapse(a, call = "lost")

\* A call that deletes the Deployment; nobody looks at its error.
DeleteDeployment(a) ==
    \E call \in Calls :
        /\ deployments' = IF call = "refused" THEN deployments ELSE deployments \ {a}
        /\ Lapse(a, call = "refused")

Undeploy(r) ==
    /\ req[r].at = "undeploy"
    /\ DeleteDeployment(req[r].adapter)
    /\ Goto(r, "fail")
    /\ UNCHANGED <<adapters, services, hasManager, grants>>

\* The error status is stored, the error of that ignored.
MarkFailed(r) ==
    LET a == req[r].adapter
    IN  /\ req[r].at = "fail"
        /\ IF store[a] = Absent THEN UNCHANGED adapters
           ELSE /\ Put(a, [req[r].copy EXCEPT !.status = "error"])
                /\ \E saved \in Saves : Save(saved)
        /\ Goto(r, "undo")
        /\ UNCHANGED <<cluster, grants, history>>

\* store.Delete: a save that fails leaves the adapter in the file.
Drop(a, saved) ==
    /\ Put(a, Absent)
    /\ IF store[a] = Absent THEN UNCHANGED storeFile ELSE Save(saved)
    /\ Lapse(a, ~saved)

\* The adapter that could not be deployed is removed again, errors ignored.
Undo(r) ==
    /\ req[r].at = "undo"
    /\ \E saved \in Saves : Drop(req[r].adapter, saved)
    /\ Return(r, "notCreated")
    /\ UNCHANGED <<cluster, grants>>

\* discoverCapabilitiesFromSidecar: an interrogation that fails counts as a server
\* without tools, so that nothing is tried again and the copy is ready.
Discover(r) ==
    /\ req[r].at = "discover"
    /\ Keep(r, "probeNew", [req[r].copy EXCEPT !.status = "ready"])
    /\ UNCHANGED <<adapters, cluster, grants, history>>

\* Variant: a healthy answer does not end an error.
StatusNeverRecovers(status, answer) ==
    IF answer = "unhealthy" /\ status = "ready" THEN "error" ELSE status

\* checkAndUpdateSidecarHealth on a copy.
StatusAfter(status, answer) ==
    CASE answer = "healthy" /\ status = "error" -> "ready"
      [] answer = "unhealthy" /\ status = "ready" -> "error"
      [] OTHER -> status

\* The copy is written back where the answer changed its status.
CheckHealth(a, copy, answer) ==
    LET new == StatusAfter(copy.status, answer)
    IN  /\ IF new # copy.status /\ store[a] # Absent
           THEN /\ Put(a, [copy EXCEPT !.status = new])
                /\ \E saved \in Saves :
                      /\ Save(saved)
                      /\ disturbed' = IF saved THEN disturbed ELSE disturbed \cup {a}
           ELSE UNCHANGED <<adapters, disturbed>>
        /\ probe' = IF answer = "unreachable" THEN probe
                    ELSE [probe EXCEPT ![a] = answer]
        /\ UNCHANGED <<raced, killed>>

ProbeNew(r, answer) ==
    LET copy == req[r].copy
    IN  /\ req[r].at = "probeNew"
        /\ CheckHealth(req[r].adapter, copy, answer)
        /\ Keep(r, "save", [copy EXCEPT !.status = StatusAfter(copy.status, answer)])
        /\ UNCHANGED <<cluster, grants>>

\* The final store.Update; the groups with the permission are listed next.
SaveNew(r) ==
    LET a == req[r].adapter
    IN  /\ req[r].at = "save"
        /\ UNCHANGED <<cluster, grants, history>>
        /\ \/ /\ store[a] = Absent
              /\ Return(r, "notCreated")
              /\ UNCHANGED adapters
           \/ /\ store[a] # Absent
              /\ Put(a, req[r].copy)
              /\ \E saved \in Saves :
                    /\ Save(saved)
                    /\ IF saved THEN req' = [req EXCEPT ![r].at = "assign",
                                                        ![r].todo = Groups]
                       ELSE Return(r, "notCreated")

\* Variant: the creation is answered before the last assignment.
AssignSome(r) ==
    /\ req[r].at = "assign"
    /\ UNCHANGED <<adapters, cluster, history>>
    /\ \/ \E g \in req[r].todo :
             /\ SetAssigned(assigned \cup {<<req[r].adapter, g>>})
             /\ req' = [req EXCEPT ![r].todo = @ \ {g}]
       \/ Return(r, "created") /\ UNCHANGED grants

\* One CreateAssignment, its error logged only, or the answer after the last.
AssignNew(r) ==
    LET a == req[r].adapter
    IN  /\ req[r].at = "assign"
        /\ UNCHANGED <<adapters, cluster, history>>
        /\ \/ \E g \in req[r].todo :
                 /\ SetAssigned(assigned \cup {<<a, g>>})
                 /\ req' = [req EXCEPT ![r].todo = @ \ {g}]
           \/ req[r].todo = {} /\ Return(r, "created") /\ UNCHANGED grants

-----------------------------------------------------------------------------
(* DeleteAdapter.                                                          *)

\* store.Get and the permission check, either of which may refuse; the copy
\* decides about the cleanup.
DeleteAdapter(r, a) ==
    /\ "delete" \in Kinds
    /\ ~Busy(r)
    /\ UNCHANGED <<adapters, cluster, grants>>
    /\ \/ /\ Start(r, a, "notDeleted", New("remote"), {})
          /\ UNCHANGED history
       \/ /\ store[a] # Absent
          /\ Start(r, a, IF store[a].kind = "sidecar" /\ hasManager
                         THEN "unexpose" ELSE "remove",
                   store[a], {})
          /\ Begin(a, ~Deploying(a) /\ (hasManager \/ store[a].kind = "remote"))

\* Variant: CleanupSidecar returns after the Service.
UnexposeOnly(r) ==
    /\ req[r].at = "unexpose"
    /\ services' = services \ {req[r].adapter}
    /\ Goto(r, "remove")
    /\ UNCHANGED <<adapters, deployments, hasManager, grants, history>>

\* CleanupSidecar: the Service first, its error logged only ...
Unexpose(r) ==
    LET a == req[r].adapter
    IN  /\ req[r].at = "unexpose"
        /\ \E call \in Calls :
              /\ services' = IF call = "refused" THEN services ELSE services \ {a}
              /\ Lapse(a, call = "refused")
        /\ Goto(r, "removeDeployment")
        /\ UNCHANGED <<adapters, deployments, hasManager, grants>>

\* ... then the Deployment, its error logged only.
RemoveDeployment(r) ==
    /\ req[r].at = "removeDeployment"
    /\ DeleteDeployment(req[r].adapter)
    /\ Goto(r, "remove")
    /\ UNCHANGED <<adapters, services, hasManager, grants>>

\* store.Delete.  The adapter's assignments stay.
Remove(r) ==
    LET a == req[r].adapter
    IN  /\ req[r].at = "remove"
        /\ \E saved \in Saves :
              /\ Drop(a, saved)
              /\ Return(r, IF store[a] # Absent /\ saved THEN "deleted" ELSE "notDeleted")
        /\ UNCHANGED <<cluster, grants>>

-----------------------------------------------------------------------------
(* The other operations.                                                   *)

\* CheckAdapterHealth: store.Get, then the probe decides about the copy.
CheckAdapterHealth(r, a) ==
    /\ "health" \in Kinds
    /\ ~Busy(r)
    /\ store[a] # Absent
    /\ IF store[a].kind = "sidecar" /\ hasManager
       THEN Start(r, a, "probe", store[a], {}) /\ Begin(a, TRUE)
       ELSE Start(r, a, "done", New("remote"), {}) /\ UNCHANGED history
    /\ UNCHANGED <<adapters, cluster, grants>>

Probe(r, answer) ==
    /\ req[r].at = "probe"
    /\ CheckHealth(req[r].adapter, req[r].copy, answer)
    /\ Return(r, "done")
    /\ UNCHANGED <<cluster, grants>>

\* Variant: the error of store.Get is not looked at.
SyncUnchecked(r, a) ==
    /\ "sync" \in Kinds /\ ~Busy(r)
    /\ Start(r, a, "write", store[a], {})
    /\ Begin(a, TRUE)
    /\ UNCHANGED <<adapters, cluster, grants>>

\* SyncAdapterCapabilities: store.Get; the copy is written back whole.
SyncAdapterCapabilities(r, a) ==
    /\ "sync" \in Kinds
    /\ ~Busy(r)
    /\ store[a] # Absent
    /\ Start(r, a, "write", store[a], {})
    /\ Begin(a, TRUE)
    /\ UNCHANGED <<adapters, cluster, grants>>

\* UpdateAdapter: the body of the request replaces the adapter, its
\* connection type, its SidecarConfig and its status included.
UpdateAdapter(r, a, body) ==
    /\ "update" \in Kinds
    /\ ~Busy(r)
    /\ store[a] # Absent
    /\ Start(r, a, "write", body, {})
    /\ Begin(a, body = store[a])
    /\ UNCHANGED <<adapters, cluster, grants>>

\* Variant: store.Update enters an adapter that is not there.
WriteOrCreate(r) ==
    /\ req[r].at = "write"
    /\ Put(req[r].adapter, req[r].copy)
    /\ Save(TRUE)
    /\ Return(r, "done")
    /\ UNCHANGED <<cluster, grants, history>>

\* store.Update of the last two.
Write(r) ==
    LET a == req[r].adapter
    IN  /\ req[r].at = "write"
        /\ IF store[a] = Absent THEN UNCHANGED adapters
           ELSE Put(a, req[r].copy) /\ \E saved \in Saves : Save(saved)
        /\ Return(r, "done")
        /\ UNCHANGED <<cluster, grants, history>>

\* AssignAdapterToGroup: the adapter exists, then CreateAssignment.
AssignAdapterToGroup(r, a, g) ==
    /\ "assign" \in Kinds
    /\ ~Busy(r)
    /\ store[a] # Absent
    /\ Start(r, a, "grant", store[a], {g})
    /\ Begin(a, TRUE)
    /\ UNCHANGED <<adapters, cluster, grants>>

Grant(r) ==
    /\ req[r].at = "grant"
    /\ SetAssigned(assigned \cup ({req[r].adapter} \X req[r].todo))
    /\ Return(r, "done")
    /\ UNCHANGED <<adapters, cluster, history>>

\* RemoveAdapterFromGroup: one call of the assignment store.
RemoveAdapterFromGroup(a, g) ==
    /\ "assign" \in Kinds
    /\ <<a, g>> \in assigned
    /\ SetAssigned(assigned \ {<<a, g>>})
    /\ Begin(a, TRUE)
    /\ UNCHANGED <<adapters, cluster, req>>

\* The process is killed and starts again from its files; the cluster keeps
\* its objects, and the new process may find no kube config to reach them with.
Restart ==
    /\ "restart" \in Kinds
    /\ req' = [r \in Requests |->
                 IF Busy(r) THEN [req[r] EXCEPT !.at = "idle", !.copy = New("remote"),
                                                !.todo = {}]
                 ELSE req[r]]
    /\ killed' = killed \cup {req[r].adapter : r \in {r \in Requests : Busy(r)}}
    /\ store' = storeFile /\ assigned' = assignedFile
    /\ hasManager' \in Managers
    /\ UNCHANGED <<storeFile, assignedFile, deployments, services, probe, disturbed, raced>>

Handler(r) ==
    \/ Deploy(r) \/ Expose(r) \/ Undeploy(r) \/ MarkFailed(r) \/ Undo(r)
    \/ Discover(r)
    \/ \E answer \in {"healthy", "unhealthy", "unreachable"} :
          ProbeNew(r, answer) \/ Probe(r, answer)
    \/ SaveNew(r) \/ AssignNew(r)
    \/ Unexpose(r) \/ RemoveDeployment(r) \/ Remove(r)
    \/ Write(r) \/ Grant(r)

Arrival(r, a) ==
    \/ \E server \in Servers : CreateAdapter(r, a, server)
    \/ DeleteAdapter(r, a)
    \/ CheckAdapterHealth(r, a)
    \/ SyncAdapterCapabilities(r, a)
    \/ \E body \in Adapter : UpdateAdapter(r, a, body)
    \/ \E g \in Groups : AssignAdapterToGroup(r, a, g)

Next ==
    \/ \E r \in Requests : Handler(r)
    \/ \E r \in Requests, a \in Adapters : Arrival(r, a)
    \/ \E a \in Adapters, g \in Groups : RemoveAdapterFromGroup(a, g)
    \/ Restart

Spec == Init /\ [][Next]_vars

-----------------------------------------------------------------------------
(* Properties.                                                             *)

IsSidecar(a) == store[a] # Absent /\ store[a].kind = "sidecar"

\* When a sidecar is about to be deployed, the secrets that its user has given arrive
\* in the container, whatever the command, and the templates that stood for them do
\* not change what is run (processCommandTemplates, parseDockerCommand).
SecretsArrive == (\E r \in Requests : req[r].at = "deploy") => CommandsCarrySecrets

\* No orphans: at every moment, a crash between two steps included, a
\* Deployment or Service belongs to a stored sidecar adapter, through which it
\* can still be deleted (CreateAdapter stores first, DeleteAdapter removes
\* last).  Not so where a deletion meets a creation that is still deploying, a
\* creation meets a leftover request, the client rewrote the adapter or the
\* API server failed a call that the code does not look at.
SidecarHasAdapter ==
    \A a \in (deployments \cup services) \ disturbed : IsSidecar(a)

\* When no request is working on it, a sidecar adapter whose status tells of a
\* running sidecar has its Deployment and its Service.
ReadyHasSidecar ==
    \A a \in Adapters \ (disturbed \cup killed) :
        Idle(a) /\ IsSidecar(a) /\ store[a].status # "not_ready" =>
            a \in deployments \cap services

\* When no request is working on it, a sidecar adapter that was ever ready is
\* in status error exactly while the last answer since its creation was
\* unhealthy, however creations, health checks and syncs followed each other
\* (overlapping ones write back stale copies).
StatusFollowsProbe ==
    \A a \in Adapters \ (disturbed \cup raced \cup killed) :
        Idle(a) /\ IsSidecar(a) /\ store[a].status # "not_ready" =>
            (store[a].status = "error" <=> probe[a] = "unhealthy")

Finishes(r, steps, answer) == req[r].at \in steps /\ req'[r].at = answer

\* An adapter answered as created is stored, deployed and assigned to every
\* group with the permission; a creation undone or a completed deletion leaves
\* neither the adapter nor its sidecar, whatever else was going on and whether
\* or not a request before it died with the process.
AnswersAreTrue ==
    [][\A r \in Requests, a \in Adapters \ disturbed' :
         req[r].adapter = a =>
            /\ Finishes(r, CreateSteps, "created") /\ a \notin raced' =>
                  /\ store[a]' # Absent
                  /\ IsSidecar(a)' => a \in deployments' \cap services'
                  /\ {a} \X Groups \subseteq assigned'
            /\ Finishes(r, {"undo"}, "notCreated") \/ Finishes(r, DeleteSteps, "deleted") =>
                  store[a]' = Absent /\ a \notin deployments' \cup services']_vars
=============================================================================
