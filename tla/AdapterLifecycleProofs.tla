----------------------- MODULE AdapterLifecycleProofs -----------------------
(***************************************************************************)
(* Proofs about AdapterLifecycle, for any number of adapters, groups,      *)
(* requests and servers: no object of the cluster is an orphan, answers    *)
(* are true, an adapter that tells of a sidecar has one, and its status    *)
(* follows the probes.                                                     *)
(***************************************************************************)
EXTENDS AdapterLifecycle, TLAPS

Active == CreateSteps \cup DeleteSteps \cup {"probe", "write", "grant"}

-----------------------------------------------------------------------------
(***************************************************************************)
(* Types, and where a request goes.                                        *)
(***************************************************************************)
LEMMA KindType ==
  ASSUME NEW server
  PROVE  Kind(server) \in {"sidecar", "remote", Absent}
BY DEF Kind

LEMMA PrepareType ==
  ASSUME NEW command
  PROVE  Prepare(command) \in {"fail", "panicked", "deploy"}
BY DEF Prepare

LEMMA AfterCreateType ==
  ASSUME NEW server
  PROVE  /\ AfterCreate(server) \in {"save", "fail", "panicked", "deploy", "undo"}
         /\ AfterCreate(server) = "save" => Kind(server) = "remote"
         /\ AfterCreate(server) \in {"fail", "panicked", "deploy"} => Kind(server) = "sidecar"
BY PrepareType DEF AfterCreate

LEMMA StatusAfterType ==
  ASSUME NEW status \in {"not_ready", "ready", "error"},
         NEW answer \in {"healthy", "unhealthy", "unreachable"}
  PROVE  /\ StatusAfter(status, answer) \in {"not_ready", "ready", "error"}
         /\ status = "not_ready" <=> StatusAfter(status, answer) = "not_ready"
         /\ StatusAfter(status, answer) # "not_ready" =>
              /\ answer = "healthy" => StatusAfter(status, answer) = "ready"
              /\ answer = "unhealthy" => StatusAfter(status, answer) = "error"
              /\ answer = "unreachable" => StatusAfter(status, answer) = status
BY DEF StatusAfter

(* Request r is now at a step, on adapter a, with a copy and groups to do. *)
Moved(r, step, a, copy, todo) ==
  /\ req' \in [Requests -> Request]
  /\ req'[r].at = step /\ req'[r].adapter = a
  /\ req'[r].copy = copy /\ req'[r].todo = todo
  /\ \A s \in Requests \ {r} : req'[s] = req[s]

LEMMA NewType ==
  ASSUME NEW kind \in {"sidecar", "remote"}
  PROVE  New(kind) \in Adapter /\ New(kind).kind = kind
         /\ New(kind).status = IF kind = "remote" THEN "ready" ELSE "not_ready"
BY DEF New, Adapter

LEMMA GotoMoves ==
  ASSUME TypeOK, NEW r \in Requests, NEW step \in Steps, Goto(r, step)
  PROVE  Moved(r, step, req[r].adapter, req[r].copy, req[r].todo)
BY DEF TypeOK, Goto, Moved, Request

LEMMA ReturnMoves ==
  ASSUME TypeOK, NEW r \in Requests, NEW answer \in Steps, Return(r, answer)
  PROVE  Moved(r, answer, req[r].adapter, New("remote"), {})
BY NewType DEF TypeOK, Return, Moved, Request

LEMMA StartMoves ==
  ASSUME TypeOK, NEW r \in Requests, NEW a \in Adapters, NEW step \in Steps,
         NEW copy \in Adapter, NEW todo \in SUBSET Groups, Start(r, a, step, copy, todo)
  PROVE  Moved(r, step, a, copy, todo)
BY DEF TypeOK, Start, Moved, Request

LEMMA KeepMoves ==
  ASSUME TypeOK, NEW r \in Requests, NEW step \in Steps, NEW copy \in Adapter,
         Keep(r, step, copy)
  PROVE  Moved(r, step, req[r].adapter, copy, req[r].todo)
BY DEF TypeOK, Keep, Moved, Request

(* a's entry in the store, and in the file of the store. *)
Written(a, v) ==
  /\ store' \in [Adapters -> Adapter \cup {Absent}]
  /\ storeFile' \in [Adapters -> Adapter \cup {Absent}]
  /\ store'[a] = v
  /\ \A b \in Adapters \ {a} : store'[b] = store[b]
  /\ \A b \in Adapters : storeFile'[b] \in {storeFile[b], store'[b]}

LEMMA SaveWrites ==
  ASSUME TypeOK, NEW a \in Adapters, NEW v \in Adapter \cup {Absent}, NEW saved,
         Put(a, v), Save(saved)
  PROVE  Written(a, v) /\ (saved => storeFile'[a] = v)
BY DEF TypeOK, Put, Save, Written

LEMMA DropWrites ==
  ASSUME TypeOK, NEW a \in Adapters, NEW saved \in BOOLEAN, Drop(a, saved)
  PROVE  /\ Written(a, Absent)
         /\ \/ storeFile'[a] = Absent
            \/ a \in disturbed'
            \/ store[a] = Absent /\ storeFile'[a] = storeFile[a]
<1>1. CASE store[a] = Absent
  BY <1>1 DEF Drop, Put, Written, TypeOK
<1>2. CASE store[a] # Absent
  BY <1>2, SaveWrites DEF Drop, Lapse
<1> QED
  BY <1>1, <1>2

(***************************************************************************)
(* A step of request r leaves adapter b alone, unless another save of the  *)
(* store is b's as well.                                                   *)
(***************************************************************************)
At(r, a, steps) == req[r].adapter = a /\ req[r].at \in steps

Untouched(r, b) ==
  /\ store'[b] = store[b] /\ storeFile'[b] \in {storeFile[b], store[b]}
  /\ b \in deployments' <=> b \in deployments
  /\ b \in services' <=> b \in services
  /\ \A g \in Groups : <<b, g>> \in assigned => <<b, g>> \in assigned'
  /\ probe'[b] = probe[b]
  /\ b \in disturbed => b \in disturbed'
  /\ b \in raced => b \in raced'
  /\ killed' = killed
  /\ req' \in [Requests -> Request]
  /\ \A s \in Requests \ {r} : req'[s] = req[s]
  /\ ~At(r, b, Active) /\ ~At(r, b, Active)'

Elsewhere(r) == \A b \in Adapters \ {req'[r].adapter} : Untouched(r, b)

LEMMA SetAssignedType ==
  ASSUME TypeOK, NEW new \in SUBSET (Adapters \X Groups), SetAssigned(new)
  PROVE  assigned' = new /\ assignedFile' \in SUBSET (Adapters \X Groups)
BY DEF TypeOK, SetAssigned

LEMMA DeployStep ==
  ASSUME TypeOK, NEW r \in Requests, Deploy(r)
  PROVE  /\ TypeOK' /\ Elsewhere(r)
         /\ \E step \in {"expose", "fail"} :
               Moved(r, step, req[r].adapter, req[r].copy, req[r].todo)
<1>1. PICK step \in {"expose", "fail"} : Goto(r, step)
  BY DEF Deploy
<1>2. Moved(r, step, req[r].adapter, req[r].copy, req[r].todo) /\ req[r].adapter \in Adapters
  BY <1>1, GotoMoves DEF Steps, CreateSteps, TypeOK, Request
<1>3. UNCHANGED <<store, storeFile, services, hasManager, assigned, assignedFile,
                  probe, raced, killed>>
  BY DEF Deploy, Lapse, adapters, grants
<1>4. /\ deployments' \in {deployments, deployments \cup {req[r].adapter}}
      /\ disturbed' \in {disturbed, disturbed \cup {req[r].adapter}}
  BY DEF Deploy, Lapse
<1> QED
  BY <1>2, <1>3, <1>4 DEF TypeOK, Elsewhere, Untouched, Moved, At

LEMMA ExposeStep ==
  ASSUME TypeOK, NEW r \in Requests, Expose(r)
  PROVE  /\ TypeOK' /\ Elsewhere(r)
         /\ \E step \in {"discover", "undeploy"} :
               Moved(r, step, req[r].adapter, req[r].copy, req[r].todo)
<1>1. PICK step \in {"discover", "undeploy"} : Goto(r, step)
  BY DEF Expose
<1>2. Moved(r, step, req[r].adapter, req[r].copy, req[r].todo) /\ req[r].adapter \in Adapters
  BY <1>1, GotoMoves DEF Steps, CreateSteps, TypeOK, Request
<1>3. UNCHANGED <<store, storeFile, deployments, hasManager, assigned, assignedFile,
                  probe, raced, killed>>
  BY DEF Expose, Lapse, adapters, grants
<1>4. /\ services' \in {services, services \cup {req[r].adapter}}
      /\ disturbed' \in {disturbed, disturbed \cup {req[r].adapter}}
  BY DEF Expose, Lapse
<1> QED
  BY <1>2, <1>3, <1>4 DEF TypeOK, Elsewhere, Untouched, Moved, At

(* Undeploy and RemoveDeployment. *)
LEMMA DeleteDeploymentStep ==
  ASSUME TypeOK, NEW r \in Requests, NEW step \in Steps, DeleteDeployment(req[r].adapter),
         Goto(r, step), UNCHANGED <<adapters, services, hasManager, grants>>
  PROVE  /\ TypeOK' /\ Elsewhere(r)
         /\ Moved(r, step, req[r].adapter, req[r].copy, req[r].todo)
<1>1. Moved(r, step, req[r].adapter, req[r].copy, req[r].todo) /\ req[r].adapter \in Adapters
  BY GotoMoves DEF TypeOK, Request
<1>2. UNCHANGED <<store, storeFile, services, hasManager, assigned, assignedFile,
                  probe, raced, killed>>
  BY DEF DeleteDeployment, Lapse, adapters, grants
<1>3. /\ deployments' \in {deployments, deployments \ {req[r].adapter}}
      /\ disturbed' \in {disturbed, disturbed \cup {req[r].adapter}}
  BY DEF DeleteDeployment, Lapse
<1> QED
  BY <1>1, <1>2, <1>3 DEF TypeOK, Elsewhere, Untouched, Moved, At

LEMMA UnexposeStep ==
  ASSUME TypeOK, NEW r \in Requests, Unexpose(r)
  PROVE  /\ TypeOK' /\ Elsewhere(r)
         /\ Moved(r, "removeDeployment", req[r].adapter, req[r].copy, req[r].todo)
<1>1. Moved(r, "removeDeployment", req[r].adapter, req[r].copy, req[r].todo)
      /\ req[r].adapter \in Adapters
  BY GotoMoves DEF Unexpose, Steps, DeleteSteps, TypeOK, Request
<1>2. UNCHANGED <<store, storeFile, deployments, hasManager, assigned, assignedFile,
                  probe, raced, killed>>
  BY DEF Unexpose, Lapse, adapters, grants
<1>3. /\ services' \in {services, services \ {req[r].adapter}}
      /\ disturbed' \in {disturbed, disturbed \cup {req[r].adapter}}
  BY DEF Unexpose, Lapse
<1> QED
  BY <1>1, <1>2, <1>3 DEF TypeOK, Elsewhere, Untouched, Moved, At

(* A step that may write the adapter and touches nothing of the cluster. *)
LEMMA WriteStep ==
  ASSUME TypeOK, NEW r \in Requests, NEW step \in Steps, NEW copy \in Adapter,
         NEW todo \in SUBSET Groups, Moved(r, step, req[r].adapter, copy, todo),
         \/ UNCHANGED adapters
         \/ \E v \in Adapter \cup {Absent} : Written(req[r].adapter, v),
         probe' \in {probe} \cup {[probe EXCEPT ![req[r].adapter] = answer] :
                                     answer \in {"healthy", "unhealthy"}},
         disturbed' \in {disturbed, disturbed \cup {req[r].adapter}},
         UNCHANGED <<cluster, grants, raced, killed>>
  PROVE  TypeOK' /\ Elsewhere(r)
<1>1. req[r].adapter \in Adapters
  BY DEF TypeOK, Request
<1>2. UNCHANGED <<deployments, services, hasManager, assigned, assignedFile, raced, killed>>
  BY DEF cluster, grants
<1>3. /\ store' \in [Adapters -> Adapter \cup {Absent}]
      /\ storeFile' \in [Adapters -> Adapter \cup {Absent}]
      /\ \A b \in Adapters \ {req[r].adapter} :
            store'[b] = store[b] /\ storeFile'[b] \in {storeFile[b], store[b]}
  BY DEF TypeOK, Written, adapters
<1>4. /\ probe' \in [Adapters -> {"none", "healthy", "unhealthy"}]
      /\ \A b \in Adapters \ {req[r].adapter} : probe'[b] = probe[b]
  BY DEF TypeOK
<1> QED
  BY <1>1, <1>2, <1>3, <1>4 DEF TypeOK, Elsewhere, Untouched, Moved, At

LEMMA MarkFailedStep ==
  ASSUME TypeOK, NEW r \in Requests, MarkFailed(r)
  PROVE  /\ TypeOK' /\ Elsewhere(r)
         /\ Moved(r, "undo", req[r].adapter, req[r].copy, req[r].todo)
         /\ IF store[req[r].adapter] = Absent THEN UNCHANGED adapters
            ELSE Written(req[r].adapter, [req[r].copy EXCEPT !.status = "error"])
<1>1. Moved(r, "undo", req[r].adapter, req[r].copy, req[r].todo)
  BY GotoMoves DEF MarkFailed, Steps, CreateSteps
<1>2. req[r].adapter \in Adapters /\ req[r].copy \in Adapter /\ req[r].todo \in SUBSET Groups
      /\ [req[r].copy EXCEPT !.status = "error"] \in Adapter
  BY DEF TypeOK, Request, Adapter
<1>3. IF store[req[r].adapter] = Absent THEN UNCHANGED adapters
      ELSE Written(req[r].adapter, [req[r].copy EXCEPT !.status = "error"])
  BY <1>2, SaveWrites DEF MarkFailed
<1>4. UNCHANGED <<cluster, grants, raced, killed, probe, disturbed>>
  BY DEF MarkFailed, history
<1> QED
  BY <1>1, <1>2, <1>3, <1>4, WriteStep DEF Steps, CreateSteps

(* Undo and Remove. *)
LEMMA DropStep ==
  ASSUME TypeOK, NEW r \in Requests, NEW saved \in BOOLEAN, Drop(req[r].adapter, saved),
         NEW answer \in Steps, Return(r, answer), UNCHANGED <<cluster, grants>>
  PROVE  /\ TypeOK' /\ Elsewhere(r)
         /\ Moved(r, answer, req[r].adapter, New("remote"), {})
         /\ Written(req[r].adapter, Absent)
         /\ \/ storeFile'[req[r].adapter] = Absent
            \/ req[r].adapter \in disturbed'
            \/ store[req[r].adapter] = Absent
               /\ storeFile'[req[r].adapter] = storeFile[req[r].adapter]
<1>1. Moved(r, answer, req[r].adapter, New("remote"), {})
  BY ReturnMoves
<1>2. req[r].adapter \in Adapters
  BY DEF TypeOK, Request
<1>3. /\ Written(req[r].adapter, Absent)
      /\ \/ storeFile'[req[r].adapter] = Absent
         \/ req[r].adapter \in disturbed'
         \/ store[req[r].adapter] = Absent
               /\ storeFile'[req[r].adapter] = storeFile[req[r].adapter]
  BY <1>2, DropWrites
<1>4. UNCHANGED <<raced, killed, probe>>
      /\ disturbed' \in {disturbed, disturbed \cup {req[r].adapter}}
  BY DEF Drop, Lapse
<1> QED
  BY <1>1, <1>2, <1>3, <1>4, WriteStep, NewType

LEMMA DiscoverStep ==
  ASSUME TypeOK, NEW r \in Requests, Discover(r)
  PROVE  /\ TypeOK' /\ Elsewhere(r)
         /\ Moved(r, "probeNew", req[r].adapter, [req[r].copy EXCEPT !.status = "ready"],
                  req[r].todo)
<1>1. req[r].adapter \in Adapters /\ req[r].copy \in Adapter /\ req[r].todo \in SUBSET Groups
      /\ [req[r].copy EXCEPT !.status = "ready"] \in Adapter
  BY DEF TypeOK, Request, Adapter
<1>2. Moved(r, "probeNew", req[r].adapter, [req[r].copy EXCEPT !.status = "ready"], req[r].todo)
  BY <1>1, KeepMoves DEF Discover, Steps, CreateSteps
<1>3. UNCHANGED <<cluster, grants, raced, killed, probe, disturbed>>
  BY DEF Discover, history
<1> QED
  BY <1>1, <1>2, <1>3, WriteStep DEF Discover, Steps, CreateSteps

Answers == {"healthy", "unhealthy", "unreachable"}

(* ProbeNew and Probe. *)
LEMMA CheckHealthStep ==
  ASSUME TypeOK, NEW r \in Requests, NEW answer \in Answers, NEW step \in Steps,
         NEW copy \in Adapter, NEW todo \in SUBSET Groups,
         Moved(r, step, req[r].adapter, copy, todo),
         CheckHealth(req[r].adapter, req[r].copy, answer), UNCHANGED <<cluster, grants>>
  PROVE  /\ TypeOK' /\ Elsewhere(r)
         /\ LET new == StatusAfter(req[r].copy.status, answer)
            IN  IF new # req[r].copy.status /\ store[req[r].adapter] # Absent
                THEN /\ Written(req[r].adapter, [req[r].copy EXCEPT !.status = new])
                     /\ \/ storeFile'[req[r].adapter] = store'[req[r].adapter]
                        \/ req[r].adapter \in disturbed'
                ELSE UNCHANGED adapters
<1> DEFINE new == StatusAfter(req[r].copy.status, answer)
<1>1. req[r].adapter \in Adapters /\ req[r].copy \in Adapter
  BY DEF TypeOK, Request
<1>2. new \in {"not_ready", "ready", "error"}
  BY <1>1, StatusAfterType DEF Adapter, Answers
<1>3. [req[r].copy EXCEPT !.status = new] \in Adapter
  BY <1>1, <1>2 DEF Adapter
<1>4. IF new # req[r].copy.status /\ store[req[r].adapter] # Absent
      THEN /\ Put(req[r].adapter, [req[r].copy EXCEPT !.status = new])
           /\ \E saved \in Saves :
                 /\ Save(saved)
                 /\ disturbed' = IF saved THEN disturbed ELSE disturbed \cup {req[r].adapter}
      ELSE UNCHANGED <<adapters, disturbed>>
  BY DEF CheckHealth
<1>5. /\ probe' \in {probe} \cup {[probe EXCEPT ![req[r].adapter] = a] : a \in {"healthy", "unhealthy"}}
      /\ UNCHANGED <<raced, killed>>
  BY DEF CheckHealth, Answers
<1> HIDE DEF new
<1>6. CASE new # req[r].copy.status /\ store[req[r].adapter] # Absent
  <2>1. /\ Written(req[r].adapter, [req[r].copy EXCEPT !.status = new])
        /\ \/ storeFile'[req[r].adapter] = store'[req[r].adapter]
           \/ req[r].adapter \in disturbed'
        /\ disturbed' \in {disturbed, disturbed \cup {req[r].adapter}}
    <3>1. PICK saved \in Saves :
            /\ Save(saved)
            /\ disturbed' = IF saved THEN disturbed ELSE disturbed \cup {req[r].adapter}
      BY <1>4, <1>6
    <3>2. /\ Written(req[r].adapter, [req[r].copy EXCEPT !.status = new])
          /\ saved => storeFile'[req[r].adapter] = [req[r].copy EXCEPT !.status = new]
      BY <1>1, <1>3, <1>4, <1>6, <3>1, SaveWrites
    <3> QED
      BY <3>1, <3>2, SavesAssumption DEF Written
  <2>2. TypeOK' /\ Elsewhere(r)
    BY <1>3, <1>5, <2>1, WriteStep
  <2> QED
    BY <1>6, <2>1, <2>2 DEF new
<1>7. CASE ~(new # req[r].copy.status /\ store[req[r].adapter] # Absent)
  <2>1. UNCHANGED adapters /\ UNCHANGED disturbed
    BY <1>4, <1>7
  <2>2. TypeOK' /\ Elsewhere(r)
    BY <1>5, <2>1, WriteStep
  <2> QED
    BY <1>7, <2>1, <2>2 DEF new
<1> QED
  BY <1>6, <1>7

(* What CheckHealth does with the store. *)
Checked(r, answer) ==
  LET a == req[r].adapter
      new == StatusAfter(req[r].copy.status, answer)
  IN  IF new # req[r].copy.status /\ store[a] # Absent
      THEN /\ Written(a, [req[r].copy EXCEPT !.status = new])
           /\ storeFile'[a] = store'[a] \/ a \in disturbed'
      ELSE UNCHANGED adapters

LEMMA ProbeNewStep ==
  ASSUME TypeOK, NEW r \in Requests, NEW answer \in Answers, ProbeNew(r, answer)
  PROVE  /\ TypeOK' /\ Elsewhere(r)
         /\ Moved(r, "save", req[r].adapter,
                  [req[r].copy EXCEPT !.status = StatusAfter(req[r].copy.status, answer)],
                  req[r].todo)
         /\ Checked(r, answer)
<1> DEFINE copy == [req[r].copy EXCEPT !.status = StatusAfter(req[r].copy.status, answer)]
<1>1. copy \in Adapter /\ req[r].todo \in SUBSET Groups
  BY StatusAfterType DEF TypeOK, Request, Adapter, Answers
<1>2. Moved(r, "save", req[r].adapter, copy, req[r].todo)
  BY <1>1, KeepMoves DEF ProbeNew, Steps, CreateSteps
<1>3. CheckHealth(req[r].adapter, req[r].copy, answer) /\ UNCHANGED <<cluster, grants>>
  BY DEF ProbeNew
<1> HIDE DEF copy
<1>4. /\ TypeOK' /\ Elsewhere(r)
      /\ Checked(r, answer)
  BY <1>1, <1>2, <1>3, CheckHealthStep DEF Steps, CreateSteps, Checked
<1> QED
  BY <1>2, <1>4 DEF copy

LEMMA ProbeStep ==
  ASSUME TypeOK, NEW r \in Requests, NEW answer \in Answers, Probe(r, answer)
  PROVE  /\ TypeOK' /\ Elsewhere(r)
         /\ Moved(r, "done", req[r].adapter, New("remote"), {})
         /\ Checked(r, answer)
<1>1. Moved(r, "done", req[r].adapter, New("remote"), {})
  BY ReturnMoves DEF Probe, Steps, Waiting
<1>2. CheckHealth(req[r].adapter, req[r].copy, answer) /\ UNCHANGED <<cluster, grants>>
  BY DEF Probe
<1>3. "done" \in Steps /\ New("remote") \in Adapter /\ {} \in SUBSET Groups
  BY NewType DEF Steps, Waiting
<1>4. TypeOK' /\ Elsewhere(r) /\ Checked(r, answer)
  BY <1>1, <1>2, <1>3, CheckHealthStep DEF Checked
<1> QED
  BY <1>1, <1>4

LEMMA SaveNewStep ==
  ASSUME TypeOK, NEW r \in Requests, SaveNew(r)
  PROVE  /\ TypeOK' /\ Elsewhere(r)
         /\ \/ /\ store[req[r].adapter] = Absent /\ UNCHANGED adapters
               /\ Moved(r, "notCreated", req[r].adapter, New("remote"), {})
            \/ /\ store[req[r].adapter] # Absent
               /\ Written(req[r].adapter, req[r].copy)
               /\ \/ Moved(r, "assign", req[r].adapter, req[r].copy, Groups)
                  \/ Moved(r, "notCreated", req[r].adapter, New("remote"), {})
<1>1. req[r].adapter \in Adapters /\ req[r].copy \in Adapter
  BY DEF TypeOK, Request
<1>2. UNCHANGED <<cluster, grants, raced, killed, probe, disturbed>>
  BY DEF SaveNew, history
<1>3. CASE store[req[r].adapter] = Absent
  <2>1. UNCHANGED adapters /\ Return(r, "notCreated")
    BY <1>3 DEF SaveNew
  <2>2. Moved(r, "notCreated", req[r].adapter, New("remote"), {})
    BY <2>1, ReturnMoves DEF Steps, Waiting
  <2>3. "notCreated" \in Steps /\ New("remote") \in Adapter /\ {} \in SUBSET Groups
    BY NewType DEF Steps, Waiting
  <2>4. TypeOK' /\ Elsewhere(r)
    BY <1>2, <2>1, <2>2, <2>3, WriteStep
  <2> QED
    BY <1>3, <2>1, <2>2, <2>4
<1>4. CASE store[req[r].adapter] # Absent
  <2>1. Put(req[r].adapter, req[r].copy)
    BY <1>4 DEF SaveNew
  <2>2. PICK saved \in Saves :
          /\ Save(saved)
          /\ IF saved THEN req' = [req EXCEPT ![r].at = "assign", ![r].todo = Groups]
             ELSE Return(r, "notCreated")
    BY <1>4 DEF SaveNew
  <2>3. Written(req[r].adapter, req[r].copy)
    BY <1>1, <2>1, <2>2, SaveWrites
  <2>4. CASE saved
    <3>1. Moved(r, "assign", req[r].adapter, req[r].copy, Groups)
      BY <2>2, <2>4 DEF TypeOK, Moved, Request, Steps, CreateSteps
    <3> QED
      BY <1>1, <1>2, <1>4, <2>3, <3>1, WriteStep DEF Steps, CreateSteps
  <2>5. CASE ~saved
    <3>1. Moved(r, "notCreated", req[r].adapter, New("remote"), {})
      BY <2>2, <2>5, ReturnMoves DEF Steps, Waiting
    <3>2. "notCreated" \in Steps /\ New("remote") \in Adapter /\ {} \in SUBSET Groups
      BY NewType DEF Steps, Waiting
    <3>3. TypeOK' /\ Elsewhere(r)
      BY <1>1, <1>2, <2>3, <3>1, <3>2, WriteStep
    <3> QED
      BY <1>4, <2>3, <3>1, <3>3
  <2> QED
    BY <2>4, <2>5
<1> QED
  BY <1>3, <1>4

(* AssignNew and Grant: assignments are added. *)
LEMMA AssignStep ==
  ASSUME TypeOK, NEW r \in Requests, NEW step \in Steps, NEW copy \in Adapter,
         NEW todo \in SUBSET Groups, Moved(r, step, req[r].adapter, copy, todo),
         UNCHANGED grants \/ \E groups \in SUBSET Groups :
                               SetAssigned(assigned \cup ({req[r].adapter} \X groups)),
         UNCHANGED <<adapters, cluster, history>>
  PROVE  TypeOK' /\ Elsewhere(r)
<1>1. req[r].adapter \in Adapters
  BY DEF TypeOK, Request
<1>2. /\ assigned' \in SUBSET (Adapters \X Groups)
      /\ assignedFile' \in SUBSET (Adapters \X Groups)
      /\ assigned \subseteq assigned'
  <2>1. CASE UNCHANGED grants
    BY <2>1 DEF grants, TypeOK
  <2>2. ASSUME NEW groups \in SUBSET Groups,
               SetAssigned(assigned \cup ({req[r].adapter} \X groups))
        PROVE  <1>2
    <3>1. assigned \cup ({req[r].adapter} \X groups) \in SUBSET (Adapters \X Groups)
      BY <1>1 DEF TypeOK
    <3> QED
      BY <2>2, <3>1, SetAssignedType
  <2> QED
    BY <2>1, <2>2
<1>3. UNCHANGED <<store, storeFile, deployments, services, hasManager, probe, disturbed,
                  raced, killed>>
  BY DEF adapters, cluster, history
<1> QED
  BY <1>1, <1>2, <1>3 DEF TypeOK, Elsewhere, Untouched, Moved, At

LEMMA BeginStep ==
  ASSUME TypeOK, NEW r \in Requests, NEW a \in Adapters, NEW step \in Steps,
         NEW copy \in Adapter, NEW todo \in SUBSET Groups,
         ~Busy(r), Moved(r, step, a, copy, todo),
         UNCHANGED adapters \/ \E v \in Adapter \cup {Absent} : Written(a, v),
         probe' \in {probe, [probe EXCEPT ![a] = "none"]},
         disturbed' \in {disturbed, disturbed \cup {a}},
         raced' \in {raced, raced \cup {a}},
         UNCHANGED <<cluster, grants, killed>>
  PROVE  TypeOK' /\ Elsewhere(r)
<1>1. UNCHANGED <<deployments, services, hasManager, assigned, assignedFile, killed>>
  BY DEF cluster, grants
<1>2. /\ store' \in [Adapters -> Adapter \cup {Absent}]
      /\ storeFile' \in [Adapters -> Adapter \cup {Absent}]
      /\ \A b \in Adapters \ {a} :
            store'[b] = store[b] /\ storeFile'[b] \in {storeFile[b], store[b]}
  BY DEF TypeOK, Written, adapters
<1>3. /\ probe' \in [Adapters -> {"none", "healthy", "unhealthy"}]
      /\ \A b \in Adapters \ {a} : probe'[b] = probe[b]
  BY DEF TypeOK
<1>4. req[r].at \notin Active
  BY DEF Busy, Waiting, Active, CreateSteps, DeleteSteps
<1> QED
  BY <1>1, <1>2, <1>3, <1>4 DEF TypeOK, Elsewhere, Untouched, Moved, At

(* The three ways of an arrival: it is answered at once, it begins on a stored *)
(* adapter, or it stores a new one. *)
Refused(r, a) ==
  /\ \E step \in Waiting : Moved(r, step, a, New("remote"), {})
  /\ UNCHANGED <<adapters, history>>

Begun(r, a) ==
  /\ store[a] # Absent /\ UNCHANGED <<adapters, probe, killed>>
  /\ \E step \in {"probe", "write", "grant", "unexpose", "remove"}, copy \in Adapter,
        todo \in SUBSET Groups :
       /\ Moved(r, step, a, copy, todo)
       /\ copy = store[a] \/ a \in disturbed'
       /\ step \in {"unexpose", "remove"} => ~Deploying(a) \/ a \in disturbed'
       /\ step = "remove" => store[a].kind = "remote" \/ a \in disturbed'
  /\ disturbed' \in {disturbed, disturbed \cup {a}}
  /\ raced' = IF Idle(a) THEN raced ELSE raced \cup {a}

Created(r, a) ==
  /\ store[a] = Absent /\ probe'[a] = "none" /\ UNCHANGED killed
  /\ \E kind \in {"sidecar", "remote"}, step \in {"save", "fail", "panicked", "deploy", "undo",
                                                   "notCreated"} :
       /\ Written(a, New(kind))
       /\ storeFile'[a] = New(kind) \/ a \in disturbed'
       /\ step = "notCreated" => a \in disturbed'
       /\ step = "save" => kind = "remote"
       /\ step \in {"fail", "panicked", "deploy"} => kind = "sidecar"
       /\ Moved(r, step, a, New(IF step \in Waiting THEN "remote" ELSE kind), {})
  /\ Idle(a) \/ a \in disturbed'
  /\ disturbed' \in {disturbed, disturbed \cup {a}}
  /\ raced' = IF Idle(a) THEN raced ELSE raced \cup {a}

Arrives(r, a) ==
  /\ ~Busy(r) /\ UNCHANGED <<cluster, grants>>
  /\ Refused(r, a) \/ Begun(r, a) \/ Created(r, a)

LEMMA RefusedArrives ==
  ASSUME TypeOK, NEW r \in Requests, NEW a \in Adapters, ~Busy(r),
         NEW step \in Waiting, Start(r, a, step, New("remote"), {}),
         UNCHANGED <<adapters, cluster, grants, history>>
  PROVE  TypeOK' /\ Elsewhere(r) /\ Arrives(r, a)
<1>1. step \in Steps /\ New("remote") \in Adapter /\ {} \in SUBSET Groups
  BY NewType DEF Steps
<1>2. Moved(r, step, a, New("remote"), {})
  BY <1>1, StartMoves
<1>3. UNCHANGED <<probe, disturbed, raced, killed>>
  BY DEF history
<1>4. TypeOK' /\ Elsewhere(r)
  BY <1>1, <1>2, <1>3, BeginStep
<1> QED
  BY <1>2, <1>4 DEF Arrives, Refused

LEMMA BegunArrives ==
  ASSUME TypeOK, NEW r \in Requests, NEW a \in Adapters, ~Busy(r), store[a] # Absent,
         NEW step \in {"probe", "write", "grant", "unexpose", "remove"}, NEW copy \in Adapter,
         NEW todo \in SUBSET Groups, Start(r, a, step, copy, todo),
         NEW coordinated \in BOOLEAN, Begin(a, coordinated),
         coordinated => copy = store[a],
         coordinated /\ step \in {"unexpose", "remove"} => ~Deploying(a),
         coordinated /\ step = "remove" => store[a].kind = "remote",
         UNCHANGED <<adapters, cluster, grants>>
  PROVE  TypeOK' /\ Elsewhere(r) /\ Arrives(r, a)
<1>1. step \in Steps
  BY DEF Steps, DeleteSteps
<1>2. Moved(r, step, a, copy, todo)
  BY <1>1, StartMoves
<1>3. /\ coordinated \/ a \in disturbed'
      /\ disturbed' \in {disturbed, disturbed \cup {a}}
      /\ raced' = IF Idle(a) THEN raced ELSE raced \cup {a}
      /\ UNCHANGED <<probe, killed>>
  BY DEF Begin, Disturb
<1>4. TypeOK' /\ Elsewhere(r)
  BY <1>1, <1>2, <1>3, BeginStep
<1>5. Begun(r, a)
  BY <1>2, <1>3 DEF Begun
<1> QED
  BY <1>4, <1>5 DEF Arrives

LEMMA CreateAdapterArrives ==
  ASSUME TypeOK, NEW r \in Requests, NEW a \in Adapters, NEW server,
         CreateAdapter(r, a, server)
  PROVE  TypeOK' /\ Elsewhere(r) /\ Arrives(r, a)
<1>1. ~Busy(r) /\ UNCHANGED <<cluster, grants>>
  BY DEF CreateAdapter
<1>2. CASE store[a] # Absent \/ Kind(server) = Absent
  <2>1. Start(r, a, "notCreated", New("remote"), {}) /\ UNCHANGED <<adapters, history>>
    BY <1>2 DEF CreateAdapter
  <2> QED
    BY <1>1, <2>1, RefusedArrives DEF Waiting
<1>3. CASE store[a] = Absent /\ Kind(server) # Absent
  <2> DEFINE kind == Kind(server)
  <2>1. kind \in {"sidecar", "remote"}
    BY <1>3, KindType
  <2>2. /\ Put(a, New(kind)) /\ probe' = [probe EXCEPT ![a] = "none"]
        /\ UNCHANGED killed
    BY <1>3 DEF CreateAdapter
  <2>3. PICK saved \in Saves :
          LET step == IF saved THEN AfterCreate(server) ELSE "notCreated"
          IN  /\ Save(saved)
              /\ Disturb(a, saved /\ Idle(a))
              /\ Start(r, a, step, New(IF step \in Waiting THEN "remote" ELSE kind), {})
    BY <1>3 DEF CreateAdapter
  <2> DEFINE step == IF saved THEN AfterCreate(server) ELSE "notCreated"
             copy == New(IF step \in Waiting THEN "remote" ELSE kind)
  <2>4. /\ step \in {"save", "fail", "panicked", "deploy", "undo", "notCreated"}
        /\ step = "save" => kind = "remote"
        /\ step \in {"fail", "panicked", "deploy"} => kind = "sidecar"
        /\ step = "notCreated" => ~saved
    BY AfterCreateType
  <2>5. Disturb(a, saved /\ Idle(a)) /\ Start(r, a, step, copy, {}) /\ Save(saved)
    BY <2>3
  <2> HIDE DEF kind, step
  <2>6. step \in Steps /\ copy \in Adapter /\ {} \in SUBSET Groups /\ New(kind) \in Adapter
    BY <2>1, <2>4, NewType DEF Steps, Waiting, CreateSteps
  <2>7. Moved(r, step, a, copy, {})
    BY <2>5, <2>6, StartMoves
  <2>8. Written(a, New(kind)) /\ (saved => storeFile'[a] = New(kind))
    BY <2>2, <2>5, <2>6, SaveWrites
  <2>9. /\ (saved /\ Idle(a)) \/ a \in disturbed'
        /\ disturbed' \in {disturbed, disturbed \cup {a}}
        /\ raced' = IF Idle(a) THEN raced ELSE raced \cup {a}
    BY <2>5 DEF Disturb
  <2>10. TypeOK' /\ Elsewhere(r)
    BY <1>1, <2>2, <2>6, <2>7, <2>8, <2>9, BeginStep
  <2>11. probe'[a] = "none"
    BY <2>2 DEF TypeOK
  <2>12. Created(r, a)
    BY <1>3, <2>1, <2>2, <2>4, <2>7, <2>8, <2>9, <2>11 DEF Created
  <2> QED
    BY <1>1, <2>10, <2>12 DEF Arrives
<1> QED
  BY <1>2, <1>3

LEMMA DeleteAdapterArrives ==
  ASSUME TypeOK, NEW r \in Requests, NEW a \in Adapters, DeleteAdapter(r, a)
  PROVE  TypeOK' /\ Elsewhere(r) /\ Arrives(r, a)
<1>1. ~Busy(r) /\ UNCHANGED <<adapters, cluster, grants>>
  BY DEF DeleteAdapter
<1>2. CASE Start(r, a, "notDeleted", New("remote"), {}) /\ UNCHANGED history
  BY <1>1, <1>2, RefusedArrives DEF Waiting
<1>3. ASSUME store[a] # Absent,
             Start(r, a, IF store[a].kind = "sidecar" /\ hasManager THEN "unexpose" ELSE "remove",
                   store[a], {}),
             Begin(a, ~Deploying(a) /\ (hasManager \/ store[a].kind = "remote"))
      PROVE  TypeOK' /\ Elsewhere(r) /\ Arrives(r, a)
  <2> DEFINE step == IF store[a].kind = "sidecar" /\ hasManager THEN "unexpose" ELSE "remove"
             coordinated == ~Deploying(a) /\ (hasManager \/ store[a].kind = "remote")
  <2>1. /\ store[a] \in Adapter /\ store[a].kind \in {"sidecar", "remote"}
        /\ {} \in SUBSET Groups
    BY <1>3 DEF TypeOK, Adapter
  <2>2. /\ coordinated \in BOOLEAN /\ step \in {"unexpose", "remove"}
        /\ coordinated => ~Deploying(a)
        /\ coordinated /\ step = "remove" => store[a].kind = "remote"
    BY <2>1 DEF TypeOK, Deploying
  <2>3. Start(r, a, step, store[a], {}) /\ Begin(a, coordinated)
    BY <1>3
  <2> HIDE DEF step, coordinated
  <2> QED
    BY <1>1, <1>3, <2>1, <2>2, <2>3, BegunArrives
<1> QED
  BY <1>2, <1>3 DEF DeleteAdapter

LEMMA CheckAdapterHealthArrives ==
  ASSUME TypeOK, NEW r \in Requests, NEW a \in Adapters, CheckAdapterHealth(r, a)
  PROVE  TypeOK' /\ Elsewhere(r) /\ Arrives(r, a)
<1>1. ~Busy(r) /\ UNCHANGED <<adapters, cluster, grants>> /\ store[a] # Absent
  BY DEF CheckAdapterHealth
<1>2. CASE store[a].kind = "sidecar" /\ hasManager
  <2>1. Start(r, a, "probe", store[a], {}) /\ Begin(a, TRUE)
    BY <1>2 DEF CheckAdapterHealth
  <2>2. store[a] \in Adapter /\ {} \in SUBSET Groups
    BY <1>1 DEF TypeOK
  <2> QED
    BY <1>1, <2>1, <2>2, BegunArrives
<1>3. CASE ~(store[a].kind = "sidecar" /\ hasManager)
  BY <1>1, <1>3, RefusedArrives DEF CheckAdapterHealth, Waiting
<1> QED
  BY <1>2, <1>3

LEMMA ArrivalStep ==
  ASSUME TypeOK, NEW r \in Requests, NEW a \in Adapters, Arrival(r, a)
  PROVE  TypeOK' /\ Elsewhere(r) /\ Arrives(r, a)
<1>1. ASSUME NEW server \in Servers, CreateAdapter(r, a, server)
      PROVE  TypeOK' /\ Elsewhere(r) /\ Arrives(r, a)
  BY <1>1, CreateAdapterArrives
<1>2. CASE DeleteAdapter(r, a)
  BY <1>2, DeleteAdapterArrives
<1>3. CASE CheckAdapterHealth(r, a)
  BY <1>3, CheckAdapterHealthArrives
<1>4. CASE SyncAdapterCapabilities(r, a)
  <2>1. store[a] \in Adapter /\ {} \in SUBSET Groups
    BY <1>4 DEF SyncAdapterCapabilities, TypeOK
  <2>2. /\ ~Busy(r) /\ store[a] # Absent /\ UNCHANGED <<adapters, cluster, grants>>
        /\ Start(r, a, "write", store[a], {}) /\ Begin(a, TRUE)
    BY <1>4 DEF SyncAdapterCapabilities
  <2> QED
    BY <2>1, <2>2, BegunArrives
<1>5. ASSUME NEW body \in Adapter, UpdateAdapter(r, a, body)
      PROVE  TypeOK' /\ Elsewhere(r) /\ Arrives(r, a)
  <2>1. /\ ~Busy(r) /\ store[a] # Absent /\ UNCHANGED <<adapters, cluster, grants>>
        /\ Start(r, a, "write", body, {}) /\ Begin(a, body = store[a])
    BY <1>5 DEF UpdateAdapter
  <2>2. (body = store[a]) \in BOOLEAN /\ {} \in SUBSET Groups
    OBVIOUS
  <2> QED
    BY <2>1, <2>2, BegunArrives
<1>6. ASSUME NEW g \in Groups, AssignAdapterToGroup(r, a, g)
      PROVE  TypeOK' /\ Elsewhere(r) /\ Arrives(r, a)
  <2>1. store[a] \in Adapter /\ {g} \in SUBSET Groups
    BY <1>6 DEF AssignAdapterToGroup, TypeOK
  <2>2. /\ ~Busy(r) /\ store[a] # Absent /\ UNCHANGED <<adapters, cluster, grants>>
        /\ Start(r, a, "grant", store[a], {g}) /\ Begin(a, TRUE)
    BY <1>6 DEF AssignAdapterToGroup
  <2> QED
    BY <2>1, <2>2, BegunArrives
<1> QED
  BY <1>1, <1>2, <1>3, <1>4, <1>5, <1>6 DEF Arrival

LEMMA AssignNewStep ==
  ASSUME TypeOK, NEW r \in Requests, AssignNew(r)
  PROVE  /\ TypeOK' /\ Elsewhere(r)
         /\ \/ \E g \in req[r].todo :
                 /\ Moved(r, "assign", req[r].adapter, req[r].copy, req[r].todo \ {g})
                 /\ assigned' = assigned \cup {<<req[r].adapter, g>>}
            \/ /\ req[r].todo = {} /\ UNCHANGED grants
               /\ Moved(r, "created", req[r].adapter, New("remote"), {})
<1>1. req[r].adapter \in Adapters /\ req[r].copy \in Adapter /\ req[r].todo \in SUBSET Groups
  BY DEF TypeOK, Request
<1>2. UNCHANGED <<adapters, cluster, history>> /\ req[r].at = "assign"
  BY DEF AssignNew
<1>3. ASSUME NEW g \in req[r].todo,
             SetAssigned(assigned \cup {<<req[r].adapter, g>>}),
             req' = [req EXCEPT ![r].todo = @ \ {g}]
      PROVE  /\ TypeOK' /\ Elsewhere(r)
             /\ Moved(r, "assign", req[r].adapter, req[r].copy, req[r].todo \ {g})
             /\ assigned' = assigned \cup {<<req[r].adapter, g>>}
  <2>1. Moved(r, "assign", req[r].adapter, req[r].copy, req[r].todo \ {g})
    BY <1>2, <1>3 DEF TypeOK, Moved, Request
  <2>2. "assign" \in Steps /\ req[r].todo \ {g} \in SUBSET Groups /\ {g} \in SUBSET Groups
    BY <1>1 DEF Steps, CreateSteps
  <2>3. {<<req[r].adapter, g>>} = {req[r].adapter} \X {g}
    OBVIOUS
  <2>4. TypeOK' /\ Elsewhere(r)
    BY <1>1, <1>2, <1>3, <2>1, <2>2, <2>3, AssignStep
  <2>5. assigned \cup {<<req[r].adapter, g>>} \in SUBSET (Adapters \X Groups)
    BY <1>1, <1>3 DEF TypeOK
  <2> QED
    BY <1>3, <2>1, <2>4, <2>5, SetAssignedType
<1>4. CASE req[r].todo = {} /\ Return(r, "created") /\ UNCHANGED grants
  <2>1. Moved(r, "created", req[r].adapter, New("remote"), {})
    BY <1>4, ReturnMoves DEF Steps, Waiting
  <2>2. "created" \in Steps /\ New("remote") \in Adapter /\ {} \in SUBSET Groups
    BY NewType DEF Steps, Waiting
  <2>3. TypeOK' /\ Elsewhere(r)
    BY <1>2, <1>4, <2>1, <2>2, AssignStep
  <2> QED
    BY <1>4, <2>1, <2>3
<1> QED
  BY <1>3, <1>4 DEF AssignNew

LEMMA WriteCopyStep ==
  ASSUME TypeOK, NEW r \in Requests, Write(r)
  PROVE  /\ TypeOK' /\ Elsewhere(r)
         /\ Moved(r, "done", req[r].adapter, New("remote"), {})
         /\ IF store[req[r].adapter] = Absent THEN UNCHANGED adapters
            ELSE Written(req[r].adapter, req[r].copy)
<1>1. req[r].adapter \in Adapters /\ req[r].copy \in Adapter
  BY DEF TypeOK, Request
<1>2. Moved(r, "done", req[r].adapter, New("remote"), {})
  BY ReturnMoves DEF Write, Steps, Waiting
<1>3. IF store[req[r].adapter] = Absent THEN UNCHANGED adapters
      ELSE Written(req[r].adapter, req[r].copy)
  BY <1>1, SaveWrites DEF Write
<1>4. UNCHANGED <<cluster, grants, raced, killed, probe, disturbed>>
  BY DEF Write, history
<1>5. "done" \in Steps /\ New("remote") \in Adapter /\ {} \in SUBSET Groups
  BY NewType DEF Steps, Waiting
<1>6. TypeOK' /\ Elsewhere(r)
  BY <1>1, <1>2, <1>3, <1>4, <1>5, WriteStep
<1> QED
  BY <1>2, <1>3, <1>6

LEMMA GrantStep ==
  ASSUME TypeOK, NEW r \in Requests, Grant(r)
  PROVE  /\ TypeOK' /\ Elsewhere(r)
         /\ Moved(r, "done", req[r].adapter, New("remote"), {})
<1>1. req[r].todo \in SUBSET Groups
  BY DEF TypeOK, Request
<1>2. Moved(r, "done", req[r].adapter, New("remote"), {})
  BY ReturnMoves DEF Grant, Steps, Waiting
<1>3. "done" \in Steps /\ New("remote") \in Adapter /\ {} \in SUBSET Groups
  BY NewType DEF Steps, Waiting
<1>4. TypeOK' /\ Elsewhere(r)
  BY <1>1, <1>2, <1>3, AssignStep DEF Grant
<1> QED
  BY <1>2, <1>4

LEMMA RemoveFromGroupStep ==
  ASSUME TypeOK, NEW a \in Adapters, NEW g \in Groups, RemoveAdapterFromGroup(a, g)
  PROVE  /\ TypeOK'
         /\ \A b \in Adapters \ {a}, h \in Groups : <<b, h>> \in assigned => <<b, h>> \in assigned'
         /\ disturbed' = disturbed
         /\ raced' = IF Idle(a) THEN raced ELSE raced \cup {a}
         /\ UNCHANGED <<store, storeFile, deployments, services, req, probe, killed>>
<1>1. assigned' = assigned \ {<<a, g>>} /\ assignedFile' \in SUBSET (Adapters \X Groups)
  <2>1. assigned \ {<<a, g>>} \in SUBSET (Adapters \X Groups)
    BY DEF TypeOK
  <2> QED
    BY <2>1, SetAssignedType DEF RemoveAdapterFromGroup
<1>2. /\ UNCHANGED <<store, storeFile, deployments, services, hasManager, req, probe, killed>>
      /\ disturbed' = disturbed
      /\ raced' = IF Idle(a) THEN raced ELSE raced \cup {a}
  BY DEF RemoveAdapterFromGroup, Begin, Disturb, adapters, cluster
<1> QED
  BY <1>1, <1>2 DEF TypeOK

LEMMA RestartStep ==
  ASSUME TypeOK, Restart
  PROVE  /\ TypeOK'
         /\ store' = storeFile
         /\ UNCHANGED <<storeFile, deployments, services, probe, disturbed, raced>>
         /\ \A r \in Requests :
              /\ req'[r].at \in Waiting
              /\ Busy(r) => req[r].adapter \in killed'
         /\ killed \subseteq killed'
<1>1. /\ store' = storeFile /\ assigned' = assignedFile /\ hasManager' \in Managers
      /\ UNCHANGED <<storeFile, assignedFile, deployments, services, probe, disturbed, raced>>
  BY DEF Restart
<1>2. req' \in [Requests -> Request] /\ \A r \in Requests : req'[r].at \in Waiting
  <2> DEFINE over(r) == [req[r] EXCEPT !.at = "idle", !.copy = New("remote"), !.todo = {}]
  <2>1. \A r \in Requests : req[r] \in Request
    BY DEF TypeOK
  <2>2. \A r \in Requests : over(r) \in Request /\ over(r).at = "idle"
    BY <2>1, NewType DEF Request, Steps, Waiting
  <2>3. req' = [r \in Requests |-> IF Busy(r) THEN over(r) ELSE req[r]]
    BY DEF Restart
  <2> HIDE DEF over
  <2>4. "idle" \in Waiting
    BY DEF Waiting
  <2> QED
    BY <2>1, <2>2, <2>3, <2>4 DEF Busy
<1>3. /\ killed' \in SUBSET Adapters /\ killed \subseteq killed'
      /\ \A r \in Requests : Busy(r) => req[r].adapter \in killed'
  <2>1. killed' = killed \cup {req[r].adapter : r \in {q \in Requests : Busy(q)}}
    BY DEF Restart
  <2>2. killed \in SUBSET Adapters /\ \A r \in Requests : req[r].adapter \in Adapters
    BY DEF TypeOK, Request
  <2> QED
    BY <2>1, <2>2
<1> QED
  BY <1>1, <1>2, <1>3, ManagersAssumption DEF TypeOK

LEMMA InitType == Init => TypeOK
BY NewType, ManagersAssumption DEF Init, TypeOK, Request, Steps, Waiting

LEMMA HandlerStep ==
  ASSUME TypeOK, NEW r \in Requests, Handler(r)
  PROVE  TypeOK' /\ Elsewhere(r) /\ req'[r].adapter = req[r].adapter /\ raced' = raced
         /\ killed' = killed /\ \A s \in Requests \ {r} : req'[s] = req[s]
<1>1. CASE Deploy(r)
  BY <1>1, DeployStep DEF Moved, Deploy, Lapse
<1>2. CASE Expose(r)
  BY <1>2, ExposeStep DEF Moved, Expose, Lapse
<1>3. CASE Undeploy(r)
  BY <1>3, DeleteDeploymentStep
     DEF Undeploy, Steps, CreateSteps, Moved, DeleteDeployment, Lapse
<1>4. CASE MarkFailed(r)
  BY <1>4, MarkFailedStep DEF Moved, MarkFailed, history
<1>5. CASE Undo(r)
  BY <1>5, DropStep, SavesAssumption DEF Undo, Steps, Waiting, Moved, Drop, Lapse
<1>6. CASE Discover(r)
  BY <1>6, DiscoverStep DEF Moved, Discover, history
<1>7. ASSUME NEW answer \in Answers, ProbeNew(r, answer)
      PROVE  /\ TypeOK' /\ Elsewhere(r) /\ req'[r].adapter = req[r].adapter
             /\ raced' = raced /\ killed' = killed
             /\ \A s \in Requests \ {r} : req'[s] = req[s]
  BY <1>7, ProbeNewStep DEF Moved, ProbeNew, CheckHealth
<1>8. ASSUME NEW answer \in Answers, Probe(r, answer)
      PROVE  /\ TypeOK' /\ Elsewhere(r) /\ req'[r].adapter = req[r].adapter
             /\ raced' = raced /\ killed' = killed
             /\ \A s \in Requests \ {r} : req'[s] = req[s]
  BY <1>8, ProbeStep DEF Moved, Probe, CheckHealth
<1>9. CASE SaveNew(r)
  BY <1>9, SaveNewStep DEF Moved, SaveNew, history
<1>10. CASE AssignNew(r)
  BY <1>10, AssignNewStep DEF Moved, AssignNew, history
<1>11. CASE Unexpose(r)
  BY <1>11, UnexposeStep DEF Moved, Unexpose, Lapse
<1>12. CASE RemoveDeployment(r)
  BY <1>12, DeleteDeploymentStep
     DEF RemoveDeployment, Steps, DeleteSteps, Moved, DeleteDeployment, Lapse
<1>13. CASE Remove(r)
  BY <1>13, DropStep, SavesAssumption DEF Remove, Steps, Waiting, Moved, Drop, Lapse
<1>14. CASE Write(r)
  BY <1>14, WriteCopyStep DEF Moved, Write, history
<1>15. CASE Grant(r)
  BY <1>15, GrantStep DEF Moved, Grant, history
<1> QED
  BY <1>1, <1>2, <1>3, <1>4, <1>5, <1>6, <1>7, <1>8, <1>9, <1>10, <1>11, <1>12, <1>13,
     <1>14, <1>15 DEF Handler, Answers

LEMMA TypeStep == TypeOK /\ [Next]_vars => TypeOK'
<1> SUFFICES ASSUME TypeOK, [Next]_vars PROVE TypeOK'
  OBVIOUS
<1>1. ASSUME NEW r \in Requests, Handler(r) PROVE TypeOK'
  BY <1>1, HandlerStep
<1>2. ASSUME NEW r \in Requests, NEW a \in Adapters, Arrival(r, a) PROVE TypeOK'
  BY <1>2, ArrivalStep
<1>3. ASSUME NEW a \in Adapters, NEW g \in Groups, RemoveAdapterFromGroup(a, g) PROVE TypeOK'
  BY <1>3, RemoveFromGroupStep
<1>4. CASE Restart
  BY <1>4, RestartStep
<1>5. CASE UNCHANGED vars
  BY <1>5 DEF vars, TypeOK
<1> QED
  BY <1>1, <1>2, <1>3, <1>4, <1>5 DEF Next

(* Stored adapters and their files, the cluster, the requests with their copies *)
(* and the assignments keep their types (CreateAdapter, DeleteAdapter and the   *)
(* other operations of AdapterService).                                         *)
THEOREM TypesHold == Spec => []TypeOK
<1>1. Init => TypeOK
  BY InitType
<1>2. TypeOK /\ [Next]_vars => TypeOK'
  BY TypeStep
<1> QED
  BY <1>1, <1>2, PTL DEF Spec

-----------------------------------------------------------------------------
(***************************************************************************)
(* Order in the cluster.  What the steps of creations and deletions find   *)
(* there, as long as nothing has disturbed the adapter: no creation meets  *)
(* another one, no deletion a creation that is still deploying, and the    *)
(* objects come and go in the order of the code.                           *)
(***************************************************************************)
Entering == {"deploy", "expose"}
Closing == {"discover", "probeNew", "save", "assign"}

Running(a) == a \in deployments /\ a \in services

Deleting(a) == \E r \in Requests : At(r, a, DeleteSteps)

\* A stored adapter is in the file too, and a sidecar's object has its adapter.
Kept(a) ==
  /\ a \in deployments \cup services => IsSidecar(a)
  /\ storeFile[a] = Absent <=> store[a] = Absent
  /\ store[a] # Absent => storeFile[a].kind = store[a].kind

Placed(r, a) ==
  /\ At(r, a, Active) /\ store[a] # Absent => req[r].copy.kind = store[a].kind
  /\ At(r, a, Entering) => IsSidecar(a)
  /\ At(r, a, {"deploy", "fail", "undo", "remove"}) => a \notin deployments \cup services
  /\ At(r, a, {"expose"}) => a \in deployments
  /\ At(r, a, {"expose", "undeploy", "removeDeployment"}) => a \notin services
  /\ At(r, a, Closing) /\ IsSidecar(a) => Running(a) \/ Deleting(a)

Apart(r, s, a) ==
  /\ At(r, a, CreateSteps) /\ At(s, a, CreateSteps) => r = s
  /\ At(r, a, Entering) => ~At(s, a, DeleteSteps)

Orderly(a) ==
  /\ Kept(a)
  /\ \A r \in Requests : Placed(r, a)
  /\ \A r, s \in Requests : Apart(r, s, a)

LEMMA OrderlyElsewhere ==
  ASSUME TypeOK, NEW r \in Requests, NEW a \in Adapters, Untouched(r, a), Orderly(a)
  PROVE  Orderly(a)'
<1>1. Kept(a)'
  BY DEF Orderly, Untouched, Kept, IsSidecar
<1>2. \A s \in Requests, steps \in {Active, CreateSteps, DeleteSteps, Entering, Closing,
           {"deploy", "fail", "undo", "remove"}, {"expose"}, 
           {"expose", "undeploy", "removeDeployment"}} : At(s, a, steps)' <=> At(s, a, steps)
  BY DEF Untouched, At, Active, CreateSteps, DeleteSteps, Entering, Closing
<1>3. ASSUME NEW s \in Requests PROVE Placed(s, a)'
  <2>1. Deleting(a)' <=> Deleting(a)
    BY <1>2 DEF Deleting
  <2>2. s = r => ~At(s, a, Active)'
    BY DEF Untouched
  <2>3. s # r => req'[s] = req[s]
    BY DEF Untouched
  <2> QED
    BY <1>2, <2>1, <2>2, <2>3 DEF Orderly, Untouched, Placed, Running, IsSidecar
<1>4. ASSUME NEW s \in Requests, NEW t \in Requests PROVE Apart(s, t, a)'
  BY <1>2 DEF Orderly, Apart
<1> QED
  BY <1>1, <1>3, <1>4 DEF Orderly

(* What a step of r on a itself asks of the places of the requests. *)
LEMMA ApartHere ==
  ASSUME TypeOK, NEW r \in Requests, NEW a \in Adapters, NEW step \in Steps, NEW copy, NEW todo,
         Moved(r, step, a, copy, todo), req[r].adapter = a,
         step \in CreateSteps => req[r].at \in CreateSteps,
         step \in Entering => req[r].at \in Entering,
         step \in DeleteSteps => req[r].at \in DeleteSteps,
         Orderly(a)
  PROVE  \A s, t \in Requests : Apart(s, t, a)'
<1> SUFFICES ASSUME NEW s \in Requests, NEW t \in Requests PROVE Apart(s, t, a)'
  OBVIOUS
<1>1. Apart(s, t, a)
  BY DEF Orderly
<1>2. /\ At(s, a, CreateSteps)' => At(s, a, CreateSteps)
      /\ At(t, a, CreateSteps)' => At(t, a, CreateSteps)
      /\ At(s, a, Entering)' => At(s, a, Entering)
      /\ At(t, a, DeleteSteps)' => At(t, a, DeleteSteps)
  BY DEF Moved, At
<1> QED
  BY <1>1, <1>2 DEF Apart

LEMMA DeployOrderly ==
  ASSUME TypeOK, NEW r \in Requests, Deploy(r), NEW a, a = req[r].adapter, a \notin disturbed',
         Orderly(a)
  PROVE  Orderly(a)'
<1>1. a \in Adapters /\ req[r].at = "deploy" /\ At(r, a, {"deploy", "fail", "undo", "remove"})
      /\ At(r, a, Entering) /\ At(r, a, CreateSteps)
  BY DEF TypeOK, Request, Deploy, At, Entering, CreateSteps
<1>2. IsSidecar(a) /\ a \notin deployments /\ a \notin services
  BY <1>1 DEF Orderly, Placed
<1>3. UNCHANGED <<store, storeFile, services>>
  BY DEF Deploy, adapters
<1>4. \/ deployments' = deployments \cup {a} /\ Goto(r, "expose")
      \/ deployments' = deployments /\ Goto(r, "fail")
  BY <1>2, CallsAssumption DEF Deploy, Lapse
<1>5. PICK step \in {"expose", "fail"} :
        /\ Moved(r, step, a, req[r].copy, req[r].todo)
        /\ deployments' = IF step = "expose" THEN deployments \cup {a} ELSE deployments
  BY <1>4, GotoMoves DEF Steps, CreateSteps
<1>6. Kept(a)'
  BY <1>2, <1>3 DEF Orderly, Kept, IsSidecar
<1>7. \A s, t \in Requests : Apart(s, t, a)'
  BY <1>1, <1>5, ApartHere DEF Steps, CreateSteps, DeleteSteps, Entering
<1>8. Placed(r, a)'
  BY <1>1, <1>2, <1>3, <1>5
     DEF Orderly, Placed, Moved, At, IsSidecar, Entering, Closing, CreateSteps, Active
<1>9. ASSUME NEW s \in Requests \ {r} PROVE Placed(s, a)'
  <2>1. ~At(s, a, CreateSteps) /\ ~At(s, a, DeleteSteps)
    BY <1>1 DEF Orderly, Apart
  <2>2. req'[s] = req[s]
    BY <1>5 DEF Moved
  <2> QED
    BY <1>3, <2>1, <2>2
       DEF Orderly, Placed, At, IsSidecar, Entering, Closing, CreateSteps, DeleteSteps
<1> QED
  BY <1>6, <1>7, <1>8, <1>9 DEF Orderly

LEMMA ExposeOrderly ==
  ASSUME TypeOK, NEW r \in Requests, Expose(r), NEW a, a = req[r].adapter, a \notin disturbed',
         Orderly(a)
  PROVE  Orderly(a)'
<1>1. a \in Adapters /\ req[r].at = "expose" /\ At(r, a, {"expose"})
      /\ At(r, a, {"expose", "undeploy", "removeDeployment"})
      /\ At(r, a, Entering) /\ At(r, a, CreateSteps)
  BY DEF TypeOK, Request, Expose, At, Entering, CreateSteps
<1>2. IsSidecar(a) /\ a \in deployments /\ a \notin services
  BY <1>1 DEF Orderly, Placed
<1>3. UNCHANGED <<store, storeFile, deployments>>
  BY DEF Expose, adapters
<1>4. \/ services' = services \cup {a} /\ Goto(r, "discover")
      \/ services' = services /\ Goto(r, "undeploy")
  BY <1>2, CallsAssumption DEF Expose, Lapse
<1>5. PICK step \in {"discover", "undeploy"} :
        /\ Moved(r, step, a, req[r].copy, req[r].todo)
        /\ services' = IF step = "discover" THEN services \cup {a} ELSE services
  BY <1>4, GotoMoves DEF Steps, CreateSteps
<1>6. Kept(a)'
  BY <1>2, <1>3 DEF Orderly, Kept, IsSidecar
<1>7. \A s, t \in Requests : Apart(s, t, a)'
  BY <1>1, <1>5, ApartHere DEF Steps, CreateSteps, DeleteSteps, Entering
<1>8. Placed(r, a)'
  BY <1>1, <1>2, <1>3, <1>5
     DEF Orderly, Placed, Moved, At, IsSidecar, Running, Entering, Closing, CreateSteps, Active
<1>9. ASSUME NEW s \in Requests \ {r} PROVE Placed(s, a)'
  <2>1. ~At(s, a, CreateSteps) /\ ~At(s, a, DeleteSteps)
    BY <1>1 DEF Orderly, Apart
  <2>2. req'[s] = req[s]
    BY <1>5 DEF Moved
  <2> QED
    BY <1>3, <2>1, <2>2
       DEF Orderly, Placed, At, IsSidecar, Entering, Closing, CreateSteps, DeleteSteps
<1> QED
  BY <1>6, <1>7, <1>8, <1>9 DEF Orderly

(* Undeploy, Unexpose and RemoveDeployment: a's objects go one by one. *)
LEMMA RemovalOrderly ==
  ASSUME TypeOK, NEW r \in Requests, NEW a, a = req[r].adapter, Orderly(a),
         NEW step \in {"fail", "removeDeployment", "remove"},
         Moved(r, step, a, req[r].copy, req[r].todo),
         UNCHANGED <<store, storeFile>>,
         /\ step = "fail" => /\ req[r].at = "undeploy"
                             /\ deployments' = deployments \ {a} /\ services' = services
         /\ step = "removeDeployment" => /\ req[r].at = "unexpose"
                                         /\ services' = services \ {a}
                                         /\ deployments' = deployments
         /\ step = "remove" => /\ req[r].at = "removeDeployment"
                               /\ deployments' = deployments \ {a} /\ services' = services
  PROVE  Orderly(a)'
<1>1. a \in Adapters /\ At(r, a, Active)
      /\ (step = "fail" => At(r, a, {"expose", "undeploy", "removeDeployment"})
                           /\ At(r, a, CreateSteps))
      /\ (step = "remove" => At(r, a, {"expose", "undeploy", "removeDeployment"})
                             /\ At(r, a, DeleteSteps))
      /\ (step = "removeDeployment" => At(r, a, DeleteSteps))
  BY DEF TypeOK, Request, At, Active, CreateSteps, DeleteSteps
<1>2. deployments' \subseteq deployments /\ services' \subseteq services
  OBVIOUS
<1>3. /\ step \in {"fail", "remove"} => a \notin deployments' /\ a \notin services'
      /\ step = "removeDeployment" => a \notin services'
  BY <1>1 DEF Orderly, Placed
<1>4. Kept(a)'
  BY <1>2 DEF Orderly, Kept, IsSidecar
<1>5. \A s, t \in Requests : Apart(s, t, a)'
  <2>1. /\ step \in Steps /\ (step \in CreateSteps => req[r].at \in CreateSteps)
        /\ (step \in Entering => req[r].at \in Entering)
        /\ (step \in DeleteSteps => req[r].at \in DeleteSteps)
    BY DEF Steps, CreateSteps, DeleteSteps, Entering
  <2> QED
    BY <1>1, <2>1, ApartHere
<1>6. Placed(r, a)'
  BY <1>1, <1>3
     DEF Orderly, Placed, Moved, At, IsSidecar, Entering, Closing, CreateSteps, DeleteSteps, Active
<1>7. ASSUME NEW s \in Requests \ {r} PROVE Placed(s, a)'
  <2>1. ~At(s, a, Entering)
    BY <1>1 DEF Orderly, Apart, At, Entering, CreateSteps
  <2>2. req'[s] = req[s] /\ (At(s, a, {"expose"}) => At(s, a, Entering))
    BY DEF Moved, At, Entering
  <2>3. At(s, a, Closing) => step \in {"removeDeployment", "remove"}
    BY <1>1 DEF Orderly, Apart, At, Closing, CreateSteps
  <2>4. step \in {"removeDeployment", "remove"} => Deleting(a)'
    BY DEF Moved, Deleting, At, DeleteSteps
  <2> QED
    BY <1>2, <2>1, <2>2, <2>3, <2>4 DEF Orderly, Placed, At, IsSidecar
<1> QED
  BY <1>4, <1>5, <1>6, <1>7 DEF Orderly

(* Steps that touch nothing of the cluster and write, if at all, an adapter of *)
(* the same kind.                                                              *)
LEMMA WriteOrderly ==
  ASSUME TypeOK, NEW r \in Requests, NEW a, a = req[r].adapter, Orderly(a),
         NEW step \in Steps, NEW copy \in Adapter, NEW todo, Moved(r, step, a, copy, todo),
         req[r].at \in Active \ DeleteSteps,
         \/ step \in Waiting
         \/ /\ copy.kind = req[r].copy.kind
            /\ \/ step \in Closing /\ req[r].at \in Closing
               \/ step = "undo" /\ req[r].at = "fail",
         \/ UNCHANGED adapters
         \/ store[a] # Absent /\ \E v \in Adapter : v.kind = req[r].copy.kind /\ Written(a, v),
         UNCHANGED <<deployments, services>>
  PROVE  Orderly(a)'
<1>1. a \in Adapters /\ At(r, a, Active)
  BY DEF TypeOK, Request, At
<1>2. /\ store'[a] = Absent <=> store[a] = Absent
      /\ store[a] # Absent => store'[a].kind = store[a].kind
      /\ storeFile'[a] \in {storeFile[a], store'[a]}
  BY <1>1, AbsentAssumption DEF Orderly, Placed, Written, adapters
<1>3. Kept(a)' /\ (IsSidecar(a)' <=> IsSidecar(a))
  BY <1>2 DEF Orderly, Kept, IsSidecar
<1>4. \A s, t \in Requests : Apart(s, t, a)'
  <2>1. /\ step \in CreateSteps => req[r].at \in CreateSteps
        /\ step \in Entering => req[r].at \in Entering
        /\ step \in DeleteSteps => req[r].at \in DeleteSteps
    BY DEF Waiting, Closing, CreateSteps, DeleteSteps, Entering
  <2> QED
    BY <1>1, <2>1, ApartHere
<1>5. ASSUME NEW s \in Requests PROVE At(s, a, DeleteSteps) => At(s, a, DeleteSteps)'
  BY DEF Moved, At
<1>6. Deleting(a) => Deleting(a)'
  BY <1>5 DEF Deleting
<1>7. Placed(r, a)'
  <2>1. CASE step \in Waiting
    BY <2>1 DEF Placed, Moved, At, Waiting, Entering, Closing, Active, CreateSteps, DeleteSteps
  <2>2. CASE /\ copy.kind = req[r].copy.kind
             /\ step \in Closing /\ req[r].at \in Closing
    BY <1>1, <1>2, <1>3, <1>6, <2>2
       DEF Orderly, Placed, Moved, At, Running, Entering, Closing, Active
  <2>3. CASE /\ copy.kind = req[r].copy.kind
             /\ step = "undo" /\ req[r].at = "fail"
    BY <1>1, <1>2, <1>3, <2>3 DEF Orderly, Placed, Moved, At, Entering, Closing, Active
  <2> QED
    BY <2>1, <2>2, <2>3
<1>8. ASSUME NEW s \in Requests \ {r} PROVE Placed(s, a)'
  <2>1. req'[s] = req[s]
    BY DEF Moved
  <2> QED
    BY <1>2, <1>3, <1>6, <2>1 DEF Orderly, Placed, At, Running
<1> QED
  BY <1>3, <1>4, <1>7, <1>8 DEF Orderly

(* Undo and Remove. *)
LEMMA DropOrderly ==
  ASSUME TypeOK, NEW r \in Requests, NEW a, a = req[r].adapter, Orderly(a),
         NEW step \in Waiting, NEW copy, NEW todo, Moved(r, step, a, copy, todo),
         req[r].at \in {"undo", "remove"},
         Written(a, Absent),
         storeFile'[a] = Absent \/ (store[a] = Absent /\ storeFile'[a] = storeFile[a]),
         UNCHANGED <<deployments, services>>
  PROVE  Orderly(a)'
<1>1. a \in Adapters /\ At(r, a, {"deploy", "fail", "undo", "remove"})
  BY DEF TypeOK, Request, At
<1>2. a \notin deployments \cup services /\ store'[a] = Absent /\ storeFile'[a] = Absent
  BY <1>1 DEF Orderly, Placed, Kept, Written
<1>3. Kept(a)'
  BY <1>2 DEF Kept
<1>4. \A s, t \in Requests : Apart(s, t, a)'
  <2>1. step \in Steps /\ step \notin CreateSteps \cup Entering \cup DeleteSteps
    BY DEF Steps, Waiting, CreateSteps, DeleteSteps, Entering
  <2> QED
    BY <1>1, <2>1, ApartHere
<1>5. ASSUME NEW s \in Requests PROVE ~At(s, a, Entering)'
  <2>1. At(r, a, CreateSteps) \/ At(r, a, DeleteSteps)
    BY DEF At, CreateSteps, DeleteSteps
  <2>2. At(s, a, Entering) => s = r
    BY <2>1 DEF Orderly, Apart, At, Entering, CreateSteps
  <2> QED
    BY <2>2 DEF Moved, At, Entering, Waiting
<1>6. ASSUME NEW s \in Requests PROVE Placed(s, a)'
  <2>1. At(s, a, {"expose"})' => At(s, a, Entering)'
    BY DEF At, Entering
  <2> QED
    BY <1>2, <1>5, <2>1 DEF Placed, IsSidecar
<1> QED
  BY <1>3, <1>4, <1>6 DEF Orderly

LEMMA HandlerOrderly ==
  ASSUME TypeOK, NEW r \in Requests, Handler(r), NEW a, a = req[r].adapter, a \notin disturbed',
         Orderly(a)
  PROVE  Orderly(a)'
<1>1. a \in Adapters /\ req[r].copy \in Adapter
  BY DEF TypeOK, Request
<1>2. CASE Deploy(r)
  BY <1>2, DeployOrderly
<1>3. CASE Expose(r)
  BY <1>3, ExposeOrderly
<1>4. CASE Undeploy(r)
  <2>1. UNCHANGED <<store, storeFile>> /\ services' = services /\ req[r].at = "undeploy"
        /\ deployments' = deployments \ {a}
    BY <1>4 DEF Undeploy, DeleteDeployment, Lapse, adapters
  <2>2. Moved(r, "fail", a, req[r].copy, req[r].todo)
    BY <1>4, GotoMoves DEF Undeploy, Steps, CreateSteps
  <2> QED
    BY <2>1, <2>2, RemovalOrderly
<1>5. CASE Unexpose(r)
  <2>1. UNCHANGED <<store, storeFile>> /\ deployments' = deployments /\ req[r].at = "unexpose"
        /\ services' = services \ {a}
    BY <1>5 DEF Unexpose, Lapse, adapters
  <2>2. Moved(r, "removeDeployment", a, req[r].copy, req[r].todo)
    BY <1>5, UnexposeStep
  <2> QED
    BY <2>1, <2>2, RemovalOrderly
<1>6. CASE RemoveDeployment(r)
  <2>1. UNCHANGED <<store, storeFile>> /\ services' = services
        /\ req[r].at = "removeDeployment" /\ deployments' = deployments \ {a}
    BY <1>6 DEF RemoveDeployment, DeleteDeployment, Lapse, adapters
  <2>2. Moved(r, "remove", a, req[r].copy, req[r].todo)
    BY <1>6, GotoMoves DEF RemoveDeployment, Steps, DeleteSteps
  <2> QED
    BY <2>1, <2>2, RemovalOrderly
<1>7. CASE MarkFailed(r)
  <2>1. req[r].at = "fail" /\ UNCHANGED <<deployments, services>> /\ "undo" \in Steps
        /\ req[r].at \in Active \ DeleteSteps
    BY <1>7 DEF MarkFailed, cluster, Steps, Active, CreateSteps, DeleteSteps
  <2>2. [req[r].copy EXCEPT !.status = "error"] \in Adapter
        /\ [req[r].copy EXCEPT !.status = "error"].kind = req[r].copy.kind
    BY <1>1 DEF Adapter
  <2>3. /\ Moved(r, "undo", a, req[r].copy, req[r].todo)
        /\ \/ UNCHANGED adapters
           \/ store[a] # Absent /\ \E v \in Adapter : v.kind = req[r].copy.kind /\ Written(a, v)
    BY <1>7, <2>2, MarkFailedStep
  <2> QED
    BY <1>1, <2>1, <2>3, WriteOrderly
<1>8. CASE Undo(r) \/ Remove(r)
  <2>1. PICK saved \in BOOLEAN, answer \in Waiting :
          Drop(req[r].adapter, saved) /\ Return(r, answer) /\ UNCHANGED <<cluster, grants>>
    BY <1>8, SavesAssumption DEF Undo, Remove, Waiting
  <2>2. req[r].at \in {"undo", "remove"} /\ UNCHANGED <<deployments, services>>
    BY <1>8 DEF Undo, Remove, cluster
  <2>3. /\ Moved(r, answer, a, New("remote"), {})
        /\ Written(a, Absent)
        /\ storeFile'[a] = Absent \/ (store[a] = Absent /\ storeFile'[a] = storeFile[a])
    <3>1. answer \in Steps
      BY DEF Steps
    <3>2. Moved(r, answer, req[r].adapter, New("remote"), {}) /\ Written(req[r].adapter, Absent)
      BY <2>1, <3>1, DropStep
    <3>3. \/ storeFile'[a] = Absent
          \/ store[a] = Absent /\ storeFile'[a] = storeFile[a]
      BY <2>1, <3>1, DropStep
    <3> QED
      BY <3>2, <3>3 DEF Written, Moved
  <2> QED
    BY <2>2, <2>3, DropOrderly
<1>9. CASE Discover(r)
  <2>1. /\ req[r].at \in Closing /\ "probeNew" \in Closing /\ "probeNew" \in Steps
        /\ req[r].at \in Active \ DeleteSteps
        /\ UNCHANGED <<deployments, services>> /\ UNCHANGED adapters
    BY <1>9 DEF Discover, cluster, Steps, Closing, Active, CreateSteps, DeleteSteps
  <2>2. [req[r].copy EXCEPT !.status = "ready"] \in Adapter
        /\ [req[r].copy EXCEPT !.status = "ready"].kind = req[r].copy.kind
    BY <1>1 DEF Adapter
  <2>3. Moved(r, "probeNew", a, [req[r].copy EXCEPT !.status = "ready"], req[r].todo)
    BY <1>9, DiscoverStep
  <2> QED
    BY <2>1, <2>2, <2>3, WriteOrderly
<1>10. ASSUME NEW answer \in Answers, ProbeNew(r, answer) \/ Probe(r, answer)
       PROVE  Orderly(a)'
  <2> DEFINE new == [req[r].copy EXCEPT !.status = StatusAfter(req[r].copy.status, answer)]
  <2>1. /\ req[r].at \in Active \ DeleteSteps
        /\ UNCHANGED <<deployments, services>>
        /\ "save" \in Steps /\ "save" \in Closing /\ "done" \in Steps /\ "done" \in Waiting
    BY <1>10 DEF ProbeNew, Probe, cluster, Steps, Waiting, Closing, Active, CreateSteps, DeleteSteps
  <2>2. new \in Adapter /\ new.kind = req[r].copy.kind
    BY <1>1, StatusAfterType DEF Adapter, Answers
  <2>3. Checked(r, answer)
    BY <1>10, ProbeNewStep, ProbeStep
  <2>4. \/ UNCHANGED adapters
        \/ store[a] # Absent /\ \E v \in Adapter : v.kind = req[r].copy.kind /\ Written(a, v)
    BY <2>2, <2>3 DEF Checked
  <2>5. CASE ProbeNew(r, answer)
    <3>1. Moved(r, "save", a, new, req[r].todo) /\ req[r].at \in Closing
      BY <2>5, ProbeNewStep DEF ProbeNew, Closing
    <3> HIDE DEF new
    <3> QED
      BY <2>1, <2>2, <2>4, <3>1, WriteOrderly
  <2>6. CASE Probe(r, answer)
    <3>1. Moved(r, "done", a, New("remote"), {}) /\ New("remote") \in Adapter
      BY <2>6, ProbeStep, NewType
    <3> QED
      BY <2>1, <2>4, <3>1, WriteOrderly
  <2> QED
    BY <1>10, <2>5, <2>6
<1>11. CASE SaveNew(r)
  <2>1. /\ req[r].at \in Active \ DeleteSteps /\ req[r].at \in Closing
        /\ UNCHANGED <<deployments, services>>
        /\ "assign" \in Steps /\ "assign" \in Closing
        /\ "notCreated" \in Steps /\ "notCreated" \in Waiting
    BY <1>11 DEF SaveNew, cluster, Steps, Waiting, Closing, Active, CreateSteps, DeleteSteps
  <2>2. /\ \/ UNCHANGED adapters
           \/ store[a] # Absent /\ \E v \in Adapter : v.kind = req[r].copy.kind /\ Written(a, v)
        /\ \/ Moved(r, "assign", a, req[r].copy, Groups)
           \/ Moved(r, "notCreated", a, New("remote"), {})
    BY <1>1, <1>11, SaveNewStep
  <2>3. New("remote") \in Adapter
    BY NewType
  <2>4. CASE Moved(r, "assign", a, req[r].copy, Groups)
    BY <1>1, <2>1, <2>2, <2>4, WriteOrderly
  <2>5. CASE Moved(r, "notCreated", a, New("remote"), {})
    BY <2>1, <2>2, <2>3, <2>5, WriteOrderly
  <2> QED
    BY <2>2, <2>4, <2>5
<1>12. CASE AssignNew(r)
  <2>1. /\ req[r].at \in Active \ DeleteSteps /\ req[r].at \in Closing
        /\ UNCHANGED <<deployments, services>> /\ UNCHANGED adapters
        /\ "assign" \in Steps /\ "assign" \in Closing
        /\ "created" \in Steps /\ "created" \in Waiting
    BY <1>12 DEF AssignNew, cluster, Steps, Waiting, Closing, Active, CreateSteps, DeleteSteps
  <2>2. New("remote") \in Adapter
    BY NewType
  <2>3. ASSUME NEW g \in req[r].todo, Moved(r, "assign", a, req[r].copy, req[r].todo \ {g})
        PROVE  Orderly(a)'
    BY <1>1, <2>1, <2>3, WriteOrderly
  <2>4. CASE Moved(r, "created", a, New("remote"), {})
    BY <2>1, <2>2, <2>4, WriteOrderly
  <2> QED
    BY <1>12, <2>3, <2>4, AssignNewStep
<1>13. CASE Write(r) \/ Grant(r)
  <2>1. /\ req[r].at \in Active \ DeleteSteps
        /\ UNCHANGED <<deployments, services>> /\ "done" \in Steps /\ "done" \in Waiting
    BY <1>13 DEF Write, Grant, cluster, Steps, Waiting, Active, CreateSteps, DeleteSteps
  <2>2. \/ UNCHANGED adapters
        \/ store[a] # Absent /\ \E v \in Adapter : v.kind = req[r].copy.kind /\ Written(a, v)
    BY <1>1, <1>13, WriteCopyStep DEF Grant
  <2>3. Moved(r, "done", a, New("remote"), {}) /\ New("remote") \in Adapter
    BY <1>13, WriteCopyStep, GrantStep, NewType
  <2> QED
    BY <2>1, <2>2, <2>3, WriteOrderly
<1> QED
  BY <1>2, <1>3, <1>4, <1>5, <1>6, <1>7, <1>8, <1>9, <1>10, <1>11, <1>12, <1>13
     DEF Handler, Answers

LEMMA HandlerDisturbs ==
  ASSUME NEW r \in Requests, Handler(r)
  PROVE  disturbed \subseteq disturbed'
BY DEF Handler, Deploy, Expose, Undeploy, MarkFailed, Undo, Discover, ProbeNew, Probe, SaveNew,
       AssignNew, Unexpose, RemoveDeployment, Remove, Write, Grant, Drop, DeleteDeployment,
       CheckHealth, Lapse, history

LEMMA NotActive ==
  ASSUME TypeOK, NEW r \in Requests
  PROVE  ~Busy(r) <=> req[r].at \notin Active
BY DEF TypeOK, Request, Busy, Steps, Waiting, Active, CreateSteps, DeleteSteps

LEMMA RefusedOrderly ==
  ASSUME TypeOK, NEW r \in Requests, NEW a \in Adapters, Orderly(a), ~Busy(r), Refused(r, a),
         UNCHANGED cluster
  PROVE  Orderly(a)'
<1>1. PICK step \in Waiting : Moved(r, step, a, New("remote"), {})
  BY DEF Refused
<1>2. UNCHANGED <<store, storeFile, deployments, services, disturbed, raced, killed, probe>>
  BY DEF Refused, cluster, adapters, history
<1>3. ~At(r, a, Active) /\ ~At(r, a, Active)'
  BY <1>1, NotActive DEF Moved, At, Active, Waiting, CreateSteps, DeleteSteps
<1>4. ASSUME NEW s \in Requests \ {r} PROVE req'[s] = req[s]
  BY <1>1 DEF Moved
<1>5. ASSUME NEW s \in Requests, NEW steps \in SUBSET Active
      PROVE  At(s, a, steps)' <=> At(s, a, steps)
  BY <1>3, <1>4 DEF At
<1>6. /\ CreateSteps \subseteq Active /\ DeleteSteps \subseteq Active /\ Entering \subseteq Active
      /\ Closing \subseteq Active /\ {"deploy", "fail", "undo", "remove"} \subseteq Active
      /\ {"expose"} \subseteq Active /\ {"expose", "undeploy", "removeDeployment"} \subseteq Active
  BY DEF Active, CreateSteps, DeleteSteps, Entering, Closing
<1>7. Kept(a)' /\ (Deleting(a)' <=> Deleting(a)) /\ (IsSidecar(a)' <=> IsSidecar(a))
      /\ (Running(a)' <=> Running(a))
  BY <1>2, <1>5, <1>6 DEF Orderly, Kept, IsSidecar, Deleting, Running
<1>8. ASSUME NEW s \in Requests PROVE Placed(s, a)'
  <2>1. At(s, a, Active)' => req'[s] = req[s]
    BY <1>3, <1>4
  <2>2. /\ At(s, a, Active)' <=> At(s, a, Active)
        /\ At(s, a, Entering)' <=> At(s, a, Entering)
        /\ At(s, a, Closing)' <=> At(s, a, Closing)
        /\ At(s, a, {"expose"})' <=> At(s, a, {"expose"})
        /\ At(s, a, {"deploy", "fail", "undo", "remove"})'
             <=> At(s, a, {"deploy", "fail", "undo", "remove"})
        /\ At(s, a, {"expose", "undeploy", "removeDeployment"})'
             <=> At(s, a, {"expose", "undeploy", "removeDeployment"})
    BY <1>5, <1>6
  <2> QED
    BY <1>2, <1>7, <2>1, <2>2 DEF Orderly, Placed
<1>9. ASSUME NEW s \in Requests, NEW t \in Requests PROVE Apart(s, t, a)'
  <2>1. /\ At(s, a, CreateSteps)' <=> At(s, a, CreateSteps)
        /\ At(t, a, CreateSteps)' <=> At(t, a, CreateSteps)
        /\ At(s, a, Entering)' <=> At(s, a, Entering)
        /\ At(t, a, DeleteSteps)' <=> At(t, a, DeleteSteps)
    BY <1>5, <1>6
  <2> QED
    BY <2>1 DEF Orderly, Apart
<1> QED
  BY <1>7, <1>8, <1>9 DEF Orderly

LEMMA BegunOrderly ==
  ASSUME TypeOK, NEW r \in Requests, NEW a \in Adapters, Orderly(a), ~Busy(r), Begun(r, a),
         UNCHANGED cluster, a \notin disturbed'
  PROVE  Orderly(a)'
<1>1. PICK step \in {"probe", "write", "grant", "unexpose", "remove"}, copy \in Adapter,
           todo \in SUBSET Groups :
         /\ Moved(r, step, a, copy, todo)
         /\ copy = store[a]
         /\ step \in {"unexpose", "remove"} => ~Deploying(a)
         /\ step = "remove" => store[a].kind = "remote"
  BY DEF Begun
<1>2. UNCHANGED <<store, storeFile, deployments, services>>
  BY DEF Begun, cluster, adapters
<1>3. req[r].at \notin Active
  BY NotActive
<1>4. Kept(a)' /\ (IsSidecar(a)' <=> IsSidecar(a)) /\ (Running(a)' <=> Running(a))
  BY <1>2 DEF Orderly, Kept, IsSidecar, Running
<1>5. ASSUME NEW s \in Requests \ {r} PROVE req'[s] = req[s]
  BY <1>1 DEF Moved
<1>6. Deleting(a) => Deleting(a)'
  <2>1. ASSUME NEW s \in Requests, At(s, a, DeleteSteps) PROVE At(s, a, DeleteSteps)'
    BY <1>3, <1>5, <2>1 DEF At, Active
  <2> QED
    BY <2>1 DEF Deleting
<1>7. Placed(r, a)'
  <2>1. step = "remove" => a \notin deployments \cup services
    BY <1>1 DEF Orderly, Kept, IsSidecar
  <2> QED
    BY <1>1, <1>2, <2>1 DEF Placed, Moved, At, Active, Entering, Closing
<1>8. ASSUME NEW s \in Requests \ {r} PROVE Placed(s, a)'
  BY <1>2, <1>4, <1>5, <1>6 DEF Orderly, Placed, At
<1>9. ASSUME NEW s \in Requests, NEW t \in Requests PROVE Apart(s, t, a)'
  <2>1. ~At(r, a, CreateSteps)' /\ ~At(r, a, Entering)'
    BY <1>1 DEF Moved, At, CreateSteps, Entering
  <2>2. At(r, a, DeleteSteps)' => ~\E u \in Requests : At(u, a, Entering)
    BY <1>1 DEF Moved, At, DeleteSteps, Deploying, Entering
  <2> QED
    BY <1>5, <2>1, <2>2 DEF Orderly, Apart, At
<1> QED
  BY <1>4, <1>7, <1>8, <1>9 DEF Orderly

LEMMA CreatedOrderly ==
  ASSUME TypeOK, NEW r \in Requests, NEW a \in Adapters, Orderly(a), ~Busy(r), Created(r, a),
         UNCHANGED cluster, a \notin disturbed'
  PROVE  Orderly(a)'
<1>1. PICK kind \in {"sidecar", "remote"}, step \in {"save", "fail", "panicked", "deploy", "undo"} :
         /\ Written(a, New(kind)) /\ storeFile'[a] = New(kind)
         /\ step = "save" => kind = "remote"
         /\ step \in {"fail", "panicked", "deploy"} => kind = "sidecar"
         /\ Moved(r, step, a, New(IF step \in Waiting THEN "remote" ELSE kind), {})
  BY DEF Created
<1>2. a \notin deployments /\ a \notin services /\ UNCHANGED <<deployments, services>>
  BY DEF Created, Orderly, Kept, IsSidecar, cluster
<1>3. /\ store'[a] = New(kind) /\ New(kind) \in Adapter /\ New(kind).kind = kind
      /\ New(kind) # Absent
  BY <1>1, NewType, AbsentAssumption DEF Written
<1>4. Kept(a)'
  BY <1>1, <1>2, <1>3 DEF Kept, IsSidecar
<1>5. ASSUME NEW s \in Requests \ {r} PROVE ~At(s, a, Active)'
  <2>1. req'[s] = req[s] /\ ~(req[s].adapter = a /\ Busy(s))
    BY <1>1 DEF Moved, Created, Idle
  <2> QED
    BY <2>1, NotActive DEF At
<1>6. ASSUME NEW s \in Requests \ {r}
      PROVE  /\ ~At(s, a, CreateSteps)' /\ ~At(s, a, DeleteSteps)' /\ ~At(s, a, Entering)'
             /\ ~At(s, a, Closing)' /\ ~At(s, a, {"deploy", "fail", "undo", "remove"})'
             /\ ~At(s, a, {"expose"})' /\ ~At(s, a, {"expose", "undeploy", "removeDeployment"})'
  BY <1>5 DEF At, Active, CreateSteps, DeleteSteps, Entering, Closing
<1>7. ASSUME NEW s \in Requests \ {r} PROVE Placed(s, a)'
  BY <1>5, <1>6 DEF Placed
<1>8. Placed(r, a)'
  <2>1. step \notin Waiting \/ step = "panicked"
    BY DEF Waiting
  <2> QED
    BY <1>1, <1>2, <1>3, <2>1
       DEF Placed, Moved, At, IsSidecar, Entering, Closing, Active, Waiting, CreateSteps, DeleteSteps
<1>9. ASSUME NEW s \in Requests, NEW t \in Requests PROVE Apart(s, t, a)'
  <2>1. ~At(r, a, DeleteSteps)'
    BY <1>1 DEF Moved, At, DeleteSteps
  <2> QED
    BY <1>6, <2>1 DEF Apart
<1> QED
  BY <1>4, <1>7, <1>8, <1>9 DEF Orderly

LEMMA OrderlyStep ==
  ASSUME TypeOK, [Next]_vars, NEW a \in Adapters, a \notin disturbed',
         a \notin disturbed => Orderly(a)
  PROVE  a \notin disturbed /\ Orderly(a)'
<1>1. ASSUME NEW r \in Requests, Handler(r) PROVE a \notin disturbed /\ Orderly(a)'
  <2>1. CASE a = req[r].adapter
    <3>1. a \notin disturbed
      BY <1>1, <2>1, HandlerDisturbs
    <3> QED
      BY <1>1, <2>1, <3>1, HandlerOrderly
  <2>2. CASE a # req[r].adapter
    <3>1. Untouched(r, a)
      BY <1>1, <2>2, HandlerStep DEF Elsewhere
    <3> QED
      BY <3>1, OrderlyElsewhere DEF Untouched
  <2> QED
    BY <2>1, <2>2
<1>2. ASSUME NEW r \in Requests, NEW b \in Adapters, Arrival(r, b)
      PROVE  a \notin disturbed /\ Orderly(a)'
  <2>1. Elsewhere(r) /\ ~Busy(r) /\ (Refused(r, b) \/ Begun(r, b) \/ Created(r, b))
        /\ UNCHANGED cluster
    BY <1>2, ArrivalStep DEF Arrives
  <2>2. CASE a = b
    <3>1. a \notin disturbed
      BY <2>1, <2>2 DEF Refused, Begun, Created, history
    <3> QED
      BY <2>1, <2>2, <3>1, RefusedOrderly, BegunOrderly, CreatedOrderly
  <2>3. CASE a # b
    <3>1. req'[r].adapter = b
      BY <2>1 DEF Refused, Begun, Created, Moved
    <3>2. Untouched(r, a)
      BY <2>1, <2>3, <3>1 DEF Elsewhere
    <3> QED
      BY <3>2, OrderlyElsewhere DEF Untouched
  <2> QED
    BY <2>2, <2>3
<1>3. ASSUME NEW b \in Adapters, NEW g \in Groups, RemoveAdapterFromGroup(b, g)
      PROVE  a \notin disturbed /\ Orderly(a)'
  <2>1. UNCHANGED <<store, storeFile, deployments, services, req>> /\ disturbed' = disturbed
    BY <1>3, RemoveFromGroupStep
  <2> QED
    BY <2>1 DEF Orderly, Kept, Placed, Apart, At, IsSidecar, Running, Deleting
<1>4. CASE Restart
  <2>1. /\ store' = storeFile /\ UNCHANGED <<storeFile, deployments, services, disturbed>>
        /\ \A r \in Requests : req'[r].at \in Waiting
    BY <1>4, RestartStep
  <2>2. Kept(a)'
    BY <2>1 DEF Orderly, Kept, IsSidecar
  <2>3. ASSUME NEW r \in Requests
        PROVE  /\ ~At(r, a, Active)' /\ ~At(r, a, CreateSteps)' /\ ~At(r, a, DeleteSteps)'
               /\ ~At(r, a, Entering)' /\ ~At(r, a, Closing)'
               /\ ~At(r, a, {"deploy", "fail", "undo", "remove"})' /\ ~At(r, a, {"expose"})'
               /\ ~At(r, a, {"expose", "undeploy", "removeDeployment"})'
    BY <2>1 DEF At, Waiting, Active, CreateSteps, DeleteSteps, Entering, Closing
  <2>4. \A r \in Requests : Placed(r, a)'
    BY <2>3 DEF Placed
  <2>5. \A r, s \in Requests : Apart(r, s, a)'
    BY <2>3 DEF Apart
  <2> QED
    BY <2>1, <2>2, <2>4, <2>5 DEF Orderly
<1>5. CASE UNCHANGED vars
  <2>1. UNCHANGED <<store, storeFile, deployments, services, req, disturbed>>
    BY <1>5 DEF vars
  <2> QED
    BY <2>1 DEF Orderly, Kept, Placed, Apart, At, IsSidecar, Running, Deleting
<1> QED
  BY <1>1, <1>2, <1>3, <1>4, <1>5 DEF Next

OrderInv == TypeOK /\ \A a \in Adapters \ disturbed : Orderly(a)

LEMMA OrderInit == Init => OrderInv
<1> SUFFICES ASSUME Init PROVE OrderInv
  OBVIOUS
<1>1. \A r \in Requests : req[r].at = "idle"
  BY DEF Init
<1>2. \A a \in Adapters : Kept(a)
  BY DEF Init, Kept
<1>3. \A a \in Adapters, r, s \in Requests : Placed(r, a) /\ Apart(r, s, a)
  BY <1>1 DEF Placed, Apart, At, Active, CreateSteps, DeleteSteps, Entering, Closing
<1> QED
  BY <1>2, <1>3, InitType DEF OrderInv, Orderly

LEMMA OrderStep == OrderInv /\ [Next]_vars => OrderInv'
BY TypeStep, OrderlyStep DEF OrderInv

\* CreateAdapter stores before it deploys, DeleteAdapter removes last: for any
\* number of requests and adapters, and with a process killed between any two
\* steps, an object of the cluster has its stored sidecar adapter.
THEOREM NoOrphans == Spec => []SidecarHasAdapter
<1>1. OrderInv => SidecarHasAdapter
  BY DEF OrderInv, Orderly, Kept, SidecarHasAdapter, TypeOK
<1> QED
  BY <1>1, OrderInit, OrderStep, PTL DEF Spec

-----------------------------------------------------------------------------
(***************************************************************************)
(* Requests by themselves.  Where no request has begun beside another one  *)
(* there is one at most, a creation still finds what it has stored, and    *)
(* what it has assigned stays assigned until it has answered.              *)
(***************************************************************************)
Alone(a) ==
  /\ \A r, s \in Requests : At(r, a, Active) /\ At(s, a, Active) => r = s
  /\ \A r \in Requests :
       /\ At(r, a, CreateSteps) => store[a] # Absent
       /\ At(r, a, {"assign"}) => \A g \in Groups \ req[r].todo : <<a, g>> \in assigned

LEMMA AloneElsewhere ==
  ASSUME TypeOK, NEW r \in Requests, NEW a \in Adapters, Untouched(r, a), Alone(a)
  PROVE  Alone(a)'
<1>1. ASSUME NEW s \in Requests, At(s, a, Active)' PROVE s # r /\ req'[s] = req[s]
  BY <1>1 DEF Untouched
<1>2. \A s \in Requests : At(s, a, CreateSteps)' \/ At(s, a, {"assign"})' => At(s, a, Active)'
  BY DEF At, Active, CreateSteps
<1> QED
  BY <1>1, <1>2 DEF Alone, Untouched, At

(* What a handler step leaves to itself on its own adapter. *)
LEMMA HandlerAlone ==
  ASSUME TypeOK, NEW r \in Requests, Handler(r), NEW a, a = req[r].adapter, Alone(a)
  PROVE  /\ At(r, a, Active)
         /\ At(r, a, CreateSteps)' => store'[a] # Absent
         /\ At(r, a, {"assign"})' => \A g \in Groups \ req'[r].todo : <<a, g>> \in assigned'
         /\ \A s \in Requests \ {r} : req'[s] = req[s]
<1> DEFINE Goal == /\ At(r, a, Active)
                   /\ At(r, a, CreateSteps)' => store'[a] # Absent
                   /\ At(r, a, {"assign"})' =>
                        \A g \in Groups \ req'[r].todo : <<a, g>> \in assigned'
                   /\ \A s \in Requests \ {r} : req'[s] = req[s]
<1>1. a \in Adapters /\ (At(r, a, CreateSteps) => store[a] # Absent)
      /\ (At(r, a, {"assign"}) => \A g \in Groups \ req[r].todo : <<a, g>> \in assigned)
  BY DEF TypeOK, Request, Alone
<1>2. CASE Deploy(r)
  BY <1>1, <1>2, DeployStep DEF Moved, Deploy, At, Active, CreateSteps, adapters
<1>3. CASE Expose(r)
  BY <1>1, <1>3, ExposeStep DEF Moved, Expose, At, Active, CreateSteps, adapters
<1>4. CASE Undeploy(r)
  <2>1. Moved(r, "fail", a, req[r].copy, req[r].todo)
    BY <1>4, GotoMoves DEF Undeploy, Steps, CreateSteps
  <2> QED
    BY <1>1, <1>4, <2>1 DEF Moved, Undeploy, At, Active, CreateSteps, adapters
<1>5. CASE Unexpose(r)
  BY <1>1, <1>5, UnexposeStep DEF Moved, Unexpose, At, Active, CreateSteps, DeleteSteps
<1>6. CASE RemoveDeployment(r)
  <2>1. Moved(r, "remove", a, req[r].copy, req[r].todo)
    BY <1>6, GotoMoves DEF RemoveDeployment, Steps, DeleteSteps
  <2> QED
    BY <1>1, <1>6, <2>1 DEF Moved, RemoveDeployment, At, Active, CreateSteps, DeleteSteps
<1>7. CASE MarkFailed(r)
  <2>1. [req[r].copy EXCEPT !.status = "error"] # Absent
    BY AbsentAssumption DEF TypeOK, Request, Adapter
  <2> QED
    BY <1>1, <1>7, <2>1, MarkFailedStep
       DEF Moved, MarkFailed, At, Active, CreateSteps, Written
<1>8. CASE Undo(r) \/ Remove(r)
  <2>1. PICK answer \in Waiting : Return(r, answer)
    BY <1>8 DEF Undo, Remove, Waiting
  <2>2. answer \in Steps /\ answer \notin CreateSteps
    BY DEF Steps, Waiting, CreateSteps
  <2>3. Moved(r, answer, req[r].adapter, New("remote"), {})
    BY <2>1, <2>2, ReturnMoves
  <2> QED
    BY <1>8, <2>2, <2>3 DEF Moved, At, Undo, Remove, Active, CreateSteps, DeleteSteps
<1>9. CASE Discover(r)
  BY <1>1, <1>9, DiscoverStep DEF Moved, Discover, At, Active, CreateSteps, adapters
<1>10. ASSUME NEW answer \in Answers, ProbeNew(r, answer) PROVE Goal
  <2>1. [req[r].copy EXCEPT !.status = StatusAfter(req[r].copy.status, answer)] # Absent
    BY StatusAfterType, AbsentAssumption DEF TypeOK, Request, Adapter, Answers
  <2>2. At(r, a, CreateSteps)
    BY <1>10 DEF ProbeNew, At, CreateSteps
  <2>3. store'[a] # Absent
    BY <1>1, <1>10, <2>1, <2>2, ProbeNewStep DEF Checked, Written, adapters
  <2> QED
    BY <1>10, <2>2, <2>3, ProbeNewStep DEF Moved, At, Active, CreateSteps
<1>11. ASSUME NEW answer \in Answers, Probe(r, answer) PROVE Goal
  BY <1>11, ProbeStep DEF Moved, Probe, At, Active, CreateSteps
<1>12. CASE SaveNew(r)
  <2>1. req[r].copy # Absent
    BY AbsentAssumption DEF TypeOK, Request
  <2> QED
    BY <1>12, <2>1, SaveNewStep DEF Moved, SaveNew, At, Active, CreateSteps, Written
<1>13. CASE AssignNew(r)
  <2>1. At(r, a, {"assign"}) /\ At(r, a, CreateSteps) /\ UNCHANGED store
    BY <1>13 DEF AssignNew, At, CreateSteps, adapters
  <2>2. ASSUME NEW g \in req[r].todo,
               Moved(r, "assign", a, req[r].copy, req[r].todo \ {g}),
               assigned' = assigned \cup {<<a, g>>}
        PROVE  Goal
    BY <1>1, <2>1, <2>2 DEF Moved, At, Active, CreateSteps
  <2>3. CASE Moved(r, "created", a, New("remote"), {})
    BY <2>1, <2>3 DEF Moved, At, Active, CreateSteps
  <2> QED
    BY <1>13, <2>2, <2>3, AssignNewStep
<1>14. CASE Write(r) \/ Grant(r)
  BY <1>14, WriteCopyStep, GrantStep DEF Moved, Write, Grant, At, Active, CreateSteps
<1> QED
  BY <1>2, <1>3, <1>4, <1>5, <1>6, <1>7, <1>8, <1>9, <1>10, <1>11, <1>12, <1>13, <1>14
     DEF Handler, Answers

LEMMA AloneHere ==
  ASSUME TypeOK, NEW r \in Requests, Handler(r), NEW a, a = req[r].adapter, Alone(a)
  PROVE  Alone(a)'
<1>1. /\ At(r, a, Active)
      /\ At(r, a, CreateSteps)' => store'[a] # Absent
      /\ At(r, a, {"assign"})' => \A g \in Groups \ req'[r].todo : <<a, g>> \in assigned'
      /\ \A s \in Requests \ {r} : req'[s] = req[s]
  BY HandlerAlone
<1>2. ASSUME NEW s \in Requests \ {r}
      PROVE  ~At(s, a, Active)' /\ ~At(s, a, CreateSteps)' /\ ~At(s, a, {"assign"})'
  BY <1>1 DEF Alone, At, Active, CreateSteps
<1> QED
  BY <1>1, <1>2 DEF Alone

LEMMA AloneArrival ==
  ASSUME TypeOK, NEW r \in Requests, NEW a \in Adapters, Arrives(r, a),
         a \notin disturbed', a \notin raced', Alone(a)
  PROVE  Alone(a)'
<1>1. req[r].at \notin Active /\ UNCHANGED assigned
  BY NotActive DEF Arrives, grants
<1>2. CASE Refused(r, a)
  <2>1. ~At(r, a, Active)' /\ ~At(r, a, CreateSteps)' /\ ~At(r, a, {"assign"})'
        /\ UNCHANGED store
    BY <1>2 DEF Refused, Moved, At, Active, CreateSteps, DeleteSteps, Waiting, adapters
  <2>2. \A s \in Requests \ {r} : req'[s] = req[s]
    BY <1>2 DEF Refused, Moved
  <2> QED
    BY <1>1, <2>1, <2>2 DEF Alone, At
<1>3. CASE Begun(r, a) \/ Created(r, a)
  <2>1. Idle(a)
    BY <1>3 DEF Begun, Created
  <2>2. \A s \in Requests \ {r} : req'[s] = req[s]
    BY <1>3 DEF Begun, Created, Moved
  <2>3. ASSUME NEW s \in Requests \ {r}
        PROVE  ~At(s, a, Active)' /\ ~At(s, a, CreateSteps)' /\ ~At(s, a, {"assign"})'
    BY <2>1, <2>2, NotActive DEF Idle, At, Active, CreateSteps
  <2>4. ~At(r, a, {"assign"})'
    BY <1>3 DEF Begun, Created, Moved, At
  <2>5. At(r, a, CreateSteps)' => store'[a] # Absent
    BY <1>3, NewType, AbsentAssumption
       DEF Begun, Created, Written, Moved, At, CreateSteps
  <2> QED
    BY <2>3, <2>4, <2>5 DEF Alone
<1> QED
  BY <1>2, <1>3 DEF Arrives

LEMMA AloneStep ==
  ASSUME TypeOK, [Next]_vars, NEW a \in Adapters, a \notin disturbed', a \notin raced',
         a \notin disturbed /\ a \notin raced => Alone(a)
  PROVE  a \notin disturbed /\ a \notin raced /\ Alone(a)'
<1> DEFINE Goal == a \notin disturbed /\ a \notin raced /\ Alone(a)'
<1>1. ASSUME NEW r \in Requests, Handler(r) PROVE Goal
  <2>1. a \notin disturbed /\ a \notin raced
    BY <1>1, HandlerDisturbs, HandlerStep
  <2>2. CASE a = req[r].adapter
    BY <1>1, <2>1, <2>2, AloneHere
  <2>3. CASE a # req[r].adapter
    <3>1. Untouched(r, a)
      BY <1>1, <2>3, HandlerStep DEF Elsewhere
    <3> QED
      BY <2>1, <3>1, AloneElsewhere
  <2> QED
    BY <2>2, <2>3
<1>2. ASSUME NEW r \in Requests, NEW b \in Adapters, Arrival(r, b) PROVE Goal
  <2>1. Elsewhere(r) /\ Arrives(r, b)
    BY <1>2, ArrivalStep
  <2>2. CASE a = b
    <3>1. a \notin disturbed /\ a \notin raced
      BY <2>1, <2>2 DEF Arrives, Refused, Begun, Created, history
    <3> QED
      BY <2>1, <2>2, <3>1, AloneArrival
  <2>3. CASE a # b
    <3>1. req'[r].adapter = b
      BY <2>1 DEF Arrives, Refused, Begun, Created, Moved
    <3>2. Untouched(r, a)
      BY <2>1, <2>3, <3>1 DEF Elsewhere
    <3> QED
      BY <3>2, AloneElsewhere DEF Untouched
  <2> QED
    BY <2>2, <2>3
<1>3. ASSUME NEW b \in Adapters, NEW g \in Groups, RemoveAdapterFromGroup(b, g) PROVE Goal
  <2>1. /\ \A h \in Groups : a # b /\ <<a, h>> \in assigned => <<a, h>> \in assigned'
        /\ disturbed' = disturbed
        /\ raced' = IF Idle(b) THEN raced ELSE raced \cup {b}
        /\ UNCHANGED <<store, req>>
    BY <1>3, RemoveFromGroupStep
  <2>2. a = b => \A r \in Requests : ~At(r, a, Active)
    BY <2>1, NotActive DEF Idle, At
  <2>3. a = b => \A r \in Requests : ~At(r, a, {"assign"})
    BY <2>2 DEF At, Active, CreateSteps
  <2> QED
    BY <2>1, <2>3 DEF Alone, At
<1>4. CASE Restart
  <2>1. UNCHANGED <<disturbed, raced>> /\ \A r \in Requests : req'[r].at \in Waiting
    BY <1>4, RestartStep
  <2>2. \A r \in Requests : ~At(r, a, Active)' /\ ~At(r, a, CreateSteps)' /\ ~At(r, a, {"assign"})'
    BY <2>1 DEF At, Waiting, Active, CreateSteps, DeleteSteps
  <2> QED
    BY <2>1, <2>2 DEF Alone
<1>5. CASE UNCHANGED vars
  <2>1. UNCHANGED <<store, req, assigned, disturbed, raced>>
    BY <1>5 DEF vars
  <2> QED
    BY <2>1 DEF Alone, At
<1> QED
  BY <1>1, <1>2, <1>3, <1>4, <1>5 DEF Next

AloneInv == \A a \in Adapters \ (disturbed \cup raced) : Alone(a)

LEMMA AloneInit == Init => AloneInv
BY DEF Init, AloneInv, Alone, At, Active, CreateSteps, DeleteSteps

LEMMA AloneInvStep == OrderInv /\ AloneInv /\ [Next]_vars => AloneInv'
BY AloneStep DEF OrderInv, AloneInv

(***************************************************************************)
(* Answers.                                                                *)
(***************************************************************************)
LEMMA HandlerAnswers ==
  ASSUME TypeOK, NEW r \in Requests, Handler(r)
  PROVE  /\ req'[r].at = "created" => AssignNew(r) /\ req[r].todo = {} /\ UNCHANGED grants
         /\ req[r].at = "undo" => Undo(r)
         /\ req'[r].at = "deleted" => Remove(r)
<1>1. req[r].at = "undo" => Undo(r)
  BY DEF Handler, Deploy, Expose, Undeploy, MarkFailed, Discover, ProbeNew, Probe, SaveNew,
         AssignNew, Unexpose, RemoveDeployment, Remove, Write, Grant
<1> DEFINE Neither == req'[r].at # "created" /\ req'[r].at # "deleted"
<1>2. CASE Deploy(r) \/ Expose(r) \/ MarkFailed(r) \/ Discover(r) \/ Unexpose(r) \/ SaveNew(r)
           \/ Write(r) \/ Grant(r)
  <2>1. Neither
    BY <1>2, DeployStep, ExposeStep, MarkFailedStep, DiscoverStep, UnexposeStep, SaveNewStep,
       WriteCopyStep, GrantStep DEF Moved
  <2> QED
    BY <1>1, <2>1
<1>3. CASE Undeploy(r) \/ RemoveDeployment(r)
  <2>1. Goto(r, "fail") \/ Goto(r, "remove")
    BY <1>3 DEF Undeploy, RemoveDeployment
  <2>2. Neither
    BY <2>1, GotoMoves DEF Moved, Steps, CreateSteps, DeleteSteps
  <2> QED
    BY <1>1, <2>2
<1>4. CASE Undo(r)
  <2>1. Return(r, "notCreated")
    BY <1>4 DEF Undo
  <2>2. Neither
    BY <2>1, ReturnMoves DEF Moved, Steps, Waiting
  <2> QED
    BY <1>1, <2>2
<1>5. CASE Remove(r)
  <2>1. Return(r, "deleted") \/ Return(r, "notDeleted")
    BY <1>5 DEF Remove
  <2>2. req'[r].at # "created"
    BY <2>1, ReturnMoves DEF Moved, Steps, Waiting
  <2> QED
    BY <1>1, <1>5, <2>2
<1>6. ASSUME NEW answer \in Answers, ProbeNew(r, answer) \/ Probe(r, answer) PROVE Neither
  BY <1>6, ProbeNewStep, ProbeStep DEF Moved
<1>7. CASE AssignNew(r)
  BY <1>1, <1>7, AssignNewStep DEF Moved
<1> QED
  BY <1>1, <1>2, <1>3, <1>4, <1>5, <1>6, <1>7 DEF Handler, Answers

LEMMA OnlyOwnAnswers ==
  ASSUME TypeOK, [Next]_vars, NEW r \in Requests, NEW steps, NEW answer,
         steps \subseteq Active, answer \in {"created", "notCreated", "deleted"},
         Finishes(r, steps, answer)
  PROVE  Handler(r)
<1>1. req[r].at \in Active /\ Busy(r) /\ req'[r].at = answer /\ req'[r].at \notin Active
  BY NotActive DEF Finishes, Active, CreateSteps, DeleteSteps
<1>2. ASSUME NEW s \in Requests, Handler(s) PROVE s = r
  BY <1>1, <1>2, HandlerStep
<1>3. ASSUME NEW s \in Requests, NEW a \in Adapters, Arrival(s, a) PROVE FALSE
  BY <1>1, <1>3, ArrivalStep DEF Arrives, Refused, Begun, Created, Moved
<1>4. ASSUME NEW a \in Adapters, NEW g \in Groups, RemoveAdapterFromGroup(a, g) PROVE FALSE
  BY <1>1, <1>4, RemoveFromGroupStep
<1>5. CASE Restart
  <2>1. req'[r].at = "idle"
    BY <1>1, <1>5 DEF Restart, TypeOK, Request
  <2> QED
    BY <1>1, <2>1
<1>6. CASE UNCHANGED vars
  BY <1>1, <1>6 DEF vars
<1> QED
  BY <1>2, <1>3, <1>4, <1>5, <1>6 DEF Next

LEMMA AnswersStep ==
  ASSUME OrderInv, AloneInv, [Next]_vars, NEW r \in Requests, NEW a \in Adapters \ disturbed',
         req[r].adapter = a
  PROVE  /\ Finishes(r, CreateSteps, "created") /\ a \notin raced' =>
              /\ store'[a] # Absent
              /\ IsSidecar(a)' => a \in deployments' \cap services'
              /\ {a} \X Groups \subseteq assigned'
         /\ Finishes(r, {"undo"}, "notCreated") \/ Finishes(r, DeleteSteps, "deleted") =>
              store'[a] = Absent /\ a \notin deployments' \cup services'
<1>1. ASSUME Finishes(r, CreateSteps, "created"), a \notin raced'
      PROVE  /\ store'[a] # Absent
             /\ IsSidecar(a)' => a \in deployments' \cap services'
             /\ {a} \X Groups \subseteq assigned'
  <2>1. Handler(r)
    BY <1>1, OnlyOwnAnswers DEF OrderInv, Active
  <2>2. AssignNew(r) /\ req[r].todo = {} /\ UNCHANGED grants
    BY <1>1, <2>1, HandlerAnswers DEF OrderInv, Finishes
  <2>3. Alone(a) /\ Orderly(a)
    BY <1>1, <2>1, HandlerDisturbs, HandlerStep DEF OrderInv, AloneInv
  <2>4. UNCHANGED <<store, deployments, services, assigned>> /\ At(r, a, {"assign"})
        /\ At(r, a, CreateSteps) /\ At(r, a, Active) /\ At(r, a, Closing)
    BY <2>2 DEF AssignNew, adapters, cluster, grants, At, CreateSteps, Active, Closing
  <2>5. store[a] # Absent /\ \A g \in Groups : <<a, g>> \in assigned
    BY <2>2, <2>3, <2>4 DEF Alone
  <2>6. ~Deleting(a)
    <3>1. ASSUME NEW s \in Requests, At(s, a, DeleteSteps) PROVE FALSE
      <4>1. At(s, a, Active)
        BY <3>1 DEF At, Active
      <4>2. s = r
        BY <2>3, <2>4, <4>1 DEF Alone
      <4> QED
        BY <2>4, <3>1, <4>2 DEF At, CreateSteps, DeleteSteps
    <3> QED
      BY <3>1 DEF Deleting
  <2>7. IsSidecar(a) => Running(a)
    BY <2>3, <2>4, <2>6 DEF Orderly, Placed
  <2> QED
    BY <2>4, <2>5, <2>7 DEF IsSidecar, Running
<1>2. ASSUME Finishes(r, {"undo"}, "notCreated") \/ Finishes(r, DeleteSteps, "deleted")
      PROVE  store'[a] = Absent /\ a \notin deployments' \cup services'
  <2>1. Handler(r)
    BY <1>2, OnlyOwnAnswers DEF OrderInv, Active, CreateSteps
  <2>2. Undo(r) \/ Remove(r)
    BY <1>2, <2>1, HandlerAnswers DEF OrderInv, Finishes
  <2>3. Orderly(a)
    BY <2>1, HandlerDisturbs DEF OrderInv
  <2>4. At(r, a, {"deploy", "fail", "undo", "remove"}) /\ UNCHANGED <<deployments, services>>
    BY <2>2 DEF Undo, Remove, At, cluster
  <2>5. store'[a] = Absent
    BY <2>2 DEF Undo, Remove, Drop, Put, OrderInv, TypeOK
  <2> QED
    BY <2>3, <2>4, <2>5 DEF Orderly, Placed
<1> QED
  BY <1>1, <1>2

\* CreateAdapter and DeleteAdapter answer the truth, beside any other requests, with
\* a cluster that refuses calls, saves that fail and a process that is killed in
\* between: what is answered as created is stored, deployed and assigned, what is
\* answered as deleted, or was undone, is gone from the store and from the cluster.
THEOREM TrueAnswers == Spec => AnswersAreTrue
<1>1. Init => OrderInv /\ AloneInv
  BY OrderInit, AloneInit
<1>2. OrderInv /\ AloneInv /\ [Next]_vars => (OrderInv /\ AloneInv)'
  BY OrderStep, AloneInvStep
<1>3. OrderInv /\ AloneInv /\ [Next]_vars =>
        [\A r \in Requests, a \in Adapters \ disturbed' :
           req[r].adapter = a =>
              /\ Finishes(r, CreateSteps, "created") /\ a \notin raced' =>
                    /\ store[a]' # Absent
                    /\ IsSidecar(a)' => a \in deployments' \cap services'
                    /\ {a} \X Groups \subseteq assigned'
              /\ Finishes(r, {"undo"}, "notCreated") \/ Finishes(r, DeleteSteps, "deleted") =>
                    store[a]' = Absent /\ a \notin deployments' \cup services']_vars
  BY AnswersStep
<1> QED
  BY <1>1, <1>2, <1>3, PTL DEF Spec, AnswersAreTrue

-----------------------------------------------------------------------------
(***************************************************************************)
(* Sidecars without requests.  Where nothing disturbed the adapter and no  *)
(* request died with the process, a stored sidecar that no creation is     *)
(* still deploying, and no deletion is taking away, runs; or its creation  *)
(* ended in a panic, and then no copy of it has another status, neither a  *)
(* request's nor the file's, so that nothing ever writes one.              *)
(***************************************************************************)
LeavingSteps == {"deploy", "expose", "undeploy", "fail", "undo"} \cup DeleteSteps

Leaving(a) == \E r \in Requests : At(r, a, LeavingSteps)

Stillborn(a) ==
  /\ store[a].status = "not_ready" /\ storeFile[a].status = "not_ready"
  /\ \A r \in Requests :
       At(r, a, Active) => req[r].copy.status = "not_ready" /\ req[r].at \notin CreateSteps

Settled(a) == IsSidecar(a) /\ ~Leaving(a) => Running(a) \/ Stillborn(a)

LEMMA SettledElsewhere ==
  ASSUME TypeOK, NEW r \in Requests, NEW a \in Adapters, Untouched(r, a), Settled(a)
  PROVE  Settled(a)'
<1>1. ASSUME NEW s \in Requests, At(s, a, Active)' PROVE s # r /\ req'[s] = req[s]
  BY <1>1 DEF Untouched
<1>2. ASSUME NEW s \in Requests, At(s, a, LeavingSteps) PROVE At(s, a, LeavingSteps)'
  <2>1. s # r
    BY <1>2 DEF Untouched, At, LeavingSteps, Active, CreateSteps
  <2> QED
    BY <1>2, <2>1 DEF Untouched, At
<1>3. Leaving(a) => Leaving(a)'
  BY <1>2 DEF Leaving
<1>4. Stillborn(a) => Stillborn(a)'
  BY <1>1 DEF Stillborn, Untouched, At
<1> QED
  BY <1>3, <1>4 DEF Settled, Untouched, IsSidecar, Running

(* A step of r on a after which a sidecar is stored and no request leaving. *)
LEMMA SettledWrite ==
  ASSUME TypeOK, NEW r \in Requests, NEW a, a = req[r].adapter, Orderly(a), Orderly(a)', Settled(a),
         req[r].at \in Active \ LeavingSteps,
         NEW step, NEW copy, NEW todo, Moved(r, step, a, copy, todo),
         step \in Closing \cup Waiting,
         \/ UNCHANGED adapters
         \/ store[a] # Absent /\ \E v \in Adapter :
               /\ v.kind = req[r].copy.kind
               /\ req[r].copy.status = "not_ready" /\ req[r].at \notin CreateSteps
                    => v.status = "not_ready"
               /\ Written(a, v),
         req[r].at \in CreateSteps \/ step \in Waiting,
         UNCHANGED <<deployments, services>>
  PROVE  Settled(a)'
<1> SUFFICES ASSUME IsSidecar(a)', ~Leaving(a)'
             PROVE  Running(a)' \/ Stillborn(a)'
  BY DEF Settled
<1>1. a \in Adapters /\ At(r, a, Active)
  BY DEF TypeOK, Request, At
<1>2. ~Leaving(a)
  <2>1. ASSUME NEW s \in Requests, At(s, a, LeavingSteps) PROVE At(s, a, LeavingSteps)'
    BY <2>1 DEF At, Moved
  <2> QED
    BY <2>1 DEF Leaving
<1>3. IsSidecar(a)
  BY <1>1 DEF IsSidecar, adapters, Written, Orderly, Placed
<1>4. Running(a) \/ Stillborn(a)
  BY <1>2, <1>3 DEF Settled
<1>5. CASE Running(a)
  BY <1>5 DEF Running
<1>6. CASE Stillborn(a)
  <2>1. req[r].copy.status = "not_ready" /\ req[r].at \notin CreateSteps /\ step \in Waiting
    BY <1>1, <1>6 DEF Stillborn
  <2>2. store'[a].status = "not_ready" /\ storeFile'[a].status = "not_ready"
    BY <1>1, <1>6, <2>1 DEF Stillborn, adapters, Written
  <2>3. ~At(r, a, Active)'
    BY <2>1 DEF Moved, At, Active, Waiting, CreateSteps, DeleteSteps
  <2>4. \A s \in Requests \ {r} : req'[s] = req[s]
    BY DEF Moved
  <2> QED
    BY <1>6, <2>2, <2>3, <2>4 DEF Stillborn, At
<1> QED
  BY <1>4, <1>5, <1>6

LEMMA HandlerSettled ==
  ASSUME TypeOK, NEW r \in Requests, Handler(r), NEW a, a = req[r].adapter,
         a \notin disturbed', Orderly(a), Settled(a)
  PROVE  Settled(a)'
<1>1. a \in Adapters /\ req[r].copy \in Adapter /\ Orderly(a)'
  BY HandlerOrderly DEF TypeOK, Request
<1>2. CASE Deploy(r)
  <2>1. At(r, a, LeavingSteps)'
    BY <1>2, DeployStep DEF Moved, At, LeavingSteps
  <2> QED
    BY <2>1 DEF Settled, Leaving
<1>3. CASE Expose(r)
  <2>1. At(r, a, LeavingSteps)' \/ (At(r, a, Closing)' /\ UNCHANGED deployments)
    BY <1>3, ExposeStep DEF Moved, At, LeavingSteps, Closing, Expose
  <2>2. Deleting(a)' => Leaving(a)'
    BY DEF Deleting, Leaving, At, LeavingSteps
  <2> QED
    BY <1>1, <2>1, <2>2 DEF Settled, Leaving, Orderly, Placed
<1>4. CASE Undeploy(r) \/ RemoveDeployment(r)
  <2>1. Goto(r, "fail") \/ Goto(r, "remove")
    BY <1>4 DEF Undeploy, RemoveDeployment
  <2>2. At(r, a, LeavingSteps)'
    BY <2>1, GotoMoves DEF Moved, At, LeavingSteps, Steps, CreateSteps, DeleteSteps
  <2> QED
    BY <2>2 DEF Settled, Leaving
<1>5. CASE Unexpose(r) \/ MarkFailed(r)
  <2>1. At(r, a, LeavingSteps)'
    BY <1>5, UnexposeStep, MarkFailedStep DEF Moved, At, LeavingSteps, DeleteSteps
  <2> QED
    BY <2>1 DEF Settled, Leaving
<1>6. CASE Undo(r) \/ Remove(r)
  <2>1. store'[a] = Absent
    BY <1>1, <1>6 DEF Undo, Remove, Drop, Put, TypeOK
  <2> QED
    BY <2>1 DEF Settled, IsSidecar
<1>7. CASE Discover(r)
  <2>1. /\ req[r].at \in Active \ LeavingSteps /\ req[r].at \in CreateSteps
        /\ "probeNew" \in Closing \cup Waiting
        /\ UNCHANGED <<deployments, services>> /\ UNCHANGED adapters
    BY <1>7 DEF Discover, cluster, Closing, Active, CreateSteps, DeleteSteps, LeavingSteps
  <2>2. Moved(r, "probeNew", a, [req[r].copy EXCEPT !.status = "ready"], req[r].todo)
    BY <1>7, DiscoverStep
  <2> QED
    BY <1>1, <2>1, <2>2, SettledWrite
<1>8. ASSUME NEW answer \in Answers, ProbeNew(r, answer) \/ Probe(r, answer)
      PROVE  Settled(a)'
  <2> DEFINE new == [req[r].copy EXCEPT !.status = StatusAfter(req[r].copy.status, answer)]
  <2>1. /\ req[r].at \in Active \ LeavingSteps
        /\ UNCHANGED <<deployments, services>>
        /\ "save" \in Closing \cup Waiting /\ "done" \in Closing \cup Waiting /\ "done" \in Waiting
    BY <1>8 DEF ProbeNew, Probe, cluster, Waiting, Closing, Active, CreateSteps, DeleteSteps,
                LeavingSteps
  <2>2. new \in Adapter /\ new.kind = req[r].copy.kind
        /\ (req[r].copy.status = "not_ready" => new.status = "not_ready")
    BY <1>1, StatusAfterType DEF Adapter, Answers
  <2>3. Checked(r, answer)
    BY <1>8, ProbeNewStep, ProbeStep
  <2>4. \/ UNCHANGED adapters
        \/ store[a] # Absent /\ \E v \in Adapter :
              /\ v.kind = req[r].copy.kind
              /\ req[r].copy.status = "not_ready" /\ req[r].at \notin CreateSteps
                   => v.status = "not_ready"
              /\ Written(a, v)
    BY <2>2, <2>3 DEF Checked
  <2>5. CASE ProbeNew(r, answer)
    <3>1. Moved(r, "save", a, new, req[r].todo) /\ req[r].at \in CreateSteps
      BY <2>5, ProbeNewStep DEF ProbeNew, CreateSteps
    <3> HIDE DEF new
    <3> QED
      BY <1>1, <2>1, <2>4, <3>1, SettledWrite
  <2>6. CASE Probe(r, answer)
    <3>1. Moved(r, "done", a, New("remote"), {})
      BY <2>6, ProbeStep
    <3> QED
      BY <1>1, <2>1, <2>4, <3>1, SettledWrite
  <2> QED
    BY <1>8, <2>5, <2>6
<1>9. CASE SaveNew(r)
  <2>1. /\ req[r].at \in Active \ LeavingSteps /\ req[r].at \in CreateSteps
        /\ UNCHANGED <<deployments, services>>
        /\ "assign" \in Closing \cup Waiting /\ "notCreated" \in Closing \cup Waiting
    BY <1>9 DEF SaveNew, cluster, Waiting, Closing, Active, CreateSteps, DeleteSteps, LeavingSteps
  <2>2. /\ \/ UNCHANGED adapters
           \/ store[a] # Absent /\ \E v \in Adapter :
                 /\ v.kind = req[r].copy.kind
                 /\ req[r].copy.status = "not_ready" /\ req[r].at \notin CreateSteps
                      => v.status = "not_ready"
                 /\ Written(a, v)
        /\ \/ Moved(r, "assign", a, req[r].copy, Groups)
           \/ Moved(r, "notCreated", a, New("remote"), {})
    BY <1>1, <1>9, <2>1, SaveNewStep
  <2>3. CASE Moved(r, "assign", a, req[r].copy, Groups)
    BY <1>1, <2>1, <2>2, <2>3, SettledWrite
  <2>4. CASE Moved(r, "notCreated", a, New("remote"), {})
    BY <1>1, <2>1, <2>2, <2>4, SettledWrite
  <2> QED
    BY <2>2, <2>3, <2>4
<1>10. CASE AssignNew(r)
  <2>1. /\ req[r].at \in Active \ LeavingSteps /\ req[r].at \in CreateSteps
        /\ UNCHANGED <<deployments, services>> /\ UNCHANGED adapters
        /\ "assign" \in Closing \cup Waiting /\ "created" \in Closing \cup Waiting
    BY <1>10 DEF AssignNew, cluster, Waiting, Closing, Active, CreateSteps, DeleteSteps,
                 LeavingSteps
  <2>2. ASSUME NEW g \in req[r].todo, Moved(r, "assign", a, req[r].copy, req[r].todo \ {g})
        PROVE  Settled(a)'
    BY <1>1, <2>1, <2>2, SettledWrite
  <2>3. CASE Moved(r, "created", a, New("remote"), {})
    BY <1>1, <2>1, <2>3, SettledWrite
  <2> QED
    BY <1>10, <2>2, <2>3, AssignNewStep
<1>11. CASE Write(r) \/ Grant(r)
  <2>1. /\ req[r].at \in Active \ LeavingSteps
        /\ UNCHANGED <<deployments, services>>
        /\ "done" \in Closing \cup Waiting /\ "done" \in Waiting
    BY <1>11 DEF Write, Grant, cluster, Waiting, Active, CreateSteps, DeleteSteps, LeavingSteps
  <2>2. \/ UNCHANGED adapters
        \/ store[a] # Absent /\ \E v \in Adapter :
              /\ v.kind = req[r].copy.kind
              /\ req[r].copy.status = "not_ready" /\ req[r].at \notin CreateSteps
                   => v.status = "not_ready"
              /\ Written(a, v)
    BY <1>1, <1>11, WriteCopyStep DEF Grant
  <2>3. Moved(r, "done", a, New("remote"), {})
    BY <1>11, WriteCopyStep, GrantStep
  <2> QED
    BY <1>1, <2>1, <2>2, <2>3, SettledWrite
<1> QED
  BY <1>2, <1>3, <1>4, <1>5, <1>6, <1>7, <1>8, <1>9, <1>10, <1>11 DEF Handler, Answers

LEMMA ArrivalSettled ==
  ASSUME TypeOK, NEW r \in Requests, NEW a \in Adapters, Arrives(r, a),
         a \notin disturbed', Orderly(a), Settled(a)
  PROVE  Settled(a)'
<1>1. req[r].at \notin Active /\ UNCHANGED <<deployments, services>>
  BY NotActive DEF Arrives, cluster
<1>2. CASE Refused(r, a) \/ Begun(r, a)
  <2>1. UNCHANGED <<store, storeFile>> /\ \A s \in Requests \ {r} : req'[s] = req[s]
    BY <1>2 DEF Refused, Begun, Moved, adapters
  <2>2. ASSUME NEW s \in Requests, At(s, a, LeavingSteps) PROVE At(s, a, LeavingSteps)'
    BY <1>1, <2>1, <2>2 DEF At, LeavingSteps, Active, CreateSteps
  <2>3. Leaving(a) => Leaving(a)'
    BY <2>2 DEF Leaving
  <2>4. At(r, a, Active)' => At(r, a, LeavingSteps)' \/
          (req'[r].copy = store[a] /\ req'[r].at \notin CreateSteps)
    BY <1>2 DEF Refused, Begun, Moved, At, Active, LeavingSteps, Waiting, CreateSteps, DeleteSteps
  <2>5. Stillborn(a) => Stillborn(a)' \/ Leaving(a)'
    BY <2>1, <2>4 DEF Stillborn, Leaving, At
  <2> QED
    BY <1>1, <2>1, <2>3, <2>5 DEF Settled, IsSidecar, Running
<1>3. CASE Created(r, a)
  <2>1. PICK kind \in {"sidecar", "remote"}, step \in {"save", "fail", "panicked", "deploy", "undo"} :
           /\ Written(a, New(kind)) /\ storeFile'[a] = New(kind)
           /\ step = "save" => kind = "remote"
           /\ step \in {"fail", "panicked", "deploy"} => kind = "sidecar"
           /\ Moved(r, step, a, New(IF step \in Waiting THEN "remote" ELSE kind), {})
    BY <1>3 DEF Created
  <2>2. CASE step \in {"fail", "deploy", "undo"}
    <3>1. At(r, a, LeavingSteps)'
      BY <2>1, <2>2 DEF Moved, At, LeavingSteps
    <3> QED
      BY <3>1 DEF Settled, Leaving
  <2>3. CASE step = "save"
    <3>1. store'[a].kind = "remote"
      BY <2>1, <2>3, NewType DEF Written
    <3> QED
      BY <3>1 DEF Settled, IsSidecar
  <2>4. CASE step = "panicked"
    <3>1. store'[a].status = "not_ready" /\ storeFile'[a].status = "not_ready"
      BY <2>1, <2>4, NewType DEF Written
    <3>2. ASSUME NEW s \in Requests PROVE ~At(s, a, Active)'
      <4>1. s = r => ~At(s, a, Active)'
        BY <2>1, <2>4 DEF Moved, At, Active, CreateSteps, DeleteSteps
      <4>2. s # r => req'[s] = req[s] /\ ~(req[s].adapter = a /\ Busy(s))
        BY <1>3, <2>1 DEF Moved, Created, Idle
      <4> QED
        BY <4>1, <4>2, NotActive DEF At
    <3> QED
      BY <3>1, <3>2 DEF Settled, Stillborn
  <2> QED
    BY <2>2, <2>3, <2>4
<1> QED
  BY <1>2, <1>3 DEF Arrives

LEMMA SettledStep ==
  ASSUME OrderInv, [Next]_vars, NEW a \in Adapters, a \notin disturbed', a \notin killed',
         a \notin disturbed /\ a \notin killed => Settled(a)
  PROVE  a \notin disturbed /\ a \notin killed /\ Settled(a)'
<1> DEFINE Goal == a \notin disturbed /\ a \notin killed /\ Settled(a)'
<1> USE DEF OrderInv
<1>1. ASSUME NEW r \in Requests, Handler(r) PROVE Goal
  <2>1. a \notin disturbed /\ a \notin killed
    BY <1>1, HandlerDisturbs, HandlerStep
  <2>2. CASE a = req[r].adapter
    BY <1>1, <2>1, <2>2, HandlerSettled
  <2>3. CASE a # req[r].adapter
    <3>1. Untouched(r, a)
      BY <1>1, <2>3, HandlerStep DEF Elsewhere
    <3> QED
      BY <2>1, <3>1, SettledElsewhere
  <2> QED
    BY <2>2, <2>3
<1>2. ASSUME NEW r \in Requests, NEW b \in Adapters, Arrival(r, b) PROVE Goal
  <2>1. Elsewhere(r) /\ Arrives(r, b)
    BY <1>2, ArrivalStep
  <2>2. CASE a = b
    <3>1. a \notin disturbed /\ a \notin killed
      BY <2>1, <2>2 DEF Arrives, Refused, Begun, Created, history
    <3> QED
      BY <2>1, <2>2, <3>1, ArrivalSettled
  <2>3. CASE a # b
    <3>1. req'[r].adapter = b
      BY <2>1 DEF Arrives, Refused, Begun, Created, Moved
    <3>2. Untouched(r, a)
      BY <2>1, <2>3, <3>1 DEF Elsewhere
    <3> QED
      BY <3>2, SettledElsewhere DEF Untouched
  <2> QED
    BY <2>2, <2>3
<1>3. ASSUME NEW b \in Adapters, NEW g \in Groups, RemoveAdapterFromGroup(b, g) PROVE Goal
  <2>1. UNCHANGED <<store, storeFile, deployments, services, req, killed>>
        /\ disturbed' = disturbed
    BY <1>3, RemoveFromGroupStep
  <2> QED
    BY <2>1 DEF Settled, Stillborn, Leaving, Running, IsSidecar, At
<1>4. CASE Restart
  <2>1. /\ store' = storeFile
        /\ UNCHANGED <<storeFile, deployments, services, disturbed>>
        /\ \A r \in Requests : req'[r].at \in Waiting
        /\ \A r \in Requests : Busy(r) => req[r].adapter # a
        /\ a \notin disturbed /\ a \notin killed
    BY <1>4, RestartStep
  <2>2. ~Leaving(a)
    <3>1. ASSUME NEW r \in Requests PROVE ~At(r, a, LeavingSteps)
      <4>1. req[r].adapter = a => req[r].at \notin Active
        BY <2>1, NotActive
      <4> QED
        BY <4>1 DEF At, LeavingSteps, Active, CreateSteps
    <3> QED
      BY <3>1 DEF Leaving
  <2>3. IsSidecar(a)' => IsSidecar(a)
    BY <2>1 DEF Orderly, Kept, IsSidecar
  <2>4. Stillborn(a) => Stillborn(a)'
    BY <2>1 DEF Stillborn, At, Active, Waiting, CreateSteps, DeleteSteps
  <2> QED
    BY <2>1, <2>2, <2>3, <2>4 DEF Settled, Running
<1>5. CASE UNCHANGED vars
  <2>1. UNCHANGED <<store, storeFile, deployments, services, req, disturbed, killed>>
    BY <1>5 DEF vars
  <2> QED
    BY <2>1 DEF Settled, Stillborn, Leaving, Running, IsSidecar, At
<1> QED
  BY <1>1, <1>2, <1>3, <1>4, <1>5 DEF Next

SettledInv == \A a \in Adapters \ (disturbed \cup killed) : Settled(a)

\* CreateAdapter, CheckAdapterHealth and the others that write a status: an adapter
\* that tells of a running sidecar has the Deployment and the Service, unless its
\* request died with the process or something disturbed it.
THEOREM ReadyMeansDeployed == Spec => []ReadyHasSidecar
<1>1. Init => SettledInv
  BY DEF Init, SettledInv, Settled, IsSidecar
<1>2. OrderInv /\ SettledInv /\ [Next]_vars => SettledInv'
  BY SettledStep DEF SettledInv
<1>3. OrderInv /\ SettledInv => ReadyHasSidecar
  <2> SUFFICES ASSUME OrderInv, SettledInv, NEW a \in Adapters \ (disturbed \cup killed),
                      Idle(a), IsSidecar(a), store[a].status # "not_ready"
               PROVE  a \in deployments \cap services
    BY DEF ReadyHasSidecar
  <2>1. ~Leaving(a)
    <3>1. ASSUME NEW r \in Requests PROVE ~At(r, a, LeavingSteps)
      <4>1. req[r].adapter = a => req[r].at \notin Active
        BY NotActive DEF OrderInv, Idle
      <4> QED
        BY <4>1 DEF At, LeavingSteps, Active, CreateSteps
    <3> QED
      BY <3>1 DEF Leaving
  <2> QED
    BY <2>1 DEF SettledInv, Settled, Stillborn, Running
<1> QED
  BY <1>1, <1>2, <1>3, OrderInit, OrderStep, PTL DEF Spec

-----------------------------------------------------------------------------
(***************************************************************************)
(* Statuses.  Where requests on the adapter follow each other, the status  *)
(* that is stored, the one of a copy about to be written back and the one  *)
(* in the file each tell of the last answer, or of none yet.               *)
(***************************************************************************)
Follows(status, a) == status # "not_ready" => (status = "error" <=> probe[a] = "unhealthy")

Early == {"deploy", "expose", "undeploy", "fail", "discover"}

Told(r, a) ==
  /\ At(r, a, Early) => /\ store[a].status = "not_ready" /\ req[r].copy.status = "not_ready"
                        /\ probe[a] = "none"
  /\ At(r, a, {"probeNew"}) => /\ store[a].status = "not_ready" /\ req[r].copy.status = "ready"
                               /\ probe[a] = "none"
  /\ At(r, a, {"save"}) => /\ req[r].copy.status # "not_ready" /\ Follows(req[r].copy.status, a)
                           /\ store[a].status \in {"not_ready", req[r].copy.status}
  /\ At(r, a, {"probe", "write"}) => req[r].copy = store[a]

Truthful(a) ==
  IsSidecar(a) =>
    /\ storeFile[a].status \in {"not_ready", store[a].status}
    /\ (\A r \in Requests : ~At(r, a, {"undo"})) => Follows(store[a].status, a)
    /\ \A r \in Requests : Told(r, a)

LEMMA PlacesActive ==
  ASSUME NEW r \in Requests, NEW a
  PROVE  At(r, a, Early) \/ At(r, a, {"undo"}) \/ At(r, a, {"probeNew"}) \/ At(r, a, {"save"})
           \/ At(r, a, {"probe", "write"}) => At(r, a, Active)
BY DEF At, Early, Active, CreateSteps

LEMMA PlacesActiveThen ==
  ASSUME NEW r \in Requests, NEW a
  PROVE  At(r, a, Early)' \/ At(r, a, {"undo"})' \/ At(r, a, {"probeNew"})' \/ At(r, a, {"save"})'
           \/ At(r, a, {"probe", "write"})' => At(r, a, Active)'
BY DEF At, Early, Active, CreateSteps

LEMMA TruthfulElsewhere ==
  ASSUME TypeOK, NEW r \in Requests, NEW a \in Adapters, Untouched(r, a), Truthful(a)
  PROVE  Truthful(a)'
<1> SUFFICES ASSUME IsSidecar(a)'
             PROVE  /\ storeFile'[a].status \in {"not_ready", store'[a].status}
                    /\ (\A s \in Requests : ~At(s, a, {"undo"})') => Follows(store[a].status, a)'
                    /\ \A s \in Requests : Told(s, a)'
  BY DEF Truthful
<1>1. IsSidecar(a) /\ store'[a] = store[a] /\ probe'[a] = probe[a]
  BY DEF Untouched, IsSidecar
<1>2. storeFile'[a].status \in {"not_ready", store'[a].status}
  BY <1>1 DEF Truthful, Untouched
<1>3. ASSUME NEW s \in Requests PROVE At(s, a, {"undo"}) => At(s, a, {"undo"})'
  BY PlacesActive DEF Untouched, At
<1>4. ASSUME NEW s \in Requests PROVE Told(s, a)'
  <2>1. CASE s = r
    BY <2>1, PlacesActiveThen DEF Untouched, Told
  <2>2. CASE s # r
    BY <1>1, <2>2 DEF Truthful, Untouched, Told, At, Follows
  <2> QED
    BY <2>1, <2>2
<1> QED
  BY <1>1, <1>2, <1>3, <1>4 DEF Truthful, Follows

(* What remains to be shown of the only request that works on a. *)
LEMMA TruthfulAlone ==
  ASSUME NEW r \in Requests, NEW a,
         \A s \in Requests \ {r} : ~At(s, a, Active)',
         IsSidecar(a)' =>
           /\ storeFile'[a].status \in {"not_ready", store'[a].status}
           /\ ~At(r, a, {"undo"})' => Follows(store[a].status, a)'
           /\ Told(r, a)'
  PROVE  Truthful(a)'
<1>1. ASSUME NEW s \in Requests \ {r} PROVE Told(s, a)'
  BY PlacesActiveThen DEF Told
<1> QED
  BY <1>1 DEF Truthful

(* What an answer makes of the status of a copy. *)
LEMMA AnswerFollows ==
  ASSUME TypeOK, NEW a \in Adapters, NEW copy \in Adapter, NEW answer \in Answers,
         CheckHealth(a, copy, answer),
         copy.status # "not_ready" => (copy.status = "error" <=> probe[a] = "unhealthy")
  PROVE  /\ copy.status = "not_ready" <=> StatusAfter(copy.status, answer) = "not_ready"
         /\ StatusAfter(copy.status, answer) # "not_ready" =>
              (StatusAfter(copy.status, answer) = "error" <=> probe'[a] = "unhealthy")
<1>1. probe' = IF answer = "unreachable" THEN probe ELSE [probe EXCEPT ![a] = answer]
  BY DEF CheckHealth
<1>2. copy.status \in {"not_ready", "ready", "error"}
  BY DEF Adapter
<1>3. probe'[a] = IF answer = "unreachable" THEN probe[a] ELSE answer
  BY <1>1 DEF TypeOK
<1> QED
  BY <1>2, <1>3, StatusAfterType DEF Answers

LEMMA HandlerTruthful ==
  ASSUME TypeOK, NEW r \in Requests, Handler(r), NEW a, a = req[r].adapter,
         a \notin disturbed', Orderly(a), Alone(a), Truthful(a)
  PROVE  Truthful(a)'
<1> DEFINE Goal == /\ storeFile'[a].status \in {"not_ready", store'[a].status}
                   /\ ~At(r, a, {"undo"})' => Follows(store[a].status, a)'
                   /\ Told(r, a)'
<1> SUFFICES ASSUME IsSidecar(a)' PROVE Goal
  <2>1. \A s \in Requests \ {r} : ~At(s, a, Active)'
    BY HandlerAlone DEF Alone, At
  <2> QED
    BY <2>1, TruthfulAlone
<1>1. /\ a \in Adapters /\ req[r].copy \in Adapter /\ At(r, a, Active)
      /\ (req[r].at \in CreateSteps => store[a] # Absent)
  BY HandlerAlone DEF TypeOK, Request, Alone, At
<1>2. \A s \in Requests \ {r} : ~At(s, a, {"undo"})
  BY <1>1, PlacesActive DEF Alone
<1>3. IsSidecar(a) =>
        /\ storeFile[a].status \in {"not_ready", store[a].status}
        /\ req[r].at # "undo" => Follows(store[a].status, a)
        /\ Told(r, a)
  BY <1>2 DEF Truthful, At
(* A step that leaves the store, the copy and the last answer alone. *)
<1>4. ASSUME NEW step, Moved(r, step, a, req[r].copy, req[r].todo), UNCHANGED adapters,
             UNCHANGED probe, req[r].at # "undo",
             step \in Early => req[r].at \in Early,
             step \notin {"probeNew", "save", "probe", "write"}
      PROVE  Goal
  <2>1. IsSidecar(a) /\ store'[a] = store[a] /\ storeFile'[a] = storeFile[a] /\ probe'[a] = probe[a]
    BY <1>4 DEF adapters, IsSidecar
  <2> QED
    BY <1>1, <1>3, <1>4, <2>1 DEF Told, Moved, At, Follows
<1>5. ASSUME NEW step \in Waiting, NEW copy, NEW todo, Moved(r, step, a, copy, todo),
             UNCHANGED adapters, UNCHANGED probe, req[r].at # "undo"
      PROVE  Goal
  <2>1. IsSidecar(a) /\ store'[a] = store[a] /\ storeFile'[a] = storeFile[a] /\ probe'[a] = probe[a]
    BY <1>5 DEF adapters, IsSidecar
  <2>2. Told(r, a)'
    BY <1>5 DEF Told, Moved, At, Early, Waiting
  <2> QED
    BY <1>3, <1>5, <2>1, <2>2 DEF Follows
<1>6. CASE Deploy(r) \/ Expose(r)
  <2>1. PICK step \in {"expose", "fail", "discover", "undeploy"} :
          Moved(r, step, a, req[r].copy, req[r].todo)
    BY <1>6, DeployStep, ExposeStep
  <2>2. UNCHANGED adapters /\ UNCHANGED probe /\ req[r].at \in {"deploy", "expose"}
    BY <1>6 DEF Deploy, Expose, Lapse
  <2> QED
    BY <1>4, <2>1, <2>2 DEF Early
<1>7. CASE Undeploy(r) \/ RemoveDeployment(r) \/ Unexpose(r)
  <2>1. PICK step \in {"fail", "remove", "removeDeployment"} :
          /\ Goto(r, step) /\ (step = "fail" => req[r].at = "undeploy")
          /\ UNCHANGED adapters /\ UNCHANGED probe /\ req[r].at # "undo"
    BY <1>7 DEF Undeploy, RemoveDeployment, Unexpose, DeleteDeployment, Lapse
  <2>2. Moved(r, step, a, req[r].copy, req[r].todo)
    BY <2>1, GotoMoves DEF Steps, CreateSteps, DeleteSteps
  <2> QED
    BY <1>4, <2>1, <2>2 DEF Early
<1>8. CASE MarkFailed(r)
  <2>1. req[r].at = "fail" /\ store[a] # Absent /\ At(r, a, Early)
    BY <1>1, <1>8 DEF MarkFailed, CreateSteps, At, Early
  <2>2. /\ Moved(r, "undo", a, req[r].copy, req[r].todo)
        /\ Written(a, [req[r].copy EXCEPT !.status = "error"])
    BY <1>8, <2>1, MarkFailedStep
  <2>3. IsSidecar(a)
    BY <1>1, <2>1, <2>2 DEF IsSidecar, Written, Adapter, Orderly, Placed
  <2>4. storeFile'[a].status \in {"not_ready", store'[a].status}
    BY <1>1, <1>3, <2>1, <2>2, <2>3 DEF Written, Told, Adapter
  <2>5. At(r, a, {"undo"})' /\ Told(r, a)'
    BY <2>2 DEF Moved, At, Told, Early
  <2> QED
    BY <2>4, <2>5
<1>9. CASE Undo(r) \/ Remove(r)
  <2>1. store'[a] = Absent
    BY <1>1, <1>9 DEF Undo, Remove, Drop, Put, TypeOK
  <2> QED
    BY <2>1 DEF IsSidecar
<1>10. CASE Discover(r)
  <2>1. req[r].at = "discover" /\ At(r, a, Early) /\ UNCHANGED adapters /\ UNCHANGED probe
    BY <1>10 DEF Discover, At, Early, history
  <2>2. Moved(r, "probeNew", a, [req[r].copy EXCEPT !.status = "ready"], req[r].todo)
    BY <1>10, DiscoverStep
  <2>3. IsSidecar(a) /\ store'[a] = store[a] /\ storeFile'[a] = storeFile[a] /\ probe'[a] = probe[a]
    BY <2>1 DEF adapters, IsSidecar
  <2>4. Told(r, a)'
    BY <1>1, <1>3, <2>1, <2>2, <2>3 DEF Told, Moved, At, Early, Adapter
  <2> QED
    BY <1>3, <2>1, <2>3, <2>4 DEF Follows
<1>11. CASE SaveNew(r)
  <2>1. req[r].at = "save" /\ store[a] # Absent /\ At(r, a, {"save"}) /\ probe' = probe
    BY <1>1, <1>11 DEF SaveNew, CreateSteps, At, history
  <2>2. /\ Written(a, req[r].copy)
        /\ req'[r].at \in {"assign", "notCreated"}
    BY <1>11, <2>1, SaveNewStep DEF Moved
  <2>3. IsSidecar(a)
    BY <1>1, <2>1, <2>2 DEF IsSidecar, Written, Orderly, Placed
  <2>4. storeFile'[a].status \in {"not_ready", store'[a].status}
    BY <1>1, <1>3, <2>1, <2>2, <2>3 DEF Written, Told
  <2>5. Follows(store[a].status, a)' /\ Told(r, a)'
    BY <1>1, <1>3, <2>1, <2>2, <2>3 DEF Written, Told, At, Early, Follows
  <2> QED
    BY <2>4, <2>5
<1>12. CASE AssignNew(r)
  <2>1. req[r].at = "assign" /\ UNCHANGED adapters /\ UNCHANGED probe
    BY <1>12 DEF AssignNew, history
  <2>2. ASSUME NEW g \in req[r].todo, Moved(r, "assign", a, req[r].copy, req[r].todo \ {g})
        PROVE  Goal
    <3>1. IsSidecar(a) /\ store'[a] = store[a] /\ storeFile'[a] = storeFile[a]
          /\ probe'[a] = probe[a]
      BY <2>1 DEF adapters, IsSidecar
    <3> QED
      BY <1>3, <2>1, <2>2, <3>1 DEF Told, Moved, At, Early, Follows
  <2>3. CASE Moved(r, "created", a, New("remote"), {})
    BY <1>5, <2>1, <2>3 DEF Waiting
  <2> QED
    BY <1>12, <2>2, <2>3, AssignNewStep
<1>13. CASE Write(r)
  <2>1. req[r].at = "write" /\ At(r, a, {"probe", "write"}) /\ UNCHANGED probe
    BY <1>13 DEF Write, At, history
  <2>2. /\ Moved(r, "done", a, New("remote"), {})
        /\ IF store[a] = Absent THEN UNCHANGED adapters ELSE Written(a, req[r].copy)
    BY <1>13, WriteCopyStep
  <2>3. CASE store[a] = Absent
    BY <1>5, <2>1, <2>2, <2>3 DEF Waiting
  <2>4. CASE store[a] # Absent
    <3>1. IsSidecar(a)
      BY <1>1, <2>2, <2>4 DEF IsSidecar, Written, Orderly, Placed
    <3>2. store'[a] = store[a] /\ storeFile'[a] \in {storeFile[a], store[a]}
      BY <1>1, <1>3, <2>1, <2>2, <2>4, <3>1 DEF Written, Told
    <3>3. Told(r, a)'
      BY <2>2 DEF Told, Moved, At, Early
    <3> QED
      BY <1>3, <2>1, <3>1, <3>2, <3>3 DEF Follows
  <2> QED
    BY <2>3, <2>4
<1>14. CASE Grant(r)
  BY <1>5, <1>14, GrantStep DEF Grant, history, Waiting
<1>15. ASSUME NEW answer \in Answers, ProbeNew(r, answer) PROVE Goal
  <2>1. /\ At(r, a, {"probeNew"}) /\ store[a] # Absent
        /\ CheckHealth(a, req[r].copy, answer)
    BY <1>1, <1>15 DEF ProbeNew, At, CreateSteps
  <2>2. PICK v \in {"not_ready", "ready", "error"} :
           v = StatusAfter(req[r].copy.status, answer)
    BY <1>1, StatusAfterType DEF Adapter, Answers
  <2>3. /\ Moved(r, "save", a, [req[r].copy EXCEPT !.status = v], req[r].todo)
        /\ IF v # req[r].copy.status
           THEN /\ Written(a, [req[r].copy EXCEPT !.status = v])
                /\ storeFile'[a] = store'[a]
           ELSE UNCHANGED adapters
    BY <1>15, <2>1, <2>2, ProbeNewStep DEF Checked
  <2>4. IsSidecar(a)
    BY <1>1, <2>1, <2>3 DEF IsSidecar, Written, Adapter, Orderly, Placed, adapters
  <2>5. store[a].status = "not_ready" /\ req[r].copy.status = "ready" /\ probe[a] = "none"
        /\ storeFile[a].status = "not_ready"
    BY <1>3, <2>1, <2>4 DEF Told
  <2>6. v # "not_ready" /\ (v = "error" <=> probe'[a] = "unhealthy")
    BY <1>1, <2>1, <2>2, <2>5, AnswerFollows
  <2>7. /\ req'[r].copy.status = v /\ req'[r].at = "save"
        /\ store'[a].status \in {"not_ready", v}
        /\ storeFile'[a].status \in {"not_ready", store'[a].status}
    BY <1>1, <2>3, <2>5, <2>6 DEF Moved, Written, Adapter, adapters
  <2> QED
    BY <2>6, <2>7 DEF Told, At, Early, Follows
<1>16. ASSUME NEW answer \in Answers, Probe(r, answer) PROVE Goal
  <2>1. /\ At(r, a, {"probe", "write"}) /\ req[r].at = "probe"
        /\ CheckHealth(a, req[r].copy, answer)
    BY <1>16 DEF Probe, At
  <2>2. PICK v \in {"not_ready", "ready", "error"} :
           v = StatusAfter(req[r].copy.status, answer)
    BY <1>1, StatusAfterType DEF Adapter, Answers
  <2>3. /\ Moved(r, "done", a, New("remote"), {})
        /\ IF v # req[r].copy.status /\ store[a] # Absent
           THEN /\ Written(a, [req[r].copy EXCEPT !.status = v])
                /\ storeFile'[a] = store'[a]
           ELSE UNCHANGED adapters
    BY <1>16, <2>2, ProbeStep DEF Checked
  <2>4. IsSidecar(a)
    BY <1>1, <2>3 DEF IsSidecar, Written, Adapter, Orderly, Placed, adapters
  <2>5. req[r].copy = store[a] /\ Follows(req[r].copy.status, a)
        /\ storeFile[a].status \in {"not_ready", store[a].status}
    BY <1>3, <2>1, <2>4 DEF Told
  <2>6. v # "not_ready" => (v = "error" <=> probe'[a] = "unhealthy")
    BY <1>1, <2>1, <2>2, <2>5, AnswerFollows DEF Follows
  <2>7. /\ store'[a].status = v
        /\ storeFile'[a].status \in {"not_ready", store'[a].status}
    BY <1>1, <2>3, <2>4, <2>5 DEF Written, Adapter, adapters, IsSidecar
  <2>8. Told(r, a)'
    BY <2>3 DEF Told, Moved, At, Early
  <2> QED
    BY <2>6, <2>7, <2>8 DEF Follows
<1> QED
  BY <1>6, <1>7, <1>8, <1>9, <1>10, <1>11, <1>12, <1>13, <1>14, <1>15, <1>16 DEF Handler, Answers

LEMMA ArrivalTruthful ==
  ASSUME TypeOK, NEW r \in Requests, NEW a \in Adapters, Arrives(r, a),
         a \notin disturbed', a \notin raced', Truthful(a)
  PROVE  Truthful(a)'
<1>1. req[r].at \notin Active
  BY NotActive DEF Arrives
<1>2. CASE Refused(r, a)
  <2>1. /\ store'[a] = store[a] /\ storeFile'[a] = storeFile[a] /\ probe'[a] = probe[a]
        /\ \A s \in Requests \ {r} : req'[s] = req[s]
    BY <1>2 DEF Refused, Moved, adapters, history
  <2>2. Told(r, a)' /\ ~At(r, a, {"undo"})' /\ ~At(r, a, {"undo"})
    BY <1>1, <1>2
       DEF Refused, Moved, Told, At, Early, Waiting, Active, CreateSteps
  <2>3. ASSUME NEW s \in Requests \ {r}, Told(s, a) PROVE Told(s, a)'
    BY <2>1, <2>3 DEF Told, At, Follows
  <2>4. ASSUME NEW s \in Requests PROVE At(s, a, {"undo"}) => At(s, a, {"undo"})'
    BY <2>1, <2>2 DEF At
  <2> QED
    BY <2>1, <2>2, <2>3, <2>4 DEF Truthful, IsSidecar, Follows
<1>3. CASE Begun(r, a)
  <2>1. /\ store'[a] = store[a] /\ storeFile'[a] = storeFile[a] /\ probe'[a] = probe[a]
        /\ \A s \in Requests \ {r} : req'[s] = req[s]
        /\ Idle(a)
    BY <1>3 DEF Begun, Moved, adapters
  <2>2. ASSUME NEW s \in Requests PROVE ~At(s, a, Active)
    BY <2>1, NotActive DEF Idle, At
  <2>3. \A s \in Requests \ {r} : ~At(s, a, Active)'
    BY <2>1, <2>2 DEF At
  <2>4. IsSidecar(a) => /\ storeFile[a].status \in {"not_ready", store[a].status}
                        /\ Follows(store[a].status, a)
    BY <2>2, PlacesActive DEF Truthful
  <2>5. Told(r, a)'
    BY <1>3, <2>1 DEF Begun, Moved, Told, At, Early
  <2> QED
    BY <2>1, <2>3, <2>4, <2>5, TruthfulAlone DEF IsSidecar, Follows
<1>4. CASE Created(r, a)
  <2>1. PICK kind \in {"sidecar", "remote"}, step \in {"save", "fail", "panicked", "deploy", "undo"} :
           /\ Written(a, New(kind)) /\ storeFile'[a] = New(kind)
           /\ step = "save" => kind = "remote"
           /\ step \in {"fail", "panicked", "deploy"} => kind = "sidecar"
           /\ Moved(r, step, a, New(IF step \in Waiting THEN "remote" ELSE kind), {})
    BY <1>4 DEF Created
  <2>2. \A s \in Requests \ {r} : ~At(s, a, Active)'
    BY <1>4, <2>1, NotActive DEF Created, Idle, Moved, At
  <2>3. probe'[a] = "none" /\ store'[a] = New(kind) /\ New(kind).kind = kind
    BY <1>4, <2>1, NewType DEF Created, Written
  <2>4. kind = "sidecar" =>
          /\ New(kind).status = "not_ready"
          /\ Told(r, a)'
    <3>1. kind = "sidecar" => New(kind).status = "not_ready" /\ step # "save"
      BY <2>1, NewType
    <3>2. step \in {"fail", "deploy", "undo"} => step \notin Waiting
      BY DEF Waiting
    <3> QED
      BY <2>1, <2>3, <3>1, <3>2 DEF Told, Moved, At, Early
  <2> QED
    BY <2>1, <2>2, <2>3, <2>4, TruthfulAlone DEF IsSidecar, Follows
<1> QED
  BY <1>2, <1>3, <1>4 DEF Arrives

LEMMA TruthfulStep ==
  ASSUME OrderInv, AloneInv, [Next]_vars, NEW a \in Adapters,
         a \notin disturbed', a \notin raced', a \notin killed',
         a \notin disturbed /\ a \notin raced /\ a \notin killed => Truthful(a)
  PROVE  a \notin disturbed /\ a \notin raced /\ a \notin killed /\ Truthful(a)'
<1> DEFINE Before == a \notin disturbed /\ a \notin raced /\ a \notin killed
<1> USE DEF OrderInv, AloneInv
<1>1. ASSUME NEW r \in Requests, Handler(r) PROVE Before /\ Truthful(a)'
  <2>1. Before
    BY <1>1, HandlerDisturbs, HandlerStep
  <2>2. CASE a = req[r].adapter
    BY <1>1, <2>1, <2>2, HandlerTruthful
  <2>3. CASE a # req[r].adapter
    <3>1. Untouched(r, a)
      BY <1>1, <2>3, HandlerStep DEF Elsewhere
    <3> QED
      BY <2>1, <3>1, TruthfulElsewhere
  <2> QED
    BY <2>2, <2>3
<1>2. ASSUME NEW r \in Requests, NEW b \in Adapters, Arrival(r, b)
      PROVE  Before /\ Truthful(a)'
  <2>1. Elsewhere(r) /\ Arrives(r, b)
    BY <1>2, ArrivalStep
  <2>2. CASE a = b
    <3>1. Before
      BY <2>1, <2>2 DEF Arrives, Refused, Begun, Created, history
    <3> QED
      BY <2>1, <2>2, <3>1, ArrivalTruthful
  <2>3. CASE a # b
    <3>1. req'[r].adapter = b
      BY <2>1 DEF Arrives, Refused, Begun, Created, Moved
    <3>2. Untouched(r, a)
      BY <2>1, <2>3, <3>1 DEF Elsewhere
    <3> QED
      BY <3>2, TruthfulElsewhere DEF Untouched
  <2> QED
    BY <2>2, <2>3
<1>3. ASSUME NEW b \in Adapters, NEW g \in Groups, RemoveAdapterFromGroup(b, g)
      PROVE  Before /\ Truthful(a)'
  <2>1. /\ UNCHANGED <<store, storeFile, req, probe, killed>> /\ disturbed' = disturbed
        /\ raced \subseteq raced'
    BY <1>3, RemoveFromGroupStep
  <2> QED
    BY <2>1 DEF Truthful, Told, Follows, IsSidecar, At
<1>4. CASE Restart
  <2>1. /\ store' = storeFile
        /\ UNCHANGED <<storeFile, probe, disturbed, raced>>
        /\ \A r \in Requests : req'[r].at \in Waiting
        /\ \A r \in Requests : Busy(r) => req[r].adapter # a
        /\ Before
    BY <1>4, RestartStep
  <2>2. \A r \in Requests : ~At(r, a, {"undo"})
    BY <2>1, NotActive, PlacesActive DEF At
  <2>3. IsSidecar(a)' => IsSidecar(a)
    BY <2>1 DEF Orderly, Kept, IsSidecar
  <2>4. \A r \in Requests : Told(r, a)'
    BY <2>1 DEF Told, At, Early, Waiting
  <2> QED
    BY <2>1, <2>2, <2>3, <2>4 DEF Truthful, Follows
<1>5. CASE UNCHANGED vars
  <2>1. UNCHANGED <<store, storeFile, req, probe, disturbed, raced, killed>>
    BY <1>5 DEF vars
  <2> QED
    BY <2>1 DEF Truthful, Told, Follows, IsSidecar, At
<1> QED
  BY <1>1, <1>2, <1>3, <1>4, <1>5 DEF Next

TruthfulInv == \A a \in Adapters \ (disturbed \cup raced \cup killed) : Truthful(a)

\* checkAndUpdateSidecarHealth and the writers of copies: the stored status tells of
\* the last answer of the sidecar, however creations, health checks and syncs followed
\* each other.
THEOREM StatusIsProbed == Spec => []StatusFollowsProbe
<1>1. Init => TruthfulInv
  BY DEF Init, TruthfulInv, Truthful, IsSidecar
<1>2. OrderInv /\ AloneInv /\ TruthfulInv /\ [Next]_vars => TruthfulInv'
  BY TruthfulStep DEF TruthfulInv
<1>3. OrderInv /\ TruthfulInv => StatusFollowsProbe
  <2> SUFFICES ASSUME OrderInv, TruthfulInv,
                      NEW a \in Adapters \ (disturbed \cup raced \cup killed),
                      Idle(a), IsSidecar(a), store[a].status # "not_ready"
               PROVE  store[a].status = "error" <=> probe[a] = "unhealthy"
    BY DEF StatusFollowsProbe
  <2>1. \A r \in Requests : ~At(r, a, {"undo"})
    BY NotActive, PlacesActive DEF OrderInv, Idle, At
  <2> QED
    BY <2>1 DEF TruthfulInv, Truthful, Follows
<1> QED
  BY <1>1, <1>2, <1>3, OrderInit, OrderStep, AloneInit, AloneInvStep, PTL DEF Spec
=============================================================================
