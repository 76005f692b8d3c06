--------------------------- MODULE CatalogueProofs ---------------------------
(***************************************************************************)
(* Proofs about where servers come from: PluginServices with the registry, *)
(* and DiscoveryScans with what is registered of what scans have found.    *)
(***************************************************************************)
EXTENDS PluginServices, DiscoveryScans, TLAPS

-----------------------------------------------------------------------------
(***************************************************************************)
(* Theorems about PluginServices and the registry beside it, for any       *)
(* entries, services, reloads and registrations, disks that fail or not    *)
(* and restarts at any moment.                                             *)
(***************************************************************************)
\* A probe knows its service, and a service that was replaced or left while it
\* was probed is in raced.
Probes ==
    loop.at = "check" =>
        /\ loop.service \in Services
        /\ loop.registration \in Registration
        /\ services[loop.service] = loop.registration \/ loop.service \in raced

\* Whoever is asked, or is about to be, has registered as VirtualMCP.
Asked ==
    /\ \A d \in Discoverers : discovery[d].at # "idle" => discovery[d].service \in Services \cap seen
    /\ loop.at = "sync" => loop.ids \subseteq seen
    /\ \A s \in Services : services[s] # None /\ services[s].type = "virtualmcp" => s \in seen

\* A load creates entries of its source only.
FromSource ==
    \A l \in Loads :
        /\ reload[l].at = "remote" => reload[l].todo \subseteq Remote
        /\ reload[l].at = "local" => reload[l].todo \subseteq Local

\* EntriesHaveSource holds from the moment the load at start has cleared.
Sourced ==
    up \/ reload[Boot].at \in {"remote", "local"} =>
        \A s \in Services, i \in Impls :
            <<s, i>> \in registry => s \in seen \/ <<s, i>> \in byHand

IInv ==
    /\ TypeOK
    /\ Probes
    /\ Asked
    /\ FromSource
    /\ CatalogueComplete
    /\ HealthOfRegistered
    /\ Sourced

USE SourceAssumption

-----------------------------------------------------------------------------
\* Before the load at start has cleared, the load owes everything.
LEMMA InitIInv == Init => IInv
<1> SUFFICES ASSUME Init PROVE IInv
  OBVIOUS
<1>1. RegistryTypeOK
  BY BootAssumption DEF Init, RegistryInit, RegistryTypeOK, Booting, Idle, Loads, Catalogue, Others
<1>2. TypeOK
  BY <1>1, RegistrationsAssumption DEF TypeOK, Init, Quiet, Resting, Discoverers, Registrations
<1>3. Probes /\ Asked
  BY DEF Probes, Asked, Init, Quiet, Resting
<1>4. FromSource /\ Sourced
  BY DEF FromSource, Sourced, Init, RegistryInit, Booting, Idle, Loads
<1>5. CatalogueComplete
  BY DEF CatalogueComplete, Owes, Init, RegistryInit, Booting, Loads
<1>6. HealthOfRegistered
  BY DEF HealthOfRegistered, Init
<1> QED
  BY <1>2, <1>3, <1>4, <1>5, <1>6 DEF IInv

-----------------------------------------------------------------------------
(* The registry's own steps.                                               *)

\* The loads.
LoadType == [Loads -> [at : {"idle", "clear", "remote", "local"}, todo : SUBSET Keys]]

\* A load that moves on is where it went, and the others stay.
LEMMA GotoTyped ==
    ASSUME reload \in LoadType, NEW l \in Loads, NEW step \in {"idle", "clear", "remote", "local"},
           NEW keys \in SUBSET Keys, Goto(l, step, keys)
    PROVE  /\ reload' \in LoadType
           /\ reload'[l].at = step /\ reload'[l].todo = keys
           /\ \A m \in Loads \ {l} : reload'[m] = reload[m]
  BY DEF Goto, LoadType

\* A load that ends may open the server and excuse entries of the catalogue.
LEMMA EndTyped ==
    ASSUME reload \in LoadType, NEW l \in Loads, NEW left \in SUBSET Keys,
           disturbed \in SUBSET Catalogue, End(l, left)
    PROVE  up' \in BOOLEAN /\ reload' \in LoadType /\ disturbed' \in SUBSET Catalogue
<1>1. up' \in BOOLEAN
  BY DEF End
<1>2. reload' \in LoadType
  BY GotoTyped DEF End
<1>3. disturbed' \in SUBSET Catalogue
  BY DEF End
<1> QED
  BY <1>1, <1>2, <1>3

\* The registry keeps its types.
LEMMA RegistryTyped ==
    ASSUME RegistryTypeOK, RegistryNext
    PROVE  RegistryTypeOK'
<1> USE DEF RegistryTypeOK
<1>0. reload \in LoadType
  BY DEF LoadType
<1>1. ASSUME NEW k \in Keys, Upload(k) \/ UpdateMCPServer(k) \/ DeleteMCPServer(k)
      PROVE  RegistryTypeOK'
  BY <1>1 DEF Upload, UpdateMCPServer, DeleteMCPServer, store, Save, Create, Delete, Catalogue, Others
<1>2. ASSUME NEW r \in Reloads, ReloadRegistry(r)
      PROVE  RegistryTypeOK'
  <2>1. reload' \in LoadType
    BY <1>0, <1>2, GotoTyped DEF ReloadRegistry, Loads
  <2> QED
    BY <1>2, <2>1 DEF ReloadRegistry, LoadType, store
<1>3. ASSUME NEW l \in Loads, AfterClear(l), registry' \in SUBSET Keys, file' \in SUBSET Keys
      PROVE  RegistryTypeOK'
  <2>1. up' \in BOOLEAN /\ reload' \in LoadType /\ disturbed' \in SUBSET Catalogue
    BY <1>0, <1>3, GotoTyped, EndTyped DEF AfterClear
  <2>2. byHand' \in SUBSET Others
    BY <1>3 DEF AfterClear
  <2> QED
    BY <1>3, <2>1, <2>2 DEF LoadType
<1>4. ASSUME NEW l \in Loads, Clear(l)
      PROVE  RegistryTypeOK'
  <2>1. registry' \in SUBSET Keys /\ file' \in SUBSET Keys
    BY <1>4 DEF Clear, store, Save, Delete
  <2>2. CASE AfterClear(l)
    BY <1>3, <2>1, <2>2
  <2>3. CASE ~AfterClear(l)
    <3>1. PICK k \in reload[l].todo : Goto(l, "clear", reload[l].todo \ {k})
      BY <1>4, <2>3 DEF Clear
    <3>2. reload[l].todo \ {k} \in SUBSET Keys
      OBVIOUS
    <3>3. reload' \in LoadType
      BY <1>0, <3>1, <3>2, GotoTyped
    <3> QED
      BY <1>4, <2>1, <2>3, <3>3 DEF Clear, LoadType
  <2> QED
    BY <2>2, <2>3
<1>5. ASSUME NEW l \in Loads, UploadRegistryEntries(l)
      PROVE  RegistryTypeOK'
  <2>1. registry' \in SUBSET Keys /\ file' \in SUBSET Keys
    BY <1>5 DEF UploadRegistryEntries, store, Save, Create
  <2>2. \A k \in Keys : reload[l].todo \ {k} \in SUBSET Keys
    OBVIOUS
  <2>3. reload[l].at \in {"idle", "clear", "remote", "local"} /\ reload[l].todo \in SUBSET Keys
    OBVIOUS
  <2>4. CASE End(l, {}) /\ UNCHANGED store
    BY <1>0, <1>5, <2>1, <2>4, EndTyped DEF UploadRegistryEntries, LoadType
  <2>5. ASSUME NEW k \in reload[l].todo, Goto(l, reload[l].at, reload[l].todo \ {k}),
               disturbed' = disturbed \ {k}, UNCHANGED up
        PROVE  RegistryTypeOK'
    <3>1. reload' \in LoadType
      BY <1>0, <2>2, <2>3, <2>5, GotoTyped
    <3> QED
      BY <1>5, <2>1, <2>5, <3>1 DEF UploadRegistryEntries, LoadType
  <2>6. CASE Goto(l, "local", Local) /\ UNCHANGED <<up, disturbed>>
    BY <1>0, <1>5, <2>1, <2>6, GotoTyped DEF UploadRegistryEntries, LoadType
  <2>7. ASSUME NEW k \in reload[l].todo, End(l, reload[l].todo \ {k})
        PROVE  RegistryTypeOK'
    BY <1>0, <1>5, <2>1, <2>2, <2>7, EndTyped DEF UploadRegistryEntries, LoadType
  <2> QED
    BY <1>5, <2>4, <2>5, <2>6, <2>7 DEF UploadRegistryEntries
<1> QED
  BY <1>1, <1>2, <1>4, <1>5 DEF RegistryNext

\* A load still has only its source's entries to create.
LEMMA RegistryFromSource ==
    ASSUME RegistryTypeOK, FromSource, RegistryNext
    PROVE  FromSource'
<1> USE DEF RegistryTypeOK, FromSource
<1>0. reload \in LoadType
  BY DEF LoadType
<1>1. ASSUME NEW k \in Keys, Upload(k) \/ UpdateMCPServer(k) \/ DeleteMCPServer(k)
      PROVE  FromSource'
  BY <1>1 DEF Upload, UpdateMCPServer, DeleteMCPServer
<1>2. ASSUME NEW r \in Reloads, ReloadRegistry(r)
      PROVE  FromSource'
  BY <1>2 DEF ReloadRegistry, Goto, Loads
<1>3. ASSUME NEW l \in Loads, AfterClear(l)
      PROVE  FromSource'
  BY <1>3 DEF AfterClear, End, Goto
<1>4. ASSUME NEW l \in Loads, Clear(l)
      PROVE  FromSource'
  <2>1. CASE AfterClear(l)
    BY <1>3, <2>1
  <2>2. CASE ~AfterClear(l)
    <3>1. PICK k \in reload[l].todo : Goto(l, "clear", reload[l].todo \ {k})
      BY <1>4, <2>2 DEF Clear
    <3> QED
      BY <1>0, <3>1, GotoTyped
  <2> QED
    BY <2>1, <2>2
<1>5. ASSUME NEW l \in Loads, UploadRegistryEntries(l)
      PROVE  FromSource'
  <2>1. CASE Goto(l, "idle", {}) \/ Goto(l, "local", Local)
    BY <1>0, <2>1, GotoTyped
  <2>2. ASSUME NEW k \in reload[l].todo, Goto(l, reload[l].at, reload[l].todo \ {k})
        PROVE  FromSource'
    BY <1>0, <2>2, GotoTyped, reload[l].todo \ {k} \in SUBSET Keys,
       reload[l].at \in {"idle", "clear", "remote", "local"}
  <2> QED
    BY <1>5, <2>1, <2>2 DEF UploadRegistryEntries, End
<1> QED
  BY <1>1, <1>2, <1>4, <1>5 DEF RegistryNext

\* When Clear has returned, the load owes the whole catalogue, or has failed
\* and excuses it; no other load is affected.
LEMMA ClearedOwes ==
    ASSUME RegistryTypeOK, NEW l \in Loads, reload[l].at = "clear", AfterClear(l)
    PROVE  /\ \A k \in Catalogue \ disturbed' : Owes(l, k)'
           /\ \A m \in Loads \ {l} : reload'[m] = reload[m]
           /\ disturbed \subseteq disturbed'
  BY DEF AfterClear, End, Goto, Owes, Catalogue, RegistryTypeOK

\* No step of the registry leaves out an entry of the catalogue that is not
\* disturbed and that no load owes.
LEMMA RegistryKeepsCatalogue ==
    ASSUME RegistryTypeOK, CatalogueComplete, RegistryNext
    PROVE  CatalogueComplete'
<1> USE DEF RegistryTypeOK, CatalogueComplete, Save, Create, Delete
<1>0. reload \in LoadType
  BY DEF LoadType
<1>1. ASSUME NEW k \in Keys, Upload(k) \/ UpdateMCPServer(k) \/ DeleteMCPServer(k)
      PROVE  CatalogueComplete'
  BY <1>1 DEF Upload, UpdateMCPServer, DeleteMCPServer, Owes, store
<1>2. ASSUME NEW r \in Reloads, ReloadRegistry(r)
      PROVE  CatalogueComplete'
  BY <1>2 DEF ReloadRegistry, Goto, Loads, Owes, store
<1>3. ASSUME NEW l \in Loads, Clear(l)
      PROVE  CatalogueComplete'
  <2>1. CASE AfterClear(l)
    BY <1>3, <2>1, ClearedOwes DEF Clear, Owes
  <2>2. CASE ~AfterClear(l)
    <3>1. PICK k \in reload[l].todo : Goto(l, "clear", reload[l].todo \ {k}) /\ UNCHANGED disturbed
      BY <1>3, <2>2 DEF Clear
    <3>2. \A c \in Catalogue : Owes(l, c)'
      BY <1>0, <3>1, GotoTyped DEF Owes
    <3> QED
      BY <3>1, <3>2
  <2> QED
    BY <2>1, <2>2
<1>4. ASSUME NEW l \in Loads, UploadRegistryEntries(l)
      PROVE  CatalogueComplete'
  <2> SUFFICES ASSUME NEW c \in Catalogue \ disturbed', c \notin registry'
               PROVE  \E m \in Loads : Owes(m, c)'
    OBVIOUS
  <2>1. c \notin disturbed /\ c \notin registry
    BY <1>4 DEF UploadRegistryEntries, End, store
  <2>2. PICK m \in Loads : Owes(m, c)
    BY <2>1
  <2>3. CASE m # l
    BY <1>4, <2>2, <2>3 DEF UploadRegistryEntries, End, Goto, Owes
  <2>4. CASE m = l
    <3>1. c \in reload[l].todo
      BY <1>4, <2>2, <2>4 DEF UploadRegistryEntries, Owes
    <3>2. reload[l].at \in {"remote", "local"}
      BY <1>4 DEF UploadRegistryEntries
    <3>3. CASE Goto(l, "local", Local)
      BY <1>0, <3>3, GotoTyped DEF Owes, Catalogue
    <3>4. ASSUME NEW k \in reload[l].todo, c # k, Goto(l, reload[l].at, reload[l].todo \ {k})
          PROVE  Owes(l, c)'
      BY <1>0, <3>1, <3>2, <3>4, GotoTyped, reload[l].todo \ {k} \in SUBSET Keys DEF Owes
    <3> QED
      BY <1>4, <3>1, <3>3, <3>4 DEF UploadRegistryEntries, End
  <2> QED
    BY <2>3, <2>4
<1> QED
  BY <1>1, <1>2, <1>3, <1>4 DEF RegistryNext

\* Neither the API nor a load enters an implementation without a trace.
LEMMA RegistryKeepsSourced ==
    ASSUME RegistryTypeOK, FromSource, Sourced, RegistryNext, UNCHANGED seen
    PROVE  Sourced'
<1> USE DEF RegistryTypeOK
<1>0. reload \in LoadType /\ Boot \in Loads /\ Reloads \subseteq Loads
  BY DEF LoadType, Loads
<1>a. \A s \in Services, i \in Impls : <<s, i>> \in Others
  BY ListAssumption
<1>1. ASSUME NEW k \in Keys, Upload(k) \/ UpdateMCPServer(k) \/ DeleteMCPServer(k)
      PROVE  Sourced'
  BY <1>1, <1>a DEF Upload, UpdateMCPServer, DeleteMCPServer, Create, Delete, Sourced
<1>2. ASSUME NEW r \in Reloads, ReloadRegistry(r)
      PROVE  Sourced'
  <2>1. reload'[Boot] = reload[Boot]
    BY <1>0, <1>2, BootAssumption, GotoTyped DEF ReloadRegistry
  <2> QED
    BY <1>2, <2>1 DEF ReloadRegistry, store, Sourced
<1>3. ASSUME NEW l \in Loads, AfterClear(l), registry' \subseteq registry
      PROVE  Sourced'
  <2>1. CASE l = Boot
    BY <1>3, <1>a, <2>1 DEF AfterClear, Sourced
  <2>2. CASE l # Boot
    <3>1. reload'[Boot] = reload[Boot]
      BY <1>0, <1>3, <2>2, GotoTyped DEF AfterClear
    <3> QED
      BY <1>3, <2>2, <3>1 DEF AfterClear, Sourced
  <2> QED
    BY <2>1, <2>2
<1>4. ASSUME NEW l \in Loads, Clear(l)
      PROVE  Sourced'
  <2>1. registry' \subseteq registry
    BY <1>4 DEF Clear, Delete, store
  <2>2. CASE AfterClear(l)
    BY <1>3, <2>1, <2>2
  <2>3. CASE ~AfterClear(l)
    <3>1. PICK k \in reload[l].todo :
            Goto(l, "clear", reload[l].todo \ {k}) /\ UNCHANGED <<up, byHand>>
      BY <1>4, <2>3 DEF Clear
    <3>2. reload'[Boot].at = reload[Boot].at
      BY <1>0, <1>4, <3>1, GotoTyped DEF Clear
    <3> QED
      BY <2>1, <3>1, <3>2 DEF Sourced
  <2> QED
    BY <2>2, <2>3
<1>5. ASSUME NEW l \in Loads, UploadRegistryEntries(l)
      PROVE  Sourced'
  <2>1. reload[l].at \in {"remote", "local"} /\ byHand' = byHand
    BY <1>5 DEF UploadRegistryEntries
  <2>2. registry' \subseteq registry \cup reload[l].todo
    BY <1>5 DEF UploadRegistryEntries, Create, store
  <2>3. \A s \in Services, i \in Impls : <<s, i>> \in registry' => <<s, i>> \in registry
    BY <1>a, <2>1, <2>2 DEF FromSource, Others
  <2>4. up' = up /\ l # Boot => reload'[Boot] = reload[Boot]
    BY <1>5, <1>0 DEF UploadRegistryEntries, End, Goto, LoadType
  <2>5. up' => up \/ l = Boot
    BY <1>5 DEF UploadRegistryEntries, End
  <2> QED
    BY <2>1, <2>3, <2>4, <2>5, <1>5 DEF Sourced, UploadRegistryEntries, End
<1> QED
  BY <1>1, <1>2, <1>4, <1>5 DEF RegistryNext

-----------------------------------------------------------------------------
(* The manager's steps.                                                    *)

\* A registration or its end.
LEMMA RegisterStep ==
    ASSUME IInv, NEW s \in Services, NEW type \in {"virtualmcp", "other"}, RegisterService(s, type)
    PROVE  IInv'
<1> USE DEF RegisterService
<1>1. last' \in Registrations /\ last' \in Discoverers /\ Round \notin Registrations
  BY RegistrationsAssumption, RoundAssumption DEF IInv, TypeOK, Registrations, Discoverers
<1>2. [number |-> last', type |-> type] \in Registration
  BY <1>1 DEF Registration
<1>3. TypeOK'
  BY <1>1, <1>2, RegistrationsAssumption
  DEF IInv, TypeOK, RegistryTypeOK, registryVars, store, Race, Asks, Registrations
<1>4. Probes'
  BY <1>2 DEF IInv, TypeOK, Probes, Race, Probed
<1>5. Asked'
  BY <1>2, NoneAssumption DEF IInv, TypeOK, Asked, Asks
<1>6. FromSource' /\ CatalogueComplete'
  BY DEF IInv, FromSource, CatalogueComplete, Owes, registryVars, store
<1>7. HealthOfRegistered'
  BY <1>2, NoneAssumption DEF IInv, TypeOK, HealthOfRegistered, Race
<1>8. Sourced'
  BY DEF IInv, Sourced, registryVars, store
<1> QED
  BY <1>3, <1>4, <1>5, <1>6, <1>7, <1>8 DEF IInv

\* UnregisterService: nothing of the service is left unless it is being probed.
LEMMA UnregisterStep ==
    ASSUME IInv, NEW s \in Services, UnregisterService(s)
    PROVE  IInv'
<1> USE DEF UnregisterService
<1>1. TypeOK'
  BY DEF IInv, TypeOK, RegistryTypeOK, registryVars, store, Race
<1>2. Probes'
  BY DEF IInv, TypeOK, Probes, Race, Probed
<1>3. Asked'
  BY DEF IInv, TypeOK, Asked
<1>4. FromSource' /\ CatalogueComplete'
  BY DEF IInv, FromSource, CatalogueComplete, Owes, registryVars, store
<1>5. HealthOfRegistered'
  BY DEF IInv, TypeOK, HealthOfRegistered, Race
<1>6. Sourced'
  BY DEF IInv, Sourced, registryVars, store
<1> QED
  BY <1>1, <1>2, <1>3, <1>4, <1>5, <1>6 DEF IInv

\* A step that changes nothing but what the round is at keeps the invariant if
\* its new place fits.
LEMMA LoopStep ==
    ASSUME IInv, UNCHANGED <<registryVars, services, health, last, seen, raced>>,
           loop' \in [at : {"idle", "health", "check", "sync"}, ids : SUBSET Services,
                      service : Services \cup {None}, registration : Registration \cup {None}],
           discovery' \in [Discoverers -> [at : {"idle", "fetch", "upload"},
                                           service : Services \cup {None}, todo : SUBSET Impls]],
           Probes', Asked'
    PROVE  IInv'
<1>1. TypeOK'
  BY DEF IInv, TypeOK, RegistryTypeOK, registryVars, store
<1>2. FromSource' /\ CatalogueComplete'
  BY DEF IInv, FromSource, CatalogueComplete, Owes, registryVars, store
<1>3. HealthOfRegistered' /\ Sourced'
  BY DEF IInv, HealthOfRegistered, Sourced, registryVars, store
<1> QED
  BY <1>1, <1>2, <1>3 DEF IInv

\* The round's own steps.
LEMMA RoundSteps ==
    ASSUME IInv,
           \/ StartRound \/ StartSync \/ EndRound
           \/ \E s \in Services : ProbeService(s) \/ SyncService(s)
    PROVE  IInv'
<1> USE DEF IInv, TypeOK
<1>1. CASE StartRound
  <2>1. Probes' /\ Asked'
    BY <1>1 DEF StartRound, Probes, Asked
  <2> QED
    BY <1>1, <2>1, LoopStep DEF StartRound, Registered
<1>2. CASE StartSync
  <2>1. Probes' /\ Asked'
    BY <1>2 DEF StartSync, Probes, Asked, Registered
  <2> QED
    BY <1>2, <2>1, LoopStep DEF StartSync, Registered
<1>3. CASE EndRound
  <2>1. Probes' /\ Asked'
    BY <1>3 DEF EndRound, Probes, Asked, Resting
  <2> QED
    BY <1>3, <2>1, LoopStep DEF EndRound, Resting
<1>4. ASSUME NEW s \in Services, ProbeService(s)
      PROVE  IInv'
  <2>1. Probes' /\ Asked'
    BY <1>4 DEF ProbeService, Probes, Asked
  <2> QED
    BY <1>4, <2>1, LoopStep DEF ProbeService
<1>5. ASSUME NEW s \in Services, SyncService(s)
      PROVE  IInv'
  <2>1. Probes' /\ Asked'
    BY <1>5 DEF SyncService, Probes, Asked, Asks
  <2>2. Round \in Discoverers
    BY DEF Discoverers
  <2> QED
    BY <1>5, <2>1, <2>2, LoopStep DEF SyncService, Asks
<1> QED
  BY <1>1, <1>2, <1>3, <1>4, <1>5

\* The probe of a service that has changed leaves the service in raced.
LEMMA UpdateHealthStep ==
    ASSUME IInv, UpdateServiceHealth
    PROVE  IInv'
<1> USE DEF UpdateServiceHealth
<1> DEFINE s == loop.service
<1>1. s \in Services /\ loop.registration \in Registration /\ loop.registration.number \in 1..MaxRegistrations
  BY DEF IInv, Probes, Registration, Registrations
<1>2. TypeOK'
  <2>1. RegistryTypeOK'
    BY DEF IInv, TypeOK, RegistryTypeOK, registryVars, store
  <2>2. health' \in [Services -> {None} \cup 0..MaxRegistrations]
    <3>1. loop.registration.number \in 0..MaxRegistrations
      BY <1>1, RegistrationsAssumption
    <3> QED
      BY <1>1, <3>1 DEF IInv, TypeOK
  <2>3. loop' \in [at : {"idle", "health", "check", "sync"}, ids : SUBSET Services,
                   service : Services \cup {None}, registration : Registration \cup {None}]
    BY DEF IInv, TypeOK
  <2>4. raced' \in SUBSET Services
    BY DEF IInv, TypeOK
  <2> QED
    BY <2>1, <2>2, <2>3, <2>4 DEF IInv, TypeOK
<1>3. Probes' /\ Asked'
  BY DEF IInv, TypeOK, Probes, Asked
<1>4. FromSource' /\ CatalogueComplete' /\ Sourced'
  BY DEF IInv, FromSource, CatalogueComplete, Owes, Sourced, registryVars, store
<1>5. HealthOfRegistered'
  BY <1>1, NoneAssumption DEF IInv, TypeOK, Probes, HealthOfRegistered
<1> QED
  BY <1>2, <1>3, <1>4, <1>5 DEF IInv

\* An answer, with implementations or without.
LEMMA FetchStep ==
    ASSUME IInv, NEW d \in Discoverers, Fetch(d)
    PROVE  IInv'
<1> USE DEF IInv, TypeOK
<1>1. PICK found \in SUBSET Impls :
        discovery' = [discovery EXCEPT ![d] =
             IF found = {} THEN Quiet ELSE [@ EXCEPT !.at = "upload", !.todo = found]]
  BY DEF Fetch
<1>2. Probes' /\ Asked'
  BY <1>1 DEF Fetch, Probes, Asked, Quiet
<1>3. discovery' \in [Discoverers -> [at : {"idle", "fetch", "upload"},
                                      service : Services \cup {None}, todo : SUBSET Impls]]
  <2>1. CASE found = {}
    BY <1>1, <2>1 DEF Quiet
  <2>2. CASE found # {}
    <3>1. discovery' = [discovery EXCEPT ![d] = [@ EXCEPT !.at = "upload", !.todo = found]]
      BY <1>1, <2>2
    <3>2. discovery[d] \in [at : {"idle", "fetch", "upload"},
                            service : Services \cup {None}, todo : SUBSET Impls]
      OBVIOUS
    <3>3. [discovery[d] EXCEPT !.at = "upload", !.todo = found]
            \in [at : {"idle", "fetch", "upload"}, service : Services \cup {None}, todo : SUBSET Impls]
      BY <3>2
    <3> QED
      BY <3>1, <3>3
  <2> QED
    BY <2>1, <2>2
<1> QED
  BY <1>2, <1>3, LoopStep DEF Fetch

\* An implementation is entered for a service that has registered.
LEMMA ListStep ==
    ASSUME IInv, NEW d \in Discoverers, List(d)
    PROVE  IInv'
<1> DEFINE s == discovery[d].service
<1>1. s \in Services /\ s \in seen
  BY DEF IInv, Asked, List
<1>2. PICK i \in discovery[d].todo, saved \in Saves :
        /\ Create(<<s, i>>, saved)
        /\ discovery' = [discovery EXCEPT ![d] =
              IF saved /\ discovery[d].todo # {i}
              THEN [@ EXCEPT !.todo = discovery[d].todo \ {i}] ELSE Quiet]
  BY DEF List
<1>3. i \in Impls /\ <<s, i>> \in Keys
  BY <1>1, ListAssumption DEF IInv, TypeOK, Others
<1>4. UNCHANGED <<up, reload, disturbed, byHand, services, health, last, loop, seen, raced>>
  BY DEF List
<1>5. RegistryTypeOK'
  BY <1>2, <1>3, <1>4 DEF IInv, TypeOK, RegistryTypeOK, Create, Save
<1>6. discovery' \in [Discoverers -> [at : {"idle", "fetch", "upload"},
                                      service : Services \cup {None}, todo : SUBSET Impls]]
  BY <1>2 DEF IInv, TypeOK, Quiet
<1>7. TypeOK'
  BY <1>4, <1>5, <1>6 DEF IInv, TypeOK
<1>8. Probes' /\ Asked'
  BY <1>2, <1>4 DEF IInv, TypeOK, Probes, Asked, Quiet
<1>9. FromSource' /\ CatalogueComplete' /\ HealthOfRegistered'
  BY <1>2, <1>4 DEF IInv, FromSource, CatalogueComplete, Owes, HealthOfRegistered, Create
<1>10. Sourced'
  BY <1>1, <1>2, <1>3, <1>4 DEF IInv, Sourced, Create
<1> QED
  BY <1>7, <1>8, <1>9, <1>10 DEF IInv

\* After a restart the load at start owes everything, and nobody has asked.
LEMMA RestartStep ==
    ASSUME IInv, RestartAll
    PROVE  IInv'
<1> USE DEF RestartAll, Restart
<1>1. RegistryTypeOK'
  BY DEF IInv, TypeOK, RegistryTypeOK, Booting, Idle, Loads
<1>2. TypeOK'
  BY <1>1 DEF IInv, TypeOK, Quiet, Resting
<1>3. Probes' /\ Asked'
  BY DEF Probes, Asked, Quiet, Resting
<1>4. FromSource' /\ CatalogueComplete' /\ Sourced'
  BY DEF FromSource, CatalogueComplete, Owes, Sourced, Booting, Idle, Loads
<1>5. HealthOfRegistered'
  BY DEF HealthOfRegistered
<1> QED
  BY <1>2, <1>3, <1>4, <1>5 DEF IInv

-----------------------------------------------------------------------------
(* The theorems.                                                           *)

\* Every step of the manager and the registry keeps the invariant.
LEMMA NextIInv == IInv /\ [Next]_vars => IInv'
<1> SUFFICES ASSUME IInv, [Next]_vars PROVE IInv'
  OBVIOUS
<1>1. CASE RegistryNext /\ UNCHANGED managerVars
  <2>1. TypeOK'
    BY <1>1, RegistryTyped DEF IInv, TypeOK, managerVars
  <2>2. Probes' /\ Asked' /\ HealthOfRegistered'
    BY <1>1 DEF IInv, Probes, Asked, HealthOfRegistered, managerVars
  <2>3. FromSource' /\ CatalogueComplete'
    BY <1>1, RegistryFromSource, RegistryKeepsCatalogue DEF IInv, TypeOK
  <2>4. Sourced'
    BY <1>1, RegistryKeepsSourced DEF IInv, TypeOK, managerVars
  <2> QED
    BY <2>1, <2>2, <2>3, <2>4 DEF IInv
<1>2. ASSUME NEW s \in Services, NEW type \in {"virtualmcp", "other"}, RegisterService(s, type)
      PROVE  IInv'
  BY <1>2, RegisterStep
<1>3. ASSUME NEW s \in Services, UnregisterService(s)
      PROVE  IInv'
  BY <1>3, UnregisterStep
<1>4. CASE RoundStep
  <2>1. Round \in Discoverers
    BY DEF Discoverers
  <2> QED
    BY <1>4, <2>1, RoundSteps, UpdateHealthStep, FetchStep, ListStep DEF RoundStep
<1>5. ASSUME NEW d \in Registrations, Fetch(d) \/ List(d)
      PROVE  IInv'
  BY <1>5, FetchStep, ListStep DEF Discoverers
<1>6. CASE RestartAll
  BY <1>6, RestartStep
<1>7. CASE UNCHANGED vars
  <2>1. TypeOK' /\ Probes' /\ Asked' /\ HealthOfRegistered'
    BY <1>7 DEF IInv, TypeOK, RegistryTypeOK, Probes, Asked, HealthOfRegistered,
                vars, registryVars, managerVars, store
  <2>2. FromSource' /\ CatalogueComplete' /\ Sourced'
    BY <1>7 DEF IInv, FromSource, CatalogueComplete, Owes, Sourced,
                vars, registryVars, managerVars, store
  <2> QED
    BY <2>1, <2>2 DEF IInv
<1> QED
  BY <1>1, <1>2, <1>3, <1>4, <1>5, <1>6, <1>7 DEF Next

\* The invariant holds in every state of the manager and the registry.
THEOREM Invariance == Spec => []IInv
  BY InitIInv, NextIInv, PTL DEF Spec

\* The registry, the services, the health map, the round and the discoveries
\* keep their types.
THEOREM TypeCorrect == Spec => []TypeOK
<1>1. IInv => TypeOK
  BY DEF IInv
<1> QED
  BY <1>1, Invariance, PTL

\* However many loads overlap and whatever their Clear deletes, the entries
\* that every source lists are in the registry when no load owes them.
THEOREM CatalogueStays == Spec => []CatalogueComplete
<1>1. IInv => CatalogueComplete
  BY DEF IInv
<1> QED
  BY <1>1, Invariance, PTL

\* The health map of ServiceManager follows the registrations, except for
\* services that changed while they were probed.
THEOREM HealthFollows == Spec => []HealthOfRegistered
<1>1. IInv => HealthOfRegistered
  BY DEF IInv
<1> QED
  BY <1>1, Invariance, PTL

\* What discoverMCPImplementations enters is of services that registered as
\* VirtualMCP since the start.
THEOREM EntriesAreSourced == Spec => []EntriesHaveSource
<1>1. IInv => EntriesHaveSource
  BY DEF IInv, Sourced, EntriesHaveSource
<1> QED
  BY <1>1, Invariance, PTL

-----------------------------------------------------------------------------
(***************************************************************************)
(* DiscoveryScans, for any scans, requests, addresses, answers and number  *)
(* of servers.  The scores are a matter of what each answer can be made    *)
(* into (DetectionSound, InterrogationSound); the rest of the invariant    *)
(* carries that from where a server is found to the adapter it becomes.    *)
(***************************************************************************)
\* What a score says of the answers.
Earned(f) ==
  /\ f.score = "low" => f.refused
  /\ f.open /\ ~f.refused => f.score = "high"

\* What DiscoveryService has found: an open server is enhanced when it is registered.
Sound(f) == Earned(f) /\ (f.open => Enhanced(f))

\* A registration brings an adapter that is guarded where the server is open.
Bringing(x) ==
  /\ x = [step |-> x.step, adapter |-> x.adapter]
  /\ x.adapter.open => x.adapter.guarded

Shaped ==
  /\ results = [s \in Scans |-> results[s]]
  /\ listed = [i \in Addresses \X Endpoints |-> listed[i]]
  /\ at = [h \in Handlers |-> at[h]]

\* What is true of every finding, wherever it has got to.
FindingsSound ==
  /\ \A s \in Scans : \A server \in results[s] : Sound(server.finding)
  /\ \A server \in cache : Sound(server.finding)
  /\ \A i \in Addresses \X Endpoints : listed[i] # Nothing => Earned(listed[i].finding)

ScansInv ==
  /\ Shaped /\ FindingsSound
  /\ \A h \in Handlers : at[h] # Nothing => Bringing(at[h])
  /\ ToldIsStored /\ OpenServersGuarded

-----------------------------------------------------------------------------
\* A result with serverInfo is an open server's; without, it has no score.
LEMMA ResultVerdicts ==
  ASSUME NEW a
  PROVE  /\ ResultVerdict(a).score # "low"
         /\ Open(a) => ResultVerdict(a).auth = "none" /\ ResultVerdict(a).score = "high"
<1>1. CASE a.body = "info"
  BY <1>1 DEF ResultVerdict, Verdict
<1>2. CASE a.body # "info"
  BY <1>2 DEF ResultVerdict, Verdict, Open
<1> QED
  BY <1>1, <1>2

\* DiscoveryService scores a server low only where it refuses something, and takes one
\* that tells of itself for open.
LEMMA DetectionSound ==
  ASSUME NEW a \in AllAnswers, DetectMCPServer(a) # Nothing
  PROVE  Sound(Finding(DetectMCPServer(a), {a}))
<1>1. /\ DetectMCPServer(a).score = "low" => Denied(a)
      /\ Open(a) => /\ DetectMCPServer(a).auth = "none"
                    /\ DetectMCPServer(a).score = "high"
  <2>1. CASE a.body \in RpcResults
    <3>1. DetectMCPServer(a) = ResultVerdict(a)
      BY <2>1 DEF DetectMCPServer, RpcResults, RpcErrors
    <3> QED
      BY <3>1, ResultVerdicts
  <2>2. CASE a.body \notin RpcResults /\ Denied(a)
    BY <2>2 DEF RpcResults, Open
  <2>3. CASE a.body \notin RpcResults /\ ~Denied(a)
    <3>1. DetectMCPServer(a) \in {Verdict(Nothing, "unknown", "medium"), Nothing}
      BY <2>3 DEF DetectMCPServer, DetectMCPFromHTTPResponse
    <3>2. Verdict(Nothing, "unknown", "medium").score = "medium"
      BY DEF Verdict
    <3> QED
      BY <2>3, <3>1, <3>2 DEF RpcResults, Open
  <2> QED
    BY <2>1, <2>2, <2>3
<1> QED
  BY <1>1 DEF Sound, Earned, Enhanced, Finding, Refuses

\* What NetworkScanner says of an answer: a server that tells of itself is scored high, and
\* none low but one that denies.
LEMMA ParseVerdicts ==
  ASSUME NEW a \in AllAnswers, NEW e \in Endpoints, ParseMCPResponse(a, e) # Nothing
  PROVE  \E name, auth, score :
           /\ ParseMCPResponse(a, e) = [name |-> name, auth |-> auth, score |-> score]
           /\ score = "low" => Denied(a)
           /\ Open(a) => score = "high"
<1> DEFINE Scored(v) == \E name, auth, score :
             /\ v = [name |-> name, auth |-> auth, score |-> score]
             /\ score = "low" => Denied(a)
             /\ Open(a) => score = "high"
<1>1. ASSUME NEW name, NEW auth, NEW score, score = "low" => Denied(a), Open(a) => score = "high"
      PROVE  Scored(Verdict(name, auth, score))
  BY <1>1 DEF Verdict
<1> HIDE DEF Scored
<1>2. CASE a.body \in RpcResults
  <2>1. ParseMCPResponse(a, e) = ResultVerdict(a)
    BY <1>2 DEF ParseMCPResponse, RpcResults, RpcErrors
  <2>2. Scored(Verdict("own", "none", "high"))
    BY <1>1
  <2>3. a.body # "info" => Scored(Verdict(Nothing, "", ""))
    BY <1>1 DEF Open
  <2>4. ResultVerdict(a) = IF a.body = "info" THEN Verdict("own", "none", "high")
                                              ELSE Verdict(Nothing, "", "")
    BY DEF ResultVerdict
  <2> QED
    BY <2>1, <2>2, <2>3, <2>4 DEF Scored
<1>3. CASE a.body \notin RpcResults
  <2>1. ~Open(a)
    BY <1>3 DEF RpcResults, Open
  <2>2. Scored(ErrorVerdict(a))
    BY <1>1, <2>1 DEF ErrorVerdict
  <2>3. Scored(JsonVerdict(a))
    BY <1>1, <2>1 DEF JsonVerdict
  <2>4. Scored(Verdict("error response", "unknown", "medium"))
    BY <1>1, <2>1
  <2>5. ParseMCPResponse(a, e) \in
          {ErrorVerdict(a), JsonVerdict(a), Verdict("error response", "unknown", "medium"), Nothing}
    BY <1>3 DEF ParseMCPResponse
  <2> QED
    BY <2>2, <2>3, <2>4, <2>5 DEF Scored
<1> QED
  BY <1>2, <1>3

\* A server is only asked to sign in where an answer refuses something.
LEMMA RequiredIsRefused ==
  ASSUME NEW b \in AllAnswers, AuthRequired(b)
  PROVE  Refuses(b)
<1>1. b.body \in Rpc \cup Pages
  BY DEF AllAnswers
<1>2. CASE ~Usable(b)
  BY <1>2 DEF AuthRequired, AnalyzeHTTPResponse, Refuses
<1>3. CASE Usable(b)
  <2>1. CASE b.body \in RpcErrors
    BY <1>3, <2>1 DEF AuthRequired, AnalyzeMCPError, Refuses, RpcErrors, RpcResults
  <2>2. CASE b.body \in RpcResults
    BY <1>3, <2>2 DEF AuthRequired, AnalyzeHTTPResponse, Refuses, RpcErrors, RpcResults
  <2>3. CASE b.body \in {"json", "json error"}
    BY <1>3, <2>3 DEF AuthRequired, AnalyzeHTTPResponse, Refuses, RpcErrors, RpcResults
  <2>4. CASE b.body \in {"denial", "protocol", "text"}
    BY <1>3, <2>4 DEF AuthRequired, AnalyzeNonJSONResponse, Refuses, RpcErrors, RpcResults
  <2> QED
    BY <1>1, <2>1, <2>2, <2>3, <2>4 DEF Rpc, Pages
<1> QED
  BY <1>2, <1>3

\* What NetworkScanner finds out from the answers a and b of an endpoint.
Interrogated(e, a, b, flawed) ==
  Finding([ParseMCPResponse(a, e) EXCEPT !.score = PerformDeepInterrogation(@, b, flawed)],
          {a, b} \ {Nothing})

\* What is found out by a second request, and by what the server can do, earns the score as well.
LEMMA InterrogationSound ==
  ASSUME NEW a \in AllAnswers, NEW e \in Endpoints, ParseMCPResponse(a, e) # Nothing,
         NEW b \in AllAnswers \cup {Nothing}, NEW flawed
  PROVE  Earned(Interrogated(e, a, b, flawed))
<1>1. PICK name, auth, score :
        /\ ParseMCPResponse(a, e) = [name |-> name, auth |-> auth, score |-> score]
        /\ score = "low" => Denied(a)
        /\ Open(a) => score = "high"
  BY ParseVerdicts
<1> DEFINE s == PerformDeepInterrogation(score, b, flawed)
           f == Interrogated(e, a, b, flawed)
<1>2. /\ f.score = s
      /\ f.open <=> \A x \in {a, b} \ {Nothing} : Open(x)
      /\ f.refused <=> \E x \in {a, b} \ {Nothing} : Refuses(x)
  BY <1>1 DEF Interrogated, Finding
<1>3. a # Nothing
  BY DiscoveryAssumption
<1>4. CASE b = Nothing
  BY <1>1, <1>2, <1>3, <1>4 DEF PerformDeepInterrogation, Earned, Refuses
<1>5. CASE b # Nothing /\ AuthRequired(b)
  <2>1. Refuses(b)
    BY <1>5, RequiredIsRefused
  <2> QED
    BY <1>2, <1>5, <2>1 DEF Earned
<1>6. CASE b # Nothing /\ ~AuthRequired(b)
  <2>1. s = "high"
    BY <1>6 DEF PerformDeepInterrogation, Raise
  <2> QED
    BY <1>2, <2>1 DEF Earned
<1> QED
  BY <1>4, <1>5, <1>6

-----------------------------------------------------------------------------
LEMMA InitScansInv == ScansInit => ScansInv
  BY DEF ScansInit, ScansInv, Shaped, FindingsSound, ToldIsStored, OpenServersGuarded

\* A step that finds nothing and registers nothing.
LEMMA QuietStep ==
  ASSUME ScansInv, UNCHANGED <<results, cache, listed, registering>>
  PROVE  ScansInv'
  BY DEF ScansInv, Shaped, FindingsSound, ToldIsStored, OpenServersGuarded, registering,
         Bringing, Sound, Earned, Enhanced

LEMMA DetectStep ==
  ASSUME ScansInv, NEW s \in Scans, DetectMCPServerAtAddress(s)
  PROVE  ScansInv'
<1>1. UNCHANGED <<cache, listed, registering>>
  BY DEF DetectMCPServerAtAddress
<1>2. CASE UNCHANGED results
  BY <1>1, <1>2, QuietStep
<1>3. ASSUME NEW f \in Detections,
             results' = [results EXCEPT ![s] = @ \cup {Server(<<asks[s][1], s>>, f)}]
      PROVE  ScansInv'
  <2>1. PICK a \in Answers : DetectMCPServer(a) # Nothing /\ f = Finding(DetectMCPServer(a), {a})
    BY DEF Detections
  <2>2. Sound(f)
    BY <2>1, DetectionSound, DiscoveryAssumption
  <2>3. Sound(Server(<<asks[s][1], s>>, f).finding)
    BY <2>2 DEF Server
  <2>4. /\ results' = [t \in Scans |-> results'[t]]
        /\ \A t \in Scans : \A server \in results'[t] : Sound(server.finding)
    BY <1>3, <2>3 DEF ScansInv, Shaped, FindingsSound
  <2> QED
    BY <1>1, <2>4
    DEF ScansInv, Shaped, FindingsSound, ToldIsStored, OpenServersGuarded, registering
<1> QED
  BY <1>2, <1>3 DEF DetectMCPServerAtAddress

LEMMA CacheStep ==
  ASSUME ScansInv, NEW s \in Scans, CacheServers(s)
  PROVE  ScansInv'
  BY DEF CacheServers, ScansInv, Shaped, FindingsSound, ToldIsStored, OpenServersGuarded,
         registering

LEMMA InterrogateStep == ASSUME ScansInv, DetectAndInterrogate PROVE ScansInv'
<1>1. PICK d \in Addresses, e \in Endpoints :
        \E f \in Interrogations[e] : listed' = [listed EXCEPT ![<<d, e>>] = Server(<<d, e>>, f)]
  BY DEF DetectAndInterrogate
<1>2. UNCHANGED <<scanning, registering>>
  BY DEF DetectAndInterrogate
<1>3. PICK f \in Interrogations[e] : listed' = [listed EXCEPT ![<<d, e>>] = Server(<<d, e>>, f)]
  BY <1>1
<1>4. PICK a \in Answers, b \in Received, flawed \in Validations :
        /\ ParseMCPResponse(a, e) # Nothing
        /\ f = Interrogated(e, a, b, flawed)
  <2>1. f \in UNION {{Interrogated(e, a, b, flawed) : b \in Received, flawed \in Validations} :
                       a \in {x \in Answers : ParseMCPResponse(x, e) # Nothing}}
    BY DEF Interrogations, Interrogated
  <2>2. PICK a \in Answers :
          /\ ParseMCPResponse(a, e) # Nothing
          /\ f \in {Interrogated(e, a, b, flawed) : b \in Received, flawed \in Validations}
    BY <2>1
  <2>3. PICK b \in Received, flawed \in Validations : f = Interrogated(e, a, b, flawed)
    BY <2>2
  <2> QED
    BY <2>2, <2>3
<1>5. b \in AllAnswers \cup {Nothing}
  BY DiscoveryAssumption DEF Received, MakeMCPRequest, Endpoints
<1>6. Earned(f)
  BY <1>4, <1>5, InterrogationSound, DiscoveryAssumption
<1>7. Earned(Server(<<d, e>>, f).finding)
  BY <1>6 DEF Server
<1>8. /\ listed' = [i \in Addresses \X Endpoints |-> listed'[i]]
      /\ \A i \in Addresses \X Endpoints : listed'[i] # Nothing => Earned(listed'[i].finding)
  BY <1>3, <1>7 DEF ScansInv, Shaped, FindingsSound
<1> QED
  BY <1>2, <1>8
  DEF ScansInv, Shaped, FindingsSound, ToldIsStored, OpenServersGuarded, scanning, registering

\* A registration begins with an adapter that is guarded where it must be.
LEMMA BeginStep ==
  ASSUME ScansInv, NEW h \in Handlers, NEW step, NEW name, NEW server, NEW guarded,
         Begin(h, step, Adapter(name, server, guarded)),
         server.finding.open => guarded,
         UNCHANGED <<scanning, listed, adapters, told>>
  PROVE  ScansInv'
<1>1. Bringing([step |-> step, adapter |-> Adapter(name, server, guarded)])
  BY DEF Bringing, Adapter
<1>2. /\ at' = [k \in Handlers |-> at'[k]]
      /\ \A k \in Handlers : at'[k] # Nothing => Bringing(at'[k])
  BY <1>1 DEF Begin, ScansInv, Shaped
<1> QED
  BY <1>2 DEF ScansInv, Shaped, FindingsSound, ToldIsStored, OpenServersGuarded, scanning

LEMMA RegisterServerStep ==
  ASSUME ScansInv, NEW h \in Handlers, RegisterServer(h) PROVE ScansInv'
<1>1. PICK server \in cache :
        LET name == <<"discovered", Place[server.address][1], seconds>>
        IN Begin(h, "create", Adapter(name, server, Enhanced(server.finding)))
  BY DEF RegisterServer
<1>2. server.finding.open => Enhanced(server.finding)
  BY DEF ScansInv, FindingsSound, Sound
<1> QED
  BY <1>1, <1>2, BeginStep DEF RegisterServer

LEMMA RegisterDiscoveredServerStep ==
  ASSUME ScansInv, NEW h \in Handlers, RegisterDiscoveredServer(h) PROVE ScansInv'
  BY BeginStep DEF RegisterDiscoveredServer

LEMMA DiscoverToolsStep ==
  ASSUME ScansInv, NEW h \in Handlers, DiscoverTools(h) PROVE ScansInv'
<1>1. at[h] # Nothing /\ Bringing(at[h])
  BY DEF DiscoverTools, ScansInv
<1>2. at' = [at EXCEPT ![h] = [step |-> "store", adapter |-> at[h].adapter]]
        \/ at' = [at EXCEPT ![h] = Nothing]
  BY <1>1 DEF DiscoverTools, EndRegistration, Bringing
<1>3. Bringing([step |-> "store", adapter |-> at[h].adapter])
  BY <1>1 DEF Bringing
<1>4. /\ at' = [k \in Handlers |-> at'[k]]
      /\ \A k \in Handlers : at'[k] # Nothing => Bringing(at'[k])
  BY <1>2, <1>3 DEF ScansInv, Shaped
<1> QED
  BY <1>4
  DEF DiscoverTools, ScansInv, Shaped, FindingsSound, ToldIsStored, OpenServersGuarded, scanning

\* An adapter is stored and its registration told of it, or neither.
LEMMA StoreStep ==
  ASSUME ScansInv, NEW h \in Handlers, CreateAdapter(h) \/ UpsertAsync(h) PROVE ScansInv'
<1>1. /\ at[h] # Nothing /\ Bringing(at[h])
      /\ Store(at[h].adapter) /\ at' = [at EXCEPT ![h] = Nothing]
      /\ UNCHANGED <<scanning, listed>>
  BY DEF CreateAdapter, UpsertAsync, EndRegistration, ScansInv
<1>2. /\ at' = [k \in Handlers |-> at'[k]]
      /\ \A k \in Handlers : at'[k] # Nothing => Bringing(at'[k])
  BY <1>1 DEF ScansInv, Shaped
<1>3. ToldIsStored' /\ OpenServersGuarded'
  BY <1>1 DEF Store, Bringing, ScansInv, ToldIsStored, OpenServersGuarded
<1> QED
  BY <1>1, <1>2, <1>3 DEF ScansInv, Shaped, FindingsSound, scanning

LEMMA ScansInvariance == ScansSpec => []ScansInv
<1>1. ASSUME ScansInv, [ScansNext]_scanVars PROVE ScansInv'
  <2>1. ASSUME NEW s \in Scans, StartScan(s) \/ NextAddress(s) \/ CompleteScan(s)
        PROVE  ScansInv'
    BY <1>1, <2>1, QuietStep DEF StartScan, NextAddress, CompleteScan
  <2>2. CASE Tick \/ UNCHANGED scanVars
    BY <1>1, <2>2, QuietStep DEF Tick, scanVars, scanning, registering
  <2> QED
    BY <1>1, <2>1, <2>2, DetectStep, CacheStep, InterrogateStep, RegisterServerStep,
       RegisterDiscoveredServerStep, DiscoverToolsStep, StoreStep
    DEF ScansNext, RunScan
<1> QED
  BY InitScansInv, <1>1, PTL DEF ScansSpec

\* Whatever else is registered between its check of the name and its storing the adapter, a
\* registration is told of an adapter that is there, as it was told.
THEOREM ToldTheTruth == ScansSpec => []ToldIsStored
  BY ScansInvariance, PTL DEF ScansInv

\* Through DiscoveryService's cache or NetworkScanner's list, no open server becomes an adapter
\* that asks for nothing.
THEOREM GuardsAreSet == ScansSpec => []OpenServersGuarded
  BY ScansInvariance, PTL DEF ScansInv

\* The vulnerability scores of all servers that are found say what their answers have shown.
THEOREM ScoresAreTrue == ScansSpec => []ScoresAreEarned
<1>1. ASSUME ScansInv PROVE ScoresAreEarned
  <2>1. ASSUME NEW server \in Known \cup cache PROVE Earned(server.finding)
    <3>1. CASE server \in cache
      BY <1>1, <3>1 DEF ScansInv, FindingsSound, Sound
    <3>2. CASE server \in Known
      <4>1. DOMAIN listed = Addresses \X Endpoints
        BY <1>1 DEF ScansInv, Shaped
      <4> QED
        BY <1>1, <3>2, <4>1 DEF ScansInv, FindingsSound, Known
    <3> QED
      BY <2>1, <3>1, <3>2
  <2> QED
    BY <2>1 DEF ScoresAreEarned, Earned
<1> QED
  BY ScansInvariance, <1>1, PTL
=============================================================================
