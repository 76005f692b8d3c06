--------------------------- MODULE PluginServices ---------------------------
(***************************************************************************)
(* The ServiceManager of plugin services, beside the registry it lists the *)
(* implementations of VirtualMCP services in.                              *)
(*                                                                         *)
(* One goroutine goes round: it probes the services it found, one after    *)
(* the other, then asks the VirtualMCP ones for their implementations.     *)
(* Every registration of such a service starts a goroutine that asks, too. *)
(* Services are registered, replaced and unregistered in between.          *)
(***************************************************************************)
EXTENDS Registry

CONSTANTS
    Services,          \* service IDs
    Impls,             \* the implementations a VirtualMCP service may list
    Enabled,           \* the service types that may register
    MaxRegistrations,  \* bound: registrations
    Round,             \* the goroutine that goes round
    None               \* "not registered", "no entry"

ASSUME ListAssumption == Services \X Impls \subseteq Others
ASSUME EnabledAssumption == Enabled \subseteq {"virtualmcp", "other"}
ASSUME RegistrationsAssumption == MaxRegistrations \in Nat
ASSUME RoundAssumption == Round \notin 1..MaxRegistrations

VARIABLES
    services,   \* ServiceManager.services: number and type of the registration
    health,     \* serviceHealth: whose probe it tells of, 0 for "unknown"
    last,       \* number of the last registration
    loop,       \* where the goroutine that goes round is
    discovery,  \* what each discoverMCPImplementations is doing
    \* History.
    seen,       \* services registered as VirtualMCP since the start
    raced       \* services that changed while they were probed

managerVars == <<services, health, last, loop, discovery, seen, raced>>
vars == <<registryVars, managerVars>>

Registrations == 1..MaxRegistrations
Registration == [number : Registrations, type : {"virtualmcp", "other"}]

ASSUME NoneAssumption == None \notin Registration

\* The goroutines that discover: one for each registration, and the round.
Discoverers == Registrations \cup {Round}

TypeOK ==
    /\ RegistryTypeOK
    /\ services \in [Services -> Registration \cup {None}]
    /\ health \in [Services -> {None} \cup 0..MaxRegistrations]
    /\ last \in 0..MaxRegistrations
    /\ loop \in [at : {"idle", "health", "check", "sync"}, ids : SUBSET Services,
                 service : Services \cup {None}, registration : Registration \cup {None}]
    /\ discovery \in [Discoverers -> [at : {"idle", "fetch", "upload"},
                                      service : Services \cup {None}, todo : SUBSET Impls]]
    /\ seen \in SUBSET Services
    /\ raced \in SUBSET Services

Quiet == [at |-> "idle", service |-> None, todo |-> {}]
Resting == [at |-> "idle", ids |-> {}, service |-> None, registration |-> None]

Init ==
    /\ RegistryInit
    /\ services = [s \in Services |-> None]
    /\ health = [s \in Services |-> None]
    /\ last = 0
    /\ loop = Resting
    /\ discovery = [d \in Discoverers |-> Quiet]
    /\ seen = {}
    /\ raced = {}

-----------------------------------------------------------------------------
(* Registration.                                                           *)

Probed(s) == loop.at = "check" /\ loop.service = s

\* The registration of s changes: a probe of the old one may still end.
Race(s) == raced' = IF Probed(s) THEN raced \cup {s} ELSE raced \ {s}

Asks(s) == [at |-> "fetch", service |-> s, todo |-> {}]

\* Variant: every service is asked for implementations.
RegisterAsksAll(s, type) ==
    /\ up /\ last < MaxRegistrations /\ type \in Enabled
    /\ last' = last + 1
    /\ services' = [services EXCEPT ![s] = [number |-> last', type |-> type]]
    /\ health' = [health EXCEPT ![s] = 0]
    /\ discovery' = [discovery EXCEPT ![last'] = Asks(s)]
    /\ seen' = IF type = "virtualmcp" THEN seen \cup {s} ELSE seen
    /\ Race(s)
    /\ UNCHANGED <<registryVars, loop>>

\* A registration replaces the one before without a question.
RegisterService(s, type) ==
    /\ up /\ last < MaxRegistrations /\ type \in Enabled
    /\ last' = last + 1
    /\ services' = [services EXCEPT ![s] = [number |-> last', type |-> type]]
    /\ health' = [health EXCEPT ![s] = 0]
    /\ IF type = "virtualmcp"
       THEN /\ discovery' = [discovery EXCEPT ![last'] = Asks(s)]
            /\ seen' = seen \cup {s}
       ELSE UNCHANGED <<discovery, seen>>
    /\ Race(s)
    /\ UNCHANGED <<registryVars, loop>>

\* Variant: the health entry is left.
UnregisterKeepsHealth(s) ==
    /\ up /\ services[s] # None
    /\ services' = [services EXCEPT ![s] = None]
    /\ Race(s)
    /\ UNCHANGED <<registryVars, health, last, loop, discovery, seen>>

UnregisterService(s) ==
    /\ up /\ services[s] # None
    /\ services' = [services EXCEPT ![s] = None]
    /\ health' = [health EXCEPT ![s] = None]
    /\ Race(s)
    /\ UNCHANGED <<registryVars, last, loop, discovery, seen>>

-----------------------------------------------------------------------------
(* The round.                                                              *)

Registered == {s \in Services : services[s] # None}

\* Variant: the list is not made anew, and the last service is still on it.
StartRoundAgain ==
    /\ up /\ loop.at = "idle"
    /\ loop' = [loop EXCEPT !.at = "health", !.ids = Registered \cup {loop.service}]
    /\ UNCHANGED <<registryVars, services, health, last, discovery, seen, raced>>

\* performHealthChecks lists the services.
StartRound ==
    /\ up /\ loop.at = "idle"
    /\ loop' = [loop EXCEPT !.at = "health", !.ids = Registered]
    /\ UNCHANGED <<registryVars, services, health, last, discovery, seen, raced>>

\* The next one, if it is still registered, is probed without the lock.
ProbeService(s) ==
    /\ loop.at = "health" /\ s \in loop.ids
    /\ loop' = IF services[s] = None
               THEN [loop EXCEPT !.ids = @ \ {s}]
               ELSE [at |-> "check", ids |-> loop.ids \ {s},
                     service |-> s, registration |-> services[s]]
    /\ UNCHANGED <<registryVars, services, health, last, discovery, seen, raced>>

\* Variant: the probe waits for the service without a timeout.
UpdateAnswered ==
    /\ loop.at = "check" /\ loop.registration.type = "other"
    /\ health' = [health EXCEPT ![loop.service] = loop.registration.number]
    /\ raced' = IF services[loop.service] = loop.registration THEN raced \ {loop.service} ELSE raced
    /\ loop' = [loop EXCEPT !.at = "health", !.service = None, !.registration = None]
    /\ UNCHANGED <<registryVars, services, last, discovery, seen>>

\* The probe ends, with an answer or after five seconds, and its result is
\* stored whatever has become of the service.
UpdateServiceHealth ==
    /\ loop.at = "check"
    /\ health' = [health EXCEPT ![loop.service] = loop.registration.number]
    /\ raced' = IF services[loop.service] = loop.registration THEN raced \ {loop.service} ELSE raced
    /\ loop' = [loop EXCEPT !.at = "health", !.service = None, !.registration = None]
    /\ UNCHANGED <<registryVars, services, last, discovery, seen>>

\* performMCPSync lists the VirtualMCP services.
StartSync ==
    /\ loop.at = "health" /\ loop.ids = {}
    /\ loop' = [loop EXCEPT !.at = "sync",
                            !.ids = {s \in Registered : services[s].type = "virtualmcp"}]
    /\ UNCHANGED <<registryVars, services, health, last, discovery, seen, raced>>

\* The next one, if it is still registered, is asked; its type is not looked
\* at again.
SyncService(s) ==
    /\ loop.at = "sync" /\ s \in loop.ids /\ discovery[Round].at = "idle"
    /\ loop' = [loop EXCEPT !.ids = @ \ {s}]
    /\ discovery' = IF services[s] = None THEN discovery
                    ELSE [discovery EXCEPT ![Round] = Asks(s)]
    /\ UNCHANGED <<registryVars, services, health, last, seen, raced>>

EndRound ==
    /\ loop.at = "sync" /\ loop.ids = {} /\ discovery[Round].at = "idle"
    /\ loop' = Resting
    /\ UNCHANGED <<registryVars, services, health, last, discovery, seen, raced>>

-----------------------------------------------------------------------------
(* discoverMCPImplementations.                                             *)

\* The service answers with implementations, or with none, or not at all.
Fetch(d) ==
    /\ discovery[d].at = "fetch"
    /\ \E found \in SUBSET Impls :
         discovery' = [discovery EXCEPT ![d] =
             IF found = {} THEN Quiet ELSE [@ EXCEPT !.at = "upload", !.todo = found]]
    /\ UNCHANGED <<registryVars, services, health, last, loop, seen, raced>>

\* The next implementation is entered; a save that fails ends it.
List(d) ==
    LET s == discovery[d].service
        todo == discovery[d].todo
    IN  /\ discovery[d].at = "upload"
        /\ \E i \in todo, saved \in Saves :
             /\ Create(<<s, i>>, saved)
             /\ discovery' = [discovery EXCEPT ![d] =
                    IF saved /\ todo # {i} THEN [@ EXCEPT !.todo = todo \ {i}] ELSE Quiet]
        /\ UNCHANGED <<up, reload, disturbed, byHand, services, health, last, loop, seen, raced>>

-----------------------------------------------------------------------------
\* Nothing of the manager is on disk.
RestartAll ==
    /\ Restart
    /\ services' = [s \in Services |-> None]
    /\ health' = [s \in Services |-> None]
    /\ loop' = Resting
    /\ discovery' = [d \in Discoverers |-> Quiet]
    /\ seen' = {}
    /\ raced' = {}
    /\ UNCHANGED last

RoundStep ==
    \/ StartRound \/ UpdateServiceHealth \/ StartSync \/ EndRound
    \/ \E s \in Services : ProbeService(s) \/ SyncService(s)
    \/ Fetch(Round) \/ List(Round)

Next ==
    \/ RegistryNext /\ UNCHANGED managerVars
    \/ \E s \in Services, type \in {"virtualmcp", "other"} : RegisterService(s, type)
    \/ \E s \in Services : UnregisterService(s)
    \/ RoundStep
    \/ \E d \in Registrations : Fetch(d) \/ List(d)
    \/ RestartAll

\* The ticker ticks, probes and requests end after their timeouts, and the
\* scheduler runs the goroutine.
Fairness == WF_vars(RoundStep)

Spec == Init /\ [][Next]_vars /\ Fairness

-----------------------------------------------------------------------------
(* Properties.                                                             *)

\* A registered service has a health entry, which tells of this registration
\* or that nothing is known, and one that is not has none: unless it changed
\* while a probe was under way, and no probe has corrected it since.
HealthOfRegistered ==
    \A s \in Services \ raced :
        IF services[s] = None THEN health[s] = None
        ELSE health[s] \in {0, services[s].number}

\* A service that stays registered gets a health entry of its own, even after
\* the probe of an earlier registration was stored over it.
HealthCatchesUp ==
    \A s \in Services, n \in Registrations :
        (services[s] # None /\ services[s].number = n)
          ~> (services[s] = None \/ services[s].number # n \/ health[s] = n)

\* Entries of implementations are of services that registered as VirtualMCP
\* since the start, whatever the file still held of the run before.
EntriesHaveSource ==
    up => \A s \in Services, i \in Impls :
        <<s, i>> \in registry => s \in seen \/ <<s, i>> \in byHand
=============================================================================
