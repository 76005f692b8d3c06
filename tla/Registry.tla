------------------------------ MODULE Registry ------------------------------
(***************************************************************************)
(* The MCP registry: FileMCPServerStore, the API of RegistryHandler and    *)
(* DefaultRegistryManager, which loads the catalogue at start and on       *)
(* POST /registry/reload.                                                  *)
(*                                                                         *)
(* A reload is many store calls: Clear lists the entries and deletes them  *)
(* one by one, then the entries of the source are created one by one, and  *)
(* every call saves the whole map.  Other reloads, the API and the plugin  *)
(* manager run in between.  Of an entry only its ID is modelled.           *)
(***************************************************************************)
EXTENDS Naturals

CONSTANTS
    Keys,     \* the IDs of entries
    Remote,   \* the IDs that the source at MCPRegistryURL lists
    Local,    \* the IDs that config/mcp_registry.yaml lists
    Reloads,  \* the requests that reload
    Boot,     \* the load at start
    HasURL,   \* MCPRegistryURL is configured
    Saves     \* the outcomes of saving: {TRUE}, or BOOLEAN for a disk that fails

ASSUME SourceAssumption == Remote \subseteq Keys /\ Local \subseteq Keys
ASSUME BootAssumption == Boot \notin Reloads
ASSUME SavesAssumption == Saves \subseteq BOOLEAN

VARIABLES
    up,        \* the server answers requests
    registry,  \* FileMCPServerStore.servers
    file,      \* its file
    reload,    \* where each load is and what it has still to do
    \* History.
    disturbed, \* of the catalogue: deleted by hand, or left out by a load that failed
    byHand     \* of no source: uploaded by hand, or left by a Clear that failed

store == <<registry, file>>
registryVars == <<up, store, reload, disturbed, byHand>>

Loads == Reloads \cup {Boot}

\* What every source lists.
Catalogue == Remote \cap Local

\* What no source lists.
Others == Keys \ (Remote \cup Local)

RegistryTypeOK ==
    /\ up \in BOOLEAN
    /\ registry \in SUBSET Keys /\ file \in SUBSET Keys
    /\ reload \in [Loads -> [at : {"idle", "clear", "remote", "local"}, todo : SUBSET Keys]]
    /\ disturbed \in SUBSET Catalogue
    /\ byHand \in SUBSET Others

Idle == [at |-> "idle", todo |-> {}]

Goto(l, at, todo) == reload' = [reload EXCEPT ![l] = [at |-> at, todo |-> todo]]

\* Before the server answers anybody, it clears what it has read and loads.
Booting(read) ==
    [l \in Loads |-> IF l = Boot THEN [at |-> "clear", todo |-> read] ELSE Idle]

\* The first start finds any file; one it cannot read or decrypt is ignored.
RegistryInit ==
    /\ up = FALSE
    /\ file \in SUBSET Keys
    /\ registry \in {file, {}}
    /\ reload = Booting(registry)
    /\ disturbed = {}
    /\ byHand = {}

-----------------------------------------------------------------------------
(* The store: every change saves the whole map, and a failed save leaves   *)
(* the change in memory.                                                   *)

Save(saved) == file' = IF saved THEN registry' ELSE file

Create(k, saved) == registry' = registry \cup {k} /\ Save(saved)

Delete(k, saved) == registry' = registry \ {k} /\ Save(saved)

-----------------------------------------------------------------------------
(* The API.                                                                *)

\* UploadRegistryEntry, each turn of UploadBulkRegistryEntries, UploadLocalMCP.
Upload(k) ==
    /\ up
    /\ \E saved \in Saves : Create(k, saved)
    /\ disturbed' = disturbed \ {k}
    /\ byHand' = byHand \cup ({k} \cap Others)
    /\ UNCHANGED <<up, reload>>

UpdateMCPServer(k) ==
    /\ up /\ k \in registry
    /\ UNCHANGED registry
    /\ \E saved \in Saves : Save(saved)
    /\ UNCHANGED <<up, reload, disturbed, byHand>>

DeleteMCPServer(k) ==
    /\ up /\ k \in registry
    /\ \E saved \in Saves : Delete(k, saved)
    /\ disturbed' = disturbed \cup ({k} \cap Catalogue)
    /\ UNCHANGED <<up, reload, byHand>>

\* Where the URL gives the catalogue, the registry is cleared; where it does
\* not, the entries of the file are put on top of what is there.
ReloadRegistry(r) ==
    /\ up /\ reload[r].at = "idle"
    /\ \/ HasURL /\ Goto(r, "clear", registry)
       \/ Goto(r, "local", Local)
    /\ UNCHANGED <<up, store, disturbed, byHand>>

-----------------------------------------------------------------------------
(* The steps of a load.                                                    *)

\* Load l ends without the entries of left.
End(l, left) ==
    /\ Goto(l, "idle", {})
    /\ up' = (up \/ l = Boot)
    /\ disturbed' = disturbed \cup (left \cap Catalogue)

\* Clear has returned, with or without an error.  A reload has fetched the
\* entries already; at start the URL and the file may both fail.
AfterClear(l) ==
    /\ byHand' = IF l = Boot THEN registry' \cap Others ELSE byHand
    /\ \/ /\ l # Boot \/ HasURL
          /\ Goto(l, "remote", Remote)
          /\ UNCHANGED <<up, disturbed>>
       \/ /\ l = Boot
          /\ \/ Goto(l, "local", Local) /\ UNCHANGED <<up, disturbed>>
             \/ End(l, Keys)

\* Variant: an error of Clear ends the reload.
ClearAborts(l) ==
    /\ reload[l].at = "clear"
    /\ \/ reload[l].todo = {} /\ UNCHANGED store /\ AfterClear(l)
       \/ \E k \in reload[l].todo :
            \/ k \notin registry /\ UNCHANGED <<store, byHand>> /\ End(l, {})
            \/ /\ k \in registry
               /\ Delete(k, TRUE)
               /\ Goto(l, "clear", reload[l].todo \ {k})
               /\ UNCHANGED <<up, disturbed, byHand>>

\* Clear: the next entry of the list is deleted.  An entry that is gone, or a
\* save that fails, ends Clear with an error, which is logged.
Clear(l) ==
    /\ reload[l].at = "clear"
    /\ \/ reload[l].todo = {} /\ UNCHANGED store /\ AfterClear(l)
       \/ \E k \in reload[l].todo :
            \/ k \notin registry /\ UNCHANGED store /\ AfterClear(l)
            \/ /\ k \in registry /\ TRUE \in Saves
               /\ Delete(k, TRUE)
               /\ Goto(l, "clear", reload[l].todo \ {k})
               /\ UNCHANGED <<up, disturbed, byHand>>
            \/ /\ k \in registry /\ FALSE \in Saves
               /\ Delete(k, FALSE)
               /\ AfterClear(l)

\* UploadRegistryEntries: the next entry of the source is created.  A save
\* that fails ends the upload; after the URL's entries the file is tried.
UploadRegistryEntries(l) ==
    LET todo == reload[l].todo
    IN  /\ reload[l].at \in {"remote", "local"}
        /\ UNCHANGED byHand
        /\ \/ todo = {} /\ End(l, {}) /\ UNCHANGED store
           \/ \E k \in todo :
                \/ /\ TRUE \in Saves
                   /\ Create(k, TRUE)
                   /\ Goto(l, reload[l].at, todo \ {k})
                   /\ disturbed' = disturbed \ {k}
                   /\ UNCHANGED up
                \/ /\ FALSE \in Saves
                   /\ Create(k, FALSE)
                   /\ \/ /\ reload[l].at = "remote"
                         /\ Goto(l, "local", Local)
                         /\ UNCHANGED <<up, disturbed>>
                      \/ End(l, todo \ {k})

\* The process is killed and starts again.
Restart ==
    /\ up' = FALSE
    /\ registry' \in {file, {}} /\ UNCHANGED file
    /\ reload' = Booting(registry')
    /\ disturbed' = {}
    /\ byHand' = {}

RegistryNext ==
    \/ \E k \in Keys : Upload(k) \/ UpdateMCPServer(k) \/ DeleteMCPServer(k)
    \/ \E r \in Reloads : ReloadRegistry(r)
    \/ \E l \in Loads : Clear(l) \/ UploadRegistryEntries(l)

-----------------------------------------------------------------------------
(* Properties.                                                             *)

\* Load l has still to create the entry k of the catalogue.
Owes(l, k) == reload[l].at = "clear" \/ (reload[l].at \in {"remote", "local"} /\ k \in reload[l].todo)

\* However reloads overlap each other, and whatever Clear deletes of what
\* another one has just created: when no reload owes it any more, an entry
\* that every source lists is in the registry, unless somebody deleted it or
\* a load failed.
CatalogueComplete ==
    \A k \in Catalogue \ disturbed : k \notin registry => \E l \in Loads : Owes(l, k)
=============================================================================
