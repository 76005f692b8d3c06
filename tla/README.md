# SUSE AI Universal Proxy: a TLA+ model

Specifications of the concurrent core of the Universal Proxy (`src/`): who
belongs to which group and which adapters that lets them use, how adapters, their
tokens and their Kubernetes objects come and go, how networks are scanned and what
is found becomes an adapter, how MCP requests reach a local process or a remote
server and come back, what is cached on the way, and how the registry is loaded
while plugin services add to it. TLC checks each of them on small instances; TLAPS
proves for every instance the safety properties of the membership stores and the
access decisions that rest on them, of the adapters with their sidecars, tokens and
credentials, of the management service, of the streamable transport's caches, of the
stdio bridge and the remote proxy, of scans from their jobs to the registration of
what they find, and of the registry with its plugin services.

The program is one Go process. Every HTTP request runs in its own goroutine,
the stores are maps behind an `RWMutex` that are written to a JSON file after
each change, and almost every operation of interest makes *several* store or
network calls with no lock held in between. That is where the difficulty lies,
and one action of a module is one such call.

## 1. The system

| component | state it keeps | operations | what is hard |
|---|---|---|---|
| Users, groups and membership (`pkg/services/user_group.go`, `pkg/clients/user_group_store.go`, `internal/handlers/user_group.go`, logins in `pkg/auth/user_middleware.go`) | two maps with a file each; a membership is stored in both (`user.Groups`, `group.Members`) | create, update, delete users and groups; add and remove members; logins rewrite the user | two stores without a common lock, rollback, read-modify-write of whole copies, saves that fail, restarts |
| Adapter service (`pkg/services/adapters/service.go`, the adapter and assignment stores, `internal/handlers/adapters.go`, `token_handler.go`) | adapters, their status, credentials and group assignments | create, update, delete, sync, check health, assign, unassign, hand out and renew tokens | creation takes ten seconds and a dozen calls; anything may run or fail in between; copies that share a pointer |
| Sidecar manager (`pkg/proxy/sidecar_manager.go`) | Deployments and Services of the cluster | deploy, clean up | calls that are refused, or done while the answer is lost |
| Access control (`service.go`, `user_group.go`, `internal/service/authorization.go`) | none (reads the stores) | decide | decisions made by one store call after the other, while what they read changes |
| Scan jobs and discovery store (`pkg/scanner/scan_manager.go`, `discovery_store.go`) | jobs with a status, discovered servers | start, cancel, list, clean up | a job's goroutine beside API calls; a mutex taken twice |
| Network scanner (`pkg/scanner/network_scanner.go`) | targets, scan cache, channels | scan, recognise, interrogate, score | goroutine per target, semaphore, bounded channel, wait group; many kinds of answers |
| Discovery service and registration (`internal/service/discovery.go`, `internal/handlers/registration.go`) | scans, a cache of servers | scan, recognise, score, register as an adapter | names that collide, a check of the name before the store call |
| Stdio bridge (`pkg/proxy/stdio_to_http.go`, `local_stdio.go`) | sessions, processes, pending requests | initialize, request, event stream | answers routed by an id the client chose; timeouts, processes that exit or stop reading |
| Remote proxies (`pkg/proxy/remote_http*.go`, `sidecar_proxy.go`) | sessions with the remote end, pending requests, streams | forward, stream, broadcast | one map of pending ids for all sessions; clients that do not read |
| MCP client, router, protocol (`pkg/mcp`) | load counters, circuit states | route, list, initialize | three stores written by one request, one call at a time |
| MCP cache, capability cache (`pkg/mcp/cache.go`, `capability_cache.go`) | entries with expiry, statistics | get, set, invalidate, evict | capacity, expiry, invalidation against a fetch in flight |
| Sessions and tokens (`pkg/session/store.go`, `pkg/mcp/session_manager.go`, `pkg/auth/token_manager.go`) | sessions, tokens | create, refresh, expire, revoke | a record replaced while others write its fields |
| Server and management service (`cmd/uniproxy`, `internal/service/management.go`, `proxy.go`) | StatefulSets, sessions | create, update, refresh, delete; forward | the cluster and the store changed one after the other |
| Plugin manager (`pkg/plugins/manager.go`) | services, their capabilities, health | register, unregister, health round, sync, discovery | probes and discoveries that outlive their service |
| Registry (`internal/handlers/registry.go`, `registry_manager.go`, `mcp_server_store_file.go`, the load in `main.go`) | entries with a file | upload, update, delete, reload, load at start | a reload is many store calls and overlaps others; saves that fail half way |
| Encrypted file stores (`pkg/clients/crypto.go`) | files | load, save | a key that changed, a file that does not parse |
| Monitoring and security (`pkg/mcp/monitoring.go`, `security.go`), infrastructure | counters, filters | | mostly input and output |

How they interact: handlers call the services, the services call the stores.
`AdapterService.CreateAdapter` calls the adapter store, the sidecar manager, the
sidecar itself over HTTP, then lists groups of the user/group service and writes
the assignment store. Access checks read `user.Groups` of the user store (never
`group.Members`) and the assignment store. `ScanManager` starts a goroutine per
job, which calls `NetworkScanner.Scan` and then the discovery store; a
registration reads what was found and stores an adapter, `DiscoveryService`
through `ManagementService`. The stdio bridge calls `LocalStdioProxyPlugin`, which
keeps one process per adapter for all sessions. The session store is shared by
`ManagementService`, the proxy handler and its plugins, the authorization service,
`RemoteHTTPProxyAdapter` and the protocol handler. The token handler changes the
credentials with which `validateClientAuthentication` compares. `RunUniproxy`
loads the registry before it serves; the handlers reload it, and `ServiceManager`
enters the implementations of its services through the same
`DefaultRegistryManager`. `RunUniproxy` builds everything from the files in the
data directory; whether there is a `SidecarManager` at all depends on the kube
config found then.

What makes each correct, in a sentence: *membership* – the two stores tell the
same about a user when nothing is working on it, and an answer tells the truth;
*access* – a decision goes by groups the user was in, and one that nothing crossed
is the right one; *adapters* – no Kubernetes object without the adapter through
which it can be deleted, and a status that follows the probes; *tokens* – what was
replaced or revoked stays so, over a restart too, and passes to no other adapter;
*scan jobs* – the status tells where the goroutine is, an end is final, every job
ends; *network scan* – no result lost, the scan ends; *discovery* – the adapter
somebody was told of is the one stored, an open server gets a guard, a score is
earned; *stdio bridge* and *remote proxy* – a request gets its own answer or none,
events stay in their session, nothing leaks, every request ends; *caches* – a hit
was stored under its key, and what was forgotten stays forgotten; *registry* –
overlapping loads lose nothing of the catalogue; *plugin manager* – health follows
the registrations, and entries have a source; *management* – StatefulSets and
stored adapters agree at rest.

Not every component is on the way of a request in the server as it is wired:
`RunUniproxy` reaches neither `StreamableHTTPTransport`, `MessageRouter.RouteMessage`,
`RemoteHTTPProxyAdapter`, `MCPService`, most services of `internal/service`,
`RegistrationHandler`, `AdapterAuthMiddleware` nor `MCPAuthIntegrationService`. They
are modelled as the libraries they are, with requests of any kind at any time,
which is how their tests use them.

## 2. The modules

| module | models | actions and code |
|---|---|---|
| `Membership` | both stores, their files, the handlers that use them | `AddMember`, `AddGetUser`, `AddWriteUser`, `AddRollback` are the four store calls of `AddUserToGroup`; `RemoveMember`, `RemoveGetUser`, `RemoveWriteUser` those of `RemoveUserFromGroup`; `GetUserForUpdate`, `WriteUser` are `UpdateUser` and both logins; `GetGroupForUpdate`, `WriteGroup` are `UpdateGroup`; `CreateUser`, `DeleteUser`, `CreateGroup`, `DeleteGroup` are one store call each; `Restart` is `loadFromFile` |
| `Access` | who may use an adapter, over `Membership` | `GetAdapter`, `CanManageGroups`, `CheckManager`, `ListAll`, `ListOwn`, `GetUser`, `CheckReading`, `HasAccess`, `CheckAssigning`, `CheckOwner`, `CheckTarget` are the store calls by which `AdapterService` and its handlers decide; `UpdateAdapter`, `DeleteAdapter`, `AssignAdapterToGroup`, `RemoveAdapterFromGroup` what they then do |
| `AccessProofs` | theorems about `Membership` and, from their invariant, about `Access` | |
| `AdapterLifecycle` | adapter store and assignment store with their files, the cluster's objects, the requests on adapters | creation: `CreateAdapter` (with `GetSidecarConfig`, `Kind`, `Prepare`: what a server's metadata make of it), `Deploy`, `Expose`, `Undeploy`, `MarkFailed`, `Undo`, `Discover`, `ProbeNew`, `SaveNew`, `AssignNew`; deletion: `DeleteAdapter`, `Unexpose`, `RemoveDeployment`, `Remove`; `CheckAdapterHealth` and `Probe`; `SyncAdapterCapabilities`, `UpdateAdapter` and `Write`; `AssignAdapterToGroup` and `Grant`; `RemoveAdapterFromGroup`; `Restart` |
| `AdapterLifecycleProofs` | theorems about `AdapterLifecycle` | |
| `Commands` | what becomes of the command in a server's metadata, a pure module, over which `AdapterLifecycle` is | `Secrets`, `LookupTemplatedVariable`, `ProcessDockerTemplates` of `AdapterService`; the taking apart of docker commands and the scripts of the other kinds of `SidecarManager`, down to what a container is given |
| `AdapterTokens` | the bearer tokens of adapters, whose `Authentication` object all copies share | `GetAdapterToken`, `RefreshToken`, `ValidateToken`, `GenerateBearerToken`, `UpsertAsync` are `TokenHandler`; `CreateAdapter`, `UpdateAdapter` and `Update`, `SyncAdapter` and `WriteBack`, `DeleteAdapter` what writes an adapter back; `SaveToFile`, `LoadFromFile`, `Restart` the file |
| `Credentials` | an adapter's `AdapterAuthConfig` on both sides, a pure module, over which `AdapterTokens` is | validation and defaults; `validateClientAuthentication` and `AdapterAuthMiddleware`, which check a request; router, transport, remote proxies and `MCPAuthIntegrationService`, which sign one |
| `ScanJobs` | `ScanManager`'s jobs and the mutex of `InMemoryDiscoveryStore` | `StartScan`, `CancelJob`, `CleanupOldJobs`; `BeginScan`, `EndScan`, `TakeLock`, `EndSave` are `runScan` |
| `Ranges` | which addresses a scan looks at, a pure module, over which the next one and `DiscoveryScans` are | `IsValidScanRange`, `DefaultScanRanges`, `WithDefaults` of `DiscoveryHandler`; `ExpandIPRange`, `ExpandPorts` of `NetworkScanner`; `ExpandCIDR`, `ExpandPortsLeniently` of `DiscoveryService` |
| `NetworkScan` | one `NetworkScanner.Scan` of a request that `DiscoveryHandler` accepts | `ParsePorts`, `ExpandRange`, `ExpandForEver`, `Spawn`, `StartCollector`, `CloseChannel`, `Finish` are `Scan`; `MarkScanned`, `AcquireSemaphore`, `DetectMCPServer`, `SendResult`, `Release` the goroutine of a target; `Receive`, `EndCollector` the collector |
| `Detection` | what an answer to "initialize" is taken for, a pure module | `ParseMCPResponse`, `PerformDeepInterrogation` of `NetworkScanner`; `DetectMCPServer`, `AnalyzeAuthType` of `DiscoveryService`; `MakeMCPRequest`, `AuthRequired`, `InterrogateServer`, `ListTools`, `ListResources`, `ListPrompts`, `ValidateCapabilities` of `mcp.Client` |
| `ScanAndTokenProofs` | theorems about `ScanJobs`, `NetworkScan` and `AdapterTokens` with `Credentials` | |
| `DiscoveryScans` | both ways from a scan to an adapter, over `Detection` | `StartScan`, `NextAddress`, `DetectMCPServerAtAddress`, `CompleteScan`, `CacheServers`, `RegisterServer`, `CreateAdapter` are `DiscoveryService` with `ManagementService`; `DetectAndInterrogate`, `RegisterDiscoveredServer`, `DiscoverTools`, `UpsertAsync` the scanner and `RegistrationHandler` |
| `StdioBridge` | sessions, processes, pending requests and the pipes | `OpenStream`, `Initialize`, `Call` are JSON-RPC, `Refuse`, `handleMCPProxy`, `handleMCPToolCall` and the others over `Rest` the REST endpoints; `Register`, `LockProcess`, `Send`, `Receive`, `GiveUp`, `Leave` are the handlers (the mutex of a process is held by who is "writing" to it, `Writers`); `Answer`, `Stall` the MCP process (external); `handleStdioMessage` the listeners; `Exit`, `Monitor` the process and its monitor |
| `StdioBridgeProofs` | theorems about `StdioBridge` | |
| `SessionStore` | `InMemorySessionStore`, one operator per method that writes; instantiated by the next three | |
| `StreamableHTTP` | transport, router and protocol handler over `MCPCache`, the capability cache and the sessions | `Accept` is `HandleRequest`; `Get`, `Hit`, `ListFromAdapter`, `ProxyToTarget`, `StoreList` the three lists; `HandleInitialize`, `GetCapabilities`, `DiscoverCapabilities`, `StoreSession`, `StoreServerInfo`, `Relay` "initialize"; `InvalidateCapabilities`, `InvalidateList`, `UpdateSession` notifications |
| `StreamableHTTPProofs` | theorems about `StreamableHTTP` with both caches, and the step simulation of `LossyCache` | |
| `MCPCache` | the response cache | `Set`, `CountHit`, `Invalidate`, `Expire`, `Cleanup` |
| `LossyCache` | what a cache promises; `MCPCache` in `StreamableHTTP` implements it | |
| `RemoteHTTP` | `RemoteHTTPProxyAdapter` | `Accept`, `Register`, `ProxyToRemote`, `Answer`, `GiveUp`, `End` a POST; `OpenStream`, `Leave`, `CloseStream` a stream; `Connect`, `Push`, `Forward`, `EndFeed` the goroutine that copies the server's; `HandleRemoteMessage`, `Broadcast`, `WriteEvent`, `EndBroadcast` what both do with a message |
| `RemoteHTTPProofs` | theorems about `RemoteHTTP` | |
| `Management` | `ManagementService`, `ProxyHandler`, `SessionManagementService`, `AuthorizationService` over one store, one session store and one cluster | one action per call, see the module |
| `ManagementProofs` | theorems about `Management` | |
| `Registry` | `FileMCPServerStore` and its file, the registry's API, all loads | `Upload`, `UpdateMCPServer`, `DeleteMCPServer`, `ReloadRegistry` are the handlers; `Clear` and `UploadRegistryEntries` one store call each of a reload or of `loadRegistryFromFile`; `Restart` |
| `PluginServices` | `ServiceManager`, over `Registry` | `RegisterService`, `UnregisterService`; `StartRound`, `ProbeService`, `UpdateServiceHealth` are `performHealthChecks`, `StartSync`, `SyncService`, `EndRound` are `performMCPSync`; `Fetch` and `List` `discoverMCPImplementations`; `RestartAll` |
| `CatalogueProofs` | theorems about `PluginServices` with `Registry`, and about `DiscoveryScans` with `Detection` | |
| `MC...` | instances of the above for TLC | |

Operators introduced by a comment "Variant" are wrong versions of the definition
below them (a forgotten rollback, a check left out). They are in no specification:
putting one in place of its original must make TLC report the property that is
about it, which shows that the property can fail.

### What is abstracted

* **Data.** A user is its groups, a group its members, an adapter its kind
  (sidecar or not) and status, or in `Access` its owner and its assignments, or in
  `AdapterTokens` the object that holds its token. Names, timestamps, tool lists and
  wording are left out, as are permission checks outside `Access`: they only read,
  and a client that is refused is a client that does nothing.
* **Permissions.** In `Access` the permissions of a group go with its ID: they are
  given when it is created, and an update of them is like another group. The
  special case of the development user "dev-admin", who may do everything, is
  left out.
* **Copies.** `Get` returns a struct copy whose slices and pointers are shared.
  `RemoveUserFromGroup` takes the group out of its copy in place, which may take it
  out of the stored user as well before `Update` is called (`RemoveGetUser`). A copy
  of a user is else modelled by its value: that its array is shared shows only when
  another request on the same user edits it while the copy is alive, and such users
  are in `disturbed` (below). `UpdateGroup` may meet any number of requests on
  other users, each of which edits the array of its copy's `Members`. What it
  writes back is therefore its copy with any of the users who came or went
  meanwhile (`edited`, `CopyNow`); for each of them, and for whoever else is in the
  group or in the copy, nothing is claimed after that, since a slice that was edited in
  place may have lost a user or have one twice. A slice is a set in the model: that
  a user is in it twice is one of the things that concern users in `disturbed` only.
  In `AdapterTokens` the
  sharing of `Authentication` is the point, and objects are modelled as such.
* **Files.** A save writes the whole map to a temporary file and renames it, so
  it replaces the file or leaves it. It can fail at any time (`Saves`). What is
  in memory after a failed save is what the code leaves there. A file that cannot be
  read, decrypted or parsed makes an empty store, with a warning, and the next save
  replaces it (`Loads` in `Membership`). In `Management`,
  where nothing restarts, a save that fails shows in what the request does next. The
  adapter and assignment stores of `Access` are taken to save always.
* **Probes.** The URL that `AdapterService` probes names the namespace `suseai`,
  while `SidecarManager` deploys to `suse-ai-up-mcp`. The answers of a probe are
  therefore free and not tied to the Deployment.
* **Answers of servers.** An answer to "initialize" is a status, a kind of body, a
  challenge and two flags (`Detection!AllAnswers`); each kind stands for the
  bodies between which no branch of the code distinguishes. Elsewhere an answer is
  that there is one, and whose it is.
* **Lists.** In `StreamableHTTP` a server's lists are a version number, a cache
  key what is hashed. A cache entry is the request that made it, since the code
  compares pointers.
* **Registry entries.** An entry is its ID, and lists of entries are sets: the IDs
  of one source differ, and no property depends on the order. `UploadBulk` is a
  series of uploads, the ConfigMap copy of the catalogue is left out, and what a
  plugin service answers to a probe is left out: a health entry is the number of
  the registration it tells of.
* **Pipes.** A line is read whole; the output of a process is a set of answers in
  any order. Notifications and event streams of the stdio bridge are left out.
* **Session ids** that count seconds may be any id, also one in use.

### History variables

Some changes are uncoordinated in the code as it is: two requests on one user at
a time, `UpdateUser` replacing `Groups` without telling the group store,
`DeleteGroup` leaving the group in `user.Groups`. A property that holds "always"
would be false, so the modules record whom such a change has reached, and the
properties speak about all others:

* `Membership.disturbed`: a user whose requests overlapped, whom an operation
  edited on one side only, whose save failed with memory and answer apart, or
  whose request died with the process; whom `UpdateGroup` met in the group or its copy
  of it when the group had changed since it was read; everybody, once a file could not
  be loaded. `edited`: who came or went since an `UpdateGroup` under way read its copy.
* `Access.was`: the groups a request's user was in, for the group store, at any time
  since the request began. `calm`: nothing that the request's decision is made of
  has changed since.
* `AdapterLifecycle.disturbed`: a deletion met a creation still deploying, a
  creation met a leftover request, `UpdateAdapter` rewrote the adapter, a
  deletion had no `SidecarManager`, or an API call or save failed where the code
  does not look. `raced`: two requests at a time. `killed`: a request died with
  the process. `probe`: the last answer of a health probe.
* `AdapterTokens.dead`: tokens that were accepted and then replaced or removed;
  `buried`: those of them when a change was last saved; `disturbed`: adapters whose
  credentials were written back from before a change of the object itself, or that
  a token request brought back.
* `NetworkScan.found`: goroutine and endpoint of every server that was detected.
* `DiscoveryScans.told`: the adapters that registrations were told of; `open` and
  `refused` of a finding: what the server's answers have shown.
* `StreamableHTTP.known`, `stored`: the version when a list, or the capabilities,
  were last forgotten; `overtaken`, `outdated`: requests that store what was fetched
  before; `contended`: sessions used for several adapters at a time.
* `RemoteHTTP.contested`: requests whose id another request or message bore.
* `Management.disturbed`: adapters for which a call of the cluster failed, whose
  deletion could not be saved, or whose requests overlapped in a way `ClusterAgrees`
  leaves out; `for` of a token: the adapter it was given for; `listed` of a revocation:
  the sessions it found and that were given no token since.
* `Registry.disturbed`: entries of the catalogue that somebody deleted, or that a
  failed load left out. `byHand`: entries of no source that a client uploaded or
  that a failed `Clear` left at start.
* `PluginServices.seen`: the services that registered as VirtualMCP. `raced`: the
  services that changed while they were probed, until a probe of the present
  registration is stored.

They are read by properties only, never by a guard.

## 3. The runs

| run | instance and bounds | what it shows |
|---|---|---|
| `membership` | 2 users, 2 groups, 2 requests, every operation, saves that fail as long as one of the two files lags behind its store and not both (`OneFileLags`), restarts, from files that may be unreadable; states in which every user is disturbed are not explored further (nothing is said about them, and `disturbed` only grows) | `AgreeAtRest`, `OnlyOwnGroupDiffers`, `RestartKeepsMemberships`, `AnswersAreTrue` |
| `access` | 1 user, 2 groups (one may assign and read, one manages), 1 membership request at a time, 1 adapter, a handler that asks, updates and assigns, beside one that deletes and takes back or a membership request, not both at the same moment (`TakingApart`); members are added and removed, users deleted, groups created and deleted; of the other handler's requests only questions meet an assignment being taken back (`ChangesApart`); the same cut as in `membership` | `AccessFollowsMembers`, `DecisionsAreRight` |
| `adapter_lifecycle` | 1 adapter, 31 kinds of servers to create it from, 2 groups, 2 requests, every operation, calls refused or answered with an error after they were done, failing saves, restarts with or without a kube config | `SidecarHasAdapter`, `ReadyHasSidecar`, `StatusFollowsProbe`, `AnswersAreTrue`, `SecretsArrive` |
| `adapter_tokens` | 2 adapters, 2 requests at a time, 3 tokens, 4 credential objects, failing saves, restarts; every configuration of credentials | `OldTokensStayDead`, `RestartKeepsChanges`, `CredentialsAgree` |
| `scan_jobs` | 3 jobs, 2 servers | `RemovedJobsAreOver`, `JobsEnd` |
| `network_scan` | 50 requests (ranges that repeat, are networks, empty, endless, none or left out; ports that are one, an interval, nothing or wrong; an excluded address) over addresses of 4 bits, up to 4 targets with two endpoints each, 2 probes at a time, a channel of 1 | `NothingIsLost`, `ScanEnds` |
| `discovery` | 2 servers on one host that answer in every way (5 statuses, 3 challenges; lists of up to 2 items of which the client keeps 1), a scan of `DiscoveryService` for ranges and ports that come to none, each or both of them, beside a `NetworkScanner`, 2 registrations at a time, 2 seconds (`Apart` leaves out the passing of time once the `NetworkScanner` lists a server, and scans that can find nothing any more) | `ToldIsStored`, `OpenServersGuarded`, `ScoresAreEarned` |
| `stdio_bridge` | 2 requests, by JSON-RPC with any of 6 ids or by the REST endpoints with theirs (one of the ids is 1, or both are the same, `SomeIds`), 2 sessions of one process that may stop reading or exit | `NoLeak`, `OwnAnswer`, `AnswerReaches`, `RequestsEnd` |
| `streamable_http` | 2 requests out of 5 kinds (lists with and without parameters, "initialize" to a sidecar, a notification), 2 adapters one of which changes its lists once, 1 session, a response cache of 1 entry | `ForgottenForGood`, `CapabilitiesForgotten`, `CapabilitiesOfOwnAdapter`, `ResponsesImplemented` |
| `remote_http` | 2 requests or streams, 2 sessions, 2 adapters, 2 ids, 1 message a server sends of its own accord; one of the behaviours that differ in the names of sessions, adapters and ids only (`FirstNames`) | `OwnAnswer`, `StoreAgrees`, `EventsStayInSession`, `RequestsEnd` |
| `management` | 2 requests at a time, an adapter that may be of the cluster or of standard streams and one that is never stored, 2 session ids, 3 token objects, at most 1 token and 1 authorization held by sessions at a time, be it by one or by two (`FewAuthorized`), nothing after the adapter was disturbed (`Calm`) | `ClusterAgrees`, `TokensStayRevoked`, `TokensKeepAdapter` |
| `plugin_services` | 1 service with 1 implementation, a catalogue entry and one that only the URL lists, 2 reloads that overlap, the load at start, 2 registrations; of registrations so far and reloads under way at most 2, the second reload before the manager has anything to do, and probes not beside reloads (`FewAtOnce`); saves that fail, restarts | `CatalogueComplete`, `HealthOfRegistered`, `EntriesHaveSource`, `HealthCatchesUp` |

What each of these properties says, and for whom, is stated where it is defined. `SecretsArrive`
and `CredentialsAgree` state, of the moment a sidecar is deployed and an adapter stored, what
the pure modules `Commands` and `Credentials` say of all inputs up to their bounds:
commands of up to four words of eight kinds, and every kind of configuration.

Why the bounds are enough. *Membership*: the properties relate one user with its
groups; the second user shows the effect of whole-file saves and of `UpdateGroup`
writing other people's membership, the second group that a request changes no
group but its own, the second request every pairwise interleaving (any overlap
on the user disturbs it), and a save that fails leaves one file behind its store,
whichever; the theorems then drop the bounds. *Access*: a decision
reads one user and one adapter and looks at groups one by one; two groups differ in
what they permit, the handler that decides meets one that takes away or one
membership request, in every order; `TakingApart` keeps it from meeting both at
once, though it may meet one after the other, and a disagreement takes one of them.
That two handlers both change an adapter is mostly left to the theorems
(`ChangesApart`). `Levels` has "read" alone, since another
string differs from no assignment only by standing in the way of a new one. The
theorems have no bound. *Adapters*: the steps on different
adapters touch disjoint entries of the stores and different cluster objects; two
requests give every pair of operations. The saves of another adapter write this one
too, which can only bring its file up to date; the theorems are about any number of
both. *Tokens*: the second adapter shows
that a save writes everybody's credentials; three tokens make a token that is
replaced, one that replaces it and one that comes between. *Scan jobs*: one job
stuck in `Save`, one behind it, one still scanning. *Network scan*: more targets than
permits and more results than the channel holds, and addresses that repeat; four bits
hold networks of every kind that the expansion tells apart, and `Word` and `MaxIPs` are
as small, so that a network may be small enough, too large, or so large that the number
of its addresses overflows.
*Discovery*: two servers and two seconds give every collision of names. *Stdio
bridge* and *remote proxy*: a clash of ids takes two requests, and names that are
interchangeable need not be told apart. *Streamable HTTP*: two
adapters and two sets of parameters give different keys, a capacity of one makes
every store evict, and one change of the lists tells old from new; no theorem is bound
by any of this. *Management*: any
two requests overlap; the second adapter is there to be named by session requests,
which do not look it up, `FewAuthorized` lets tokens be issued, revoked and issued
again, in a session with an authorization and beside one, and three objects are enough
for a token and the copies that two requests have of earlier ones. `Calm` loses nothing:
no action reads `disturbed`, one adapter only is ever stored, and of it `ClusterAgrees`
says no more. The theorems need none of this. *Plugin
services*: two reloads overlap in every way, at any of their store calls (a reload never
meets the load at start, which is over before the server answers anybody), a
registration meets the probe and the discovery of the one before it, and a `Clear` has
up to three entries to go through. There `FewAtOnce` keeps a reload from meeting the
second registration, the second reload from meeting a registration or the round, and
reloads from meeting probes, with which they share nothing. The
theorems have no bound here either, nor have those about tokens, scans and proxies.

Deadlock is checked except in `scan_jobs` (the last job stuck in `Save` and no
job left to start is the end of the model, the stuck job being the code's),
`remote_http` (the requests are over, and a request is made once),
`adapter_tokens` (no token is left to issue and no adapter to delete) and `discovery`
(everything is scanned and no name is left to register).

### Refinement

`StreamableHTTP!ResponsesImplemented` is `LossyCache!Spec` under a refinement mapping:
what is held under a key is the list in the entry that is there and has not expired;
what a reader got is the list in the entry its `Get` has read. Storing, evicting,
expiring, invalidating, counting a hit and everything done elsewhere are steps or
stutters of `LossyCache`, which says that a reader gets what is held under its key at
that moment or nothing, and that storing one value costs at most one other and keeps
within the capacity. TLC checks it as a property of the run `streamable_http`, and
`StreamableHTTPProofs` proves it.

### Fairness

Safety needs none. `ScanJobs` assumes that a goroutine that can run does and that
`Scan` returns; `TakeLock` is fair only while the mutex is free, which is why
`JobsEnd` holds even behind a stuck `Save` (a job is marked as ended before it
saves). `NetworkScan` assumes that a goroutine that can run does and that a probe
ends, which the HTTP client's timeout guarantees; a goroutine blocked on the
semaphore or the channel owes nothing until it can go on. `StdioBridge` assumes
it of handlers, a write to a process included that has not stopped reading, and of
nothing else: once a request is written the timeout ends the waiting, whatever the MCP
process, its monitor and the listeners do. The write itself has no timeout. `sendToStdio`
writes under the mutex of the process, so a process that stops reading without exiting
(`Stall`, then `Stuck`) holds up the request it is written and all that are behind it;
`RequestsEnd` leaves out a request that is stuck like that for ever, and no other: what
exits in the end, or was read in time, is covered. `RemoteHTTP` assumes it of the handlers and of the
goroutines that copy a stream: calls of servers time out, and a write to a client
that has not stopped reading ends; nothing is assumed of a client that has, and
`RequestsEnd` leaves out the requests that wait for one. `PluginServices` assumes it
of the goroutine that goes round, since its ticker ticks and probes (5 s) and
requests (30 s) time out, and of nothing else.

## 4. The proofs

`AccessProofs` is first about `Membership`, for any sets of users, groups, requests
and operations, disks that fail or not and any number of restarts. The only
assumptions are that `Absent` is no set of users or groups, that a save
succeeds or fails and that a file can be loaded or not.

* `TypeCorrect`: `Spec => []TypeOK`.
* `StoresAgree`: `Spec => []AgreeAtRest`.
* `NoLostUpdate`: `Spec => []OnlyOwnGroupDiffers`.
* `MembershipsSurvive`: `Spec => []RestartKeepsMemberships`.
* `TrueAnswers`: `Spec => AnswersAreTrue`.

*The invariant.* `AgreeAtRest` is not inductive: it says nothing about a user in
the middle of a request, from which the request's last step must bring the stores
together again. `IInv` adds, for each undisturbed user, what is true in the
middle (`HalfDone`: the stores differ in the request's own group only, in which
direction, and the copy the request holds is current), that at most one request
is at work on the user, and that the files tell the same as the memory
(`OnDisk`), without which a restart would bring back anything; the group that
`RemoveUserFromGroup` has already edited out of the stored user's array is the
exception (`Leaving`). Of all requests it says that the copy an `UpdateGroup` will
write back is the group as it is, but for who is in `edited` (`CopiesCurrent`), which
is why a write that disturbs nobody changes nobody's membership, with any number of
requests that add and remove meanwhile.

*The argument.* A step either touches neither side of a user (`OtherSides`,
`CallSides`, then `Frame` and `DiskFrame`) or is one of the user's only request
(`AddStep`, `RemoveStep`, `UpdateStep`, all through `OnlyRequest`); a step that
breaks the pattern puts the user into `disturbed`. A file is written with the
map it belongs to or left alone (`HandlerSaves`), and a failed save either
disturbs the user or did not change its entry (`HandlerOnDisk`). `AnswerOfHandler`
reads the answers off `HalfDone`.

Its second part is about `Access` for any users, groups, adapters, handlers and
permissions, on top of the assumptions above and those of the module
(`AccessAssumption`: what is asked for are operations, permissions are permissions,
and `Absent` and `Stranger` are nobody): `AccessIsByMembers` (`AccessFollowsMembers`)
and `CalmDecisions` (`DecisionsAreRight`). For the first, the invariant `AInv` says that
everything by which a request may still decide, the groups left to look at and the group
that has decided, is within `was`. `GroupsCount` connects the two stores: by `IInv`,
`user.Groups` of an undisturbed user are groups that have the user
as a member, or that a request is just adding or removing. A step of `Access` is a
step of `Membership` (`NextIInv` takes the invariant over) or leaves its state alone,
and `disturbed` only grows (`DisturbedGrows`), so that whoever is left out later was
not needed before. `CalmDecisions` needs none of this. Its invariant `CalmInv` says, for
every step that a calm request may be at, what the steps before have found out
(`Justified`): that none of the groups looked at so far permits it, that the owner is
somebody else. A step either leaves everything the decision is made of alone
(`SameJustified`), makes every request it concerns uncalm, or is the next call of the
request.

`AdapterLifecycleProofs` is about `AdapterLifecycle` for any adapters, groups, requests
and servers, calls that are refused or lost, saves that fail and restarts with or
without a kube config: `TypesHold`, `NoOrphans` (`SidecarHasAdapter`), `TrueAnswers`
(`AnswersAreTrue`), `ReadyMeansDeployed` (`ReadyHasSidecar`), `StatusIsProbed`
(`StatusFollowsProbe`). Assumed is what the module says of its constants: what calls
and saves may do, and that `Absent` is no adapter. What a request may do next is a
matter of the objects that are there, so the invariant goes by its step:

* `OrderInv`: for an undisturbed adapter, which objects each step finds (`Placed`), which
  steps exclude each other (`Apart`), and that memory and file tell of the same adapters
  of the same kind (`Kept`), or a restart would orphan a sidecar. `SidecarHasAdapter` is
  a part of `Kept`.
* `AloneInv`: where no request has begun beside another one, a creation still finds what
  it has stored and assigned. `AnswersAreTrue` follows from both.
* `SettledInv`: a stored sidecar that nobody is deploying or taking away runs, or
  it is `Stillborn`. That case was found in the proof: a creation that panics leaves an
  adapter without sidecar, and what keeps it from ever telling of one is that all copies
  of it, the file's and those of requests, are as it was left.
* `TruthfulInv`: the stored status, every copy about to be written back and the file each
  tell of the last answer, or of none yet.

Each has a lemma per step and one for all adapters that a step is not about
(`OrderlyElsewhere` and the like), which every step that `Untouched` describes falls
under. TLC has found the conjunction of all four to be an invariant of the
`adapter_lifecycle` instance.

`ManagementProofs` is about `Management` for any requests, adapters, kinds and sessions:
`TypesHold`, `ClusterFollows` (`ClusterAgrees`), `TokensStayWithAdapter`
(`TokensKeepAdapter`), `RevocationsHold` (`TokensStayRevoked`). Assumed: `Kinds` gives
adapters kinds, and `None` is neither a kind, a request nor a token. `ClusterAgrees` says nothing
while a request is at work; `ClusterInv` adds what such a request has read or done that
still holds (`Holds`), that two of one undisturbed adapter are never in conflict, and
that a StatefulSet without an adapter is owed by a request at work (`Owes`). Tokens
are given by one action only; of all others `NoneGiven` says that they keep a token
together with the adapter of its session, or take it away. To `TokensKeepAdapter`,
which speaks of sessions and of copies, `TokensInv` adds that all sessions and copies
which have one object are of one adapter, so that `RefreshToken` may write to it.
`RevokeInv` adds, of a revocation under way, that a session
which it found and which has a token is still on its list.

`StreamableHTTPProofs` is about `StreamableHTTP`, and with it `MCPCache`, for any requests,
adapters, sessions, keys, changes of the servers' lists and capacity of the cache:
`TypesHold`, `ListsForgotten` (`ForgottenForGood`), `CapabilitiesStayForgotten`
(`CapabilitiesForgotten`), `OwnCapabilities` (`CapabilitiesOfOwnAdapter`) and
`ResponsesRefined` (`ResponsesImplemented`). Assumed: calls are calls, notifications and
lists name a list, and `None` is none of the values it stands beside. `Placed` says where
each request may be, what it carries there, and that the cache keeps within its limit;
the properties are about what is stored, and what makes each inductive is what is
on the way there: lists not yet stored (`Versioned`), capabilities not yet computed
(`Fresh`), requests not yet at their session (`Owned`). `ResponsesRefined` is a
step simulation: a hit is a read, a step that stores is `LossyCache`'s for the value
stored and the one evicted, ageing loses values (`AgingLoses`), and every other step
leaves what is held and what was read alone. That an eviction frees the room the new
value needs is the one place where cardinalities are counted.

`ScanAndTokenProofs` is in three parts. The first is about `ScanJobs` for any number of
jobs and any servers: `JobsTyped`, `StatusIsTrue` (`StatusTellsScan`), `ScansStayKnown`
(`RemovedJobsAreOver`) and `EndsStay` (`EndIsFinal`). `StatusTellsScan` and
`EndIsFinal` are proved only; what the run adds is `JobsEnd`, that a job ends, and for
good. The assumptions are the two of the module: at least one job, and `Nobody` is
neither a job nor a server. `CancelJob` and `CleanupOldJobs` look at the status only and
`runScan` at nothing but its own progress; `JobsInv` adds to the properties what ties
the two together (`Progress`): a job without an ID has no goroutine, and a job has ended
exactly when its goroutine is past the scan. `EndIsFinal` then follows because no action
but those of the phases before that writes the status.

The second is about `NetworkScan` for any ranges and ports, any number of probes at a
time and any capacity of the channel: `ResultsAreReturned` (`NothingIsLost`). No
assumption on the constants is used. `NetworkInv` counts what was found as collected, in
the channel or about to be sent (`Accounted`). The count is kept only if every find is a
new one: what is in `found` is of an endpoint that its goroutine is done with
(`FoundOnce`). That nothing is left to be sent or collected when `Scan` returns is the
order of its waiting (`Stages`), from the wait group over the closed channel to the
collector.

The third is about `AdapterTokens` for any adapters, requests, credential objects and
number of tokens: `TokensTyped`, `TokensStayDead` (`OldTokensStayDead`),
`RestartsKeepChanges` (`RestartKeepsChanges`), `CredentialsHold` (`CredentialsAgree`).
Assumed: there is a number of tokens, and `None` is no API key. `OldTokensStayDead` says
nothing of what a request has in its hands, and a request that writes its copy back
writes back the object, whatever token is in it by then. `IInv` therefore says who shares
an object: the adapter that has it and the requests that fetched it from there, nobody
else (`Owned`); that no two objects, and no two adapters in the file, have the same token
(`TokensDiffer`, `FileTokensDiffer`), so that none that is replaced lives on in another;
and that a token that is generated is one nobody has had (`Fresh`). `CredentialsHold`
goes by the type of the configuration (`BearerSigned`, `BasicSigned`, `KeySigned`): what
one side signs with is what the other one compares with.

`StdioBridgeProofs` is about `StdioBridge` for any requests, ids, sessions and
adapters: `TypeCorrect`, `NothingLeaks` (`NoLeak`), `AnswersAreOwn` (`OwnAnswer`),
`AnswersReach` (`AnswerReaches`). Assumed: every session's URL names one adapter and
`None` is no request. The entry of an id that two requests share may be overwritten
or deleted by either handler; `IInv` adds what remains true: a request at work
whose id is unique has its entry (`Entered`), and an answer passes the wire once,
after the request was sent (`AnsweredOnce`), so the channel it is put into is
still empty.

`CatalogueProofs` is first about `PluginServices`, and with it `Registry`, for any
entries, sources, services, reloads and registrations: `TypeCorrect`,
`CatalogueStays` (`CatalogueComplete`), `HealthFollows` (`HealthOfRegistered`),
`EntriesAreSourced` (`EntriesHaveSource`). Assumed: the sources list entries, the
load at start is no request, implementations have IDs that no source lists, and
`None` is no registration. `CatalogueComplete` is preserved by itself, which is the
point of `Clear` coming before every upload: a load that may still delete owes
the whole catalogue, a load that does not is only creating. The other two need
more: a probe under way is of the present registration or its service is in
`raced` (`Probes`), whoever is asked has registered (`Asked`), a load creates entries
of its source only (`FromSource`), and `Sourced` says `EntriesHaveSource` from the
moment the load at start has cleared, before the server answers.

Its second part is about `DiscoveryScans`, and with it `Detection`, for any scans,
requests, addresses, answers of servers and number of servers: `ToldTheTruth`
(`ToldIsStored`), `GuardsAreSet` (`OpenServersGuarded`), `ScoresAreTrue`
(`ScoresAreEarned`). Assumed: answers are answers of `Detection` and `Nothing` is none.
Half of the proof is about single answers: what each recognition makes of any of them,
by cases of what it contains (`DetectionSound`, `ParseVerdicts`), and what the
interrogation may still do to the score (`InterrogationSound`; that `AuthRequired` holds
only of an answer that refuses something is `RequiredIsRefused`). The other half carries
that along: `FindingsSound` says it of every finding in the results of a scan, in the
cache and in the list, `Bringing` of the adapter a registration is about to store.

`RemoteHTTPProofs` is about `RemoteHTTP` for any requests, adapters, sessions, ids and
number of messages that servers send of their own accord: `Typed`, `OwnAnswers`
(`OwnAnswer`), `StoreAndProxyAgree` (`StoreAgrees`), `EventsInSession`
(`EventsStayInSession`). Assumed is that `None` is none of the values it stands beside.
`OwnAnswer` speaks of what clients have been answered; that it stays true needs what is
on the way. An entry of `pendingRequests` belongs to a request at work with that id
(`Entries`), an uncontested request is the only one with its id and its entry is there
(`Alone`), so that nothing but its own answer is put into its channel (`Delivered`), which
is there when it waits. For the events, a connection is in its own session and until its
handler returns (`Opened`), and a broadcast under way has only such connections left to
write to (`Writing`), which is what the read lock it holds is for. TLC has found this `IInv`
to be an invariant of the `remote_http` instance, the one of tokens of `adapter_tokens`,
and `NetworkInv`, but for what it says of types, of `network_scan`.

Only model-checked:

* `SecretsArrive`, which is about what `Commands` computes. Templates are replaced, and
  docker commands taken apart, by folds over sequences of words; to prove it for every
  command would take an induction over them. The run goes through all docker commands of
  up to four words behind "docker run", of eight kinds, and all others of up to two.
* That a scan has looked at the addresses asked for, which is a part of `ScanEnds`: the
  ports are flattened by a fold as well. For the same reason `ScanTypeOK` is stated for
  the reader only.
* All liveness properties (`JobsEnd`, `ScanEnds`, `RequestsEnd` of both proxies,
  `HealthCatchesUp`), which are beyond the prover.

## 5. Where code and text disagree

What was met while modelling. All of it is part of the models, where it is either
what a history variable sets aside or what an action does. None has a run of its own.

*Users, groups, access*

* `AddUserToGroup` "updates both group.Members and user.Groups", but writes back a copy
  of the user read before another request's write, so that overlapping changes leave
  the stores in disagreement for good.
* `UpdateGroup` of a name or a description writes back `Members` as read, in an array
  that it shares with the store. If it has read [a, b, c] and a is removed, it writes
  [b, c, c], in which a later removal of c leaves c; if then d is added and removed
  again, it writes [b, c, d].
* `RemoveUserFromGroup` edits the array of the stored user before it calls `Update`
  (`user_group.go:132`), without the store's lock: readers and saves of other users see
  the group gone, or the array half moved, before the request has changed the user.
* A file of users or groups that cannot be read, decrypted or parsed is reported as
  "Failed to load" and replaced by what the empty store is given next.
* `RemoveUserFromGroup` fails for a group that `UpdateUser` or `CreateUser` put into
  `user.Groups`, since no `group.Members` has the user; the user keeps the group.
* `DeleteAdapter` leaves the adapter's group assignments, and a later adapter of the
  same name starts with them (IDs are names). `DeleteGroup` leaves assignments and
  `user.Groups`, and a new group of the same ID has both.
* `GetAdapter` does not ask for the permission "adapter:read" that `ListAdapters` asks
  for. Who updates an adapter becomes its owner ("Ensure user ownership",
  `service.go:983`). `CanAccessServer` decides "based on route assignments" and never
  reads them. Route assignments are changed in place through a shared pointer.
* `ChangePassword` writes back the copy of the user that the middleware read. A JWT
  stays valid after it, and for a user created anew. External groups are mapped at the
  first login only; `parseRancherIDToken` gives the configured `AdminGroups` to everybody.

*Adapters and tokens*

* `DeleteAdapter` ("Delete an adapter and clean up its associated resources",
  `adapters.go:545`) cleans up what exists, and an overlapping `CreateAdapter` goes on
  creating: the sidecar stays without an adapter.
* `DiscoverCapabilities` turns every failure into a server "MCP Server" without tools
  and no error, so `discoverCapabilitiesWithRetry` never tries again, the fallback of
  `discoverCapabilitiesFromSidecar` is never taken (it would dereference nil), and "Set
  status to error if capability discovery fails" is dead code (`Discover`).
* A go command of blanks with a release to download makes `prepareGoReleaseCommand`
  index an empty slice: the request panics and the adapter stays stored, not ready and
  without a sidecar (`Prepare`, "panicked"). The first word of a docker command without
  a dash is taken for the image, the value of an option such as `-p 80:80` included.
* "Only secrets marked with `templated: true` can be used in templates"
  (REGISTRY.md:73); the code takes all of them, and a direct `secrets` of the metadata
  hides those of its `config`. A docker secret nobody gave arrives as the text "$ENV";
  of `-e KEY={{x}}` "ENV=$ENV" is taken for the image. The template of an http URL
  stays, although "Process template variables in the command (URL)". The fallback
  sidecar runs a bare `npx`: the arguments are never deployed. Without a project of a
  known form `prepareGoReleaseCommand` takes the whole command for the program's name.
* A sidecar adapter deleted by a process without a kube config leaves its objects.
* `UpsertAsync` is `Create`. A token request or renewal that overlaps a deletion brings
  the adapter back. A failed renewal (and for an existing adapter every one fails)
  changes the accepted token in memory only; the next GET hands it out unsaved.
* "Return a copy to prevent external modifications" (`adapter_store.go:88`) copies the
  struct and shares `Authentication`.
* A restart invalidates all JWTs, which stay accepted as bearer tokens; tokens that were
  replaced stay "valid" at `token/validate`. Tokens of users for adapters cannot be
  renewed once expired, and `main` never sets their store. `HandleMCPProtocol` does not
  validate client tokens.
* An API key whose location is "Header" works with the remote proxies and with
  `validateClientAuthentication`, not with `MessageRouter` nor the Streamable transport;
  keys that may not be in a cookie, and Basic user names with a colon, do not arrive as
  sent. The defaults that `ValidateAuthConfig` fills in are set in a copy. Adapters of the
  type "oauth" let nobody in. `PUT /auth/password` is routed without `UserAuthMiddleware`
  (`main.go:827`), so it always answers 401.

*Scans and discovery*

* `InMemoryDiscoveryStore.Save` takes its mutex twice (`discovery_store.go:78`): the
  first job that has found anything is stuck for ever.
* `CancelJob` changes the status only; the goroutine overwrites it when it ends.
* A range "first-last" never ends: the test of the loop is
  `!ip.Equal(ns.incIP(endIP))` (`network_scanner.go:271`), which moves `endIP` on in
  every turn. The fairness of `ScanJobs` excludes such a job, `ScanEnds` such a scan. Of a
  network `NetworkScanner.expandCIDR`, which "converts CIDR notation to list of IPs"
  (`network_scanner.go:246`), returns the network's own address only, also for the /24
  networks that `DiscoveryHandler` fills in (`handlers/discovery.go:448`): `ScanEnds`
  compares what was looked at with the addresses that the ranges stand for (`Asked`), and
  of networks with several addresses it only says that no other address is looked at. Ports that do not parse end `Scan` with neither
  results nor errors, and the job is "completed". `DiscoveryService` expands IPv6 networks
  of 64 host bits and more to one address, and adds to every scan the range "localhost",
  which is no address and is skipped.
* `NetworkScanner.Scan` asks the cache in the loop, but goroutines started by the loop
  fill it, so an address that repeats may be probed twice. Both endpoints of one
  server are listed as two servers. `detectMCPServer` always returns an error, so the
  send in `Scan` itself is dead. `GetDiscoveredServer` returns the oldest entry, the
  list of results the newest.
* Interrogation takes any answer from `/mcp` for the answer, a 404 included: a server at
  `/`, or a 401 with a JSON-RPC error, can end with the score "high" despite "Auth
  required = low vulnerability". A list that cannot be read counts as an empty list,
  and what lies behind the 100th tool is not judged.
* A server that denies at `/mcp` and answers at `/` is registered by `DiscoveryService`
  without a guard, as is a result without `serverInfo` and a "basic" one scored high.
  Servers known by "unknown-mcp-server-(auth-required)" collide, `generateAdapterName`
  makes "//host-port" of addresses.
* `DiscoverTools` panics on a successful answer that is no JSON and shorter than 500
  bytes (`string(body)[:500]`), although "adapter will be created without tool
  information". Discovery at creation goes through the gateway, where the adapter is
  not stored yet.

*Requests*

* Stdio bridge: `pendingRequests` is keyed by the client's JSON-RPC id alone, for all
  sessions and adapters, so clients that number alike get each other's answers; the
  REST handlers all use the ids 1 to 6, so that two calls of one kind overwrite each
  other's entry. `handleMCPToolsList` and `makeMCPRequestWithSession` of `main.go` make up a
  session "rest-api-..." and ignore `Mcp-Session-Id`. A session whose process exited keeps it and
  never gets another one. `getRequestID` makes one key of the ids 2, "2" and 1.5. The
  60 s of a request begin after it was written (`stdio_to_http.go:211`, `:328`): before a
  process that does not read it waits without end, and its client's disconnect does not
  wake it.
* `RemoteHTTPProxyAdapter` keys by the id as well. Lines of a server's stream are copied
  to the client without the lock and without the blank line that ends an event,
  possibly after the handler has returned; the client's 60 s timeout ends every such
  copy while keepalives go on. A session keeps the URL and the credentials of its first
  adapter. `Cleanup` looks sessions up by an adapter id.
* `handleSSEStream` stores the MCP session id (`streamable_http.go:174`), and
  `SetWithDetails` of `handleInitialize` (`protocol_handler.go:217`) wipes it, as it wipes
  the tokens of any session it is called for. "initialize" reaches the server twice.
* Caches: `Get` counts a hit for a miss; `Invalidate` with an adapter alone matches
  nothing, with a method alone everything; `evictLRU` evicts what has the fewest hits,
  even when the key is there; a notification forgets only the entry without parameters.
  `HandleNotification` has no caller outside tests. A stale `MCPFunctionality` refills
  the capability cache after an invalidation, and `handleToolsListChanged` writes to a
  session of any adapter.

*Management, registry, plugins*

* `ManagementService.CreateAdapter` stores `CreatedBy` from the context key "user", others
  compare with "userId". `UpdateAdapter` deploys and then always fails; `DeleteAdapter`
  leaves the headless Service; a refresh that overlaps a deletion brings the adapter back
  without its StatefulSet. A deletion that the adapter store cannot save is answered
  with an error, but the adapter is gone, while its sessions and its StatefulSet stay.
* `RefreshToken` writes to a `TokenInfo` that other goroutines read without a lock
  (`ListSessions`, `ForwardMessages`): a data race, of which the model has only that they
  see the new token.
* `ForwardSSE`, `CreateSession`, `StartAuthorization` do not look the adapter up, session
  ids made of seconds collide, `proxySSERequest` wipes the adapter of its session,
  `InitializeMCPConnection` does not return the session id it has made, and "authorized"
  is never stored.
* `UpdateServiceHealth` stores the result of a probe whatever has become of the
  service: after `UnregisterService` the health of the service is found for ever
  (`GetServiceHealth` says otherwise, 404), and after a new registration the old
  one's result stands until the next round (`HealthCatchesUp`).
* Nothing removes the registry entries of a service that unregisters, and a sync
  enters again what a client deleted. A service that registers anew with another
  type while the round is at it is asked all the same.
* A `Clear` that meets another reload's deletion stops with an error, and the
  reload answers "Registry reloaded successfully" with the rest uncleared. A reload
  from the local file never clears, and every start clears what clients uploaded.

## 6. What is not modelled, and the plan

* **Monitoring and security** (`pkg/mcp/monitoring.go`, `security.go`, `pkg/middleware`):
  counters and filters which no other part reads.
* **Infrastructure** (logging, TLS, OpenTelemetry, Kubernetes wrappers, Swagger's
  `docs.go`, Cosmos DB): input and output, wrappers and generated code.
* **Pure conversions**: client configurations, formats of tokens, the lists that handlers
  make of scan results.
* **kubectl**: `SidecarManager` without a client library.
* **The separate server `cmd/registry`** with `pkg/services/registry`, and `cmd/plugins`.
* **Tokens of users for adapters** (`user_adapter_token_store.go`): the store is never set.

Next, most valuable first:

1. `LocalStdio` (`local_stdio.go`): the process table with `Cleanup`, monitor and
   restart; the scanner per call that loses what it has buffered.
2. `FileStore`: the stores' map and file as an abstract durable map, which the
   stores of `Membership`, `AdapterTokens` and `Registry` implement.
3. Circuit breakers and load counters of `MessageRouter`.

Theorems to come: that a request's secrets arrive, and that all addresses are looked
at, once a prover for inductions over sequences is at hand.
