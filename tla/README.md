# TLA+ verification of the umati Dashboard OPC UA Client

The gateway connects to one OPC UA server, finds the machines below its
`Machines` folder, subscribes the values their types select and publishes them
as JSON over MQTT. This directory has TLA+ modules for the parts of it that
keep state, TLC configurations that model-check them, and TLAPS proofs.

Paths below are relative to the repository. Every definition that models code is
listed with its lines in `PROJECT.json`, under `map`.

## 1. Inventory

Three threads run: the **main thread** (`Main.cpp`, `DashboardOpcUaClient::Iterate`:
notifications, publishing every 900 ms, a connection check every 30 s), the
**update thread** (`DashboardMachineObserver`, a round every 10 s) and the
**connect thread** (`OpcUaClient::threadConnectExecution`). Paho adds threads for
its callbacks.

| Component | State | Operations | Interacts with | Hard about it | Correct if |
|---|---|---|---|---|---|
| Machine observer (`MachineObserver/`) | `m_knownMachines`, `m_knownMachineToolsSet`, `m_invalidMachines` (blacklist), `m_dashboardClients`, `m_onlineMachines`, `m_machineNames`, `m_machineIdentificationsCache` | `UpdateMachines` and its steps; `PublishAll`, `publishMachinesList`; start, stop | browses and reads through the client; creates and publishes `DashboardClient`s | two threads on the same maps, some of them unlocked; requests that fail in the middle of a round | the maps agree; a valid machine gets served; the lists are true |
| Machine type search (`browseForMachines`, `isSameOrSubtype`) | `m_superTypes`, `m_subTypeDefinitionToKnownMachineTypeDefinition` | search, walk up the hierarchy | called by the update thread, requests to the server | caches that outlive a failed search | a cached answer is right |
| Subscriptions (`Subscription.cpp`, `DashboardClient::subscribeValue`, `Unsubscribe`) | `nextId`, `m_callbacks`, `m_subscribedValues`, data set storages, the server's items | subscribe, unsubscribe, data change, new session | callbacks write into data sets on the main thread | numbers that are reused; storages freed while items exist | a value reaches its own data set, and no freed one |
| Namespace cache (`updateNamespaceCache`) | `m_uriToIndexCache`, `m_indexToUriCache`, `namespaceArray` | update after a connect or a bad status; comparison with the old cache | every NodeId conversion; requests a reset of `main` | updates on several threads, mostly unlocked | an incompatible change leads to a reset |
| Publication (`DashboardClient::Publish`, `MqttPublisher_Paho`) | last message per topic, connection, retained messages of the broker | publish, connect, `connected`, farewell, last will | broker, Paho | QoS 0, reconnects, restarts, wills | the broker ends up with the current values, and `clientOnline` is right |
| Lifecycle (`Main.cpp`, `DashboardOpcUaClient.cpp`, connect thread) | `running`, `reset`, `m_isConnected`, `m_tryConnecting` | connect, read types, iterate, reset, stop | owns all of the above | loops that do not end; destruction order | the gateway can be stopped and recovers |
| Type reader (`OpcUaTypeReader.cpp`) | `m_typeMap`, `m_expectedObjectTypeNames`, the shared lists of the type trees | `readTypes`: browse, `setupTypeMap`, `updateTypeMap` | the server; observer and clients read it | types share the nodes the merge writes to; failed and truncated requests; repeated after a failure in the middle | a type has the children of all its super types, mandatory where one of them says so; all types are read, or none |
| Value conversion (`UaDataValueToJsonValue.cpp`), custom data types (`CustomDataTypes/`) | the static type tables and their namespace indices | `dataChange`, `readValues2`, `updateCustomDataTypesNamespace` | open62541 decodes with the tables; data sets and identifications hold the JSON | tables that outlive a client; optional members behind null pointers; bodies that cannot be decoded | what is published under a name is what the server sent for it |
| Locks of all of the above | six mutexes, two of them recursive | every operation of the three threads | notifications are delivered inside any request, on any thread | no order is written down | no thread waits for ever, shared state is locked |
| Selection of nodes (`TransformToNodeIds`), JSON (`ModelToJson`), list payload (`PublishMachinesList`), `IdEncode` | none beyond the trees | recursive algorithms | called by the above | partial failures | what is mandatory is there |
| Converters of node ids and names, `TypeDictionary`, `SetupSecurity`, `Util`, `WssTroubleshooter` | none or configuration | | | | |

The hazards of the code, each at its line, are listed in `PROJECT.json` with the
properties that are for them.

## 2. Modules

Each component has a module, an `MC` module that gives its constants values, and a
`Proofs` module. `ValueConversion` and `Locks` have no proofs: the first has recursive
operators over nested values, the second is a finite instance, which TLC covers in full.

### MachineObserver

The update thread and the main thread. A section of code that holds one mutex
throughout is one action; between two such sections the threads interleave.
`updatePc` is the place in `UpdateMachines`: *sleep*, *browse*, *recreate* (the
loop of `removeOfflineMachines(m_knownMachineToolsSet)`), *check*
(`findNewAndOfflineMachines`), *remove*, *new* (the loop over `newMachines`), *add*
and *insert* (the two halves of `addMachine`). The server is `plant`, what it
offers of each machine, and `session`; both change at any time.

`m_invalidMachines` is written by the update thread and read by the main thread
without a common mutex. A traversal that meets a write sees the entry or not
(`ErrorListPayloads`), or crashes (`PublishMachinesListTorn`). An exception that no
handler of the update thread catches ends the process (`BrowseTerminates`).

Abstractions: maps whose values do not matter are sets; an identification is
*none*, *bare* (`Data` only) or *full*; the loop of `findNewAndOfflineMachines`, which
only reads from the server, is one step.

**ServedMachines** is what the observer promises, without threads, rounds and maps: a
machine is served only after it was found complete while it was listed, and served
machines are withdrawn only on a verdict (another list, or an identification that
cannot be read), which is carried out before anything else is judged. The mapping
(`Served` in `MachineObserver`) takes the clients for the served machines, what is left of
the loops *recreate* and *remove* for the verdict, and a machine between the two halves
of `addMachine` for the accepted one; `ImplementsServed` says that the observer implements
it.

### MachineTypes

The search for the configured type of a machine: `isSameOrSubtype` for each known
type, one action per step up the hierarchy, with the two caches. Requests fail
(`RequestFails`, at most `MaxFailures` times); a failure ends one comparison with
`false`. A browse without any result ends the process (`OpcUaClient.cpp:273`), and both caches
with it, so it is no step of the model. That `getNsIndexFromUri` gives 0 for a URI the server
does not know is left out: no configured type is changed by it. `Reset` empties both caches. `before` is a history variable: the failures before the
search at hand.

**TypeLookup** is what the search promises, in one step per type: the first configured super
type in the order of the configuration, or undefined if there is none; a lookup during which
a request failed may miss one. The mapping (`Lookup` in `MachineTypes`) hides the entry of the
type that is being searched for, which the code makes before it knows the answer, and counts
a failure when its search is over; `ImplementsLookup` says that the search implements it.

### Subscription

One action per `Subscribe` and `Unsubscribe` (each is under `m_clientMutex`).
The server's items have the numbers it gave them; callbacks and items carry the
node and the storage they were made for, so that a property can compare them. The
handle object is built with its two numbers exchanged, as in the code. Requests are
refused at most `MaxFaults` times, and a new session (at most `MaxSessions`) begins
with an empty subscription whose numbers start again.

### NamespaceCache

`updateNamespaceCache` as a sequence of actions per thread: copy of the old cache, lock and
request, answer, get, fill, comparison. Each access to one of the two maps is an action of
its own, since another thread may fill them without the mutex: one map is cleared and then
the other, and a round of the filling loop finds, stores the index and stores the URI. The
copy of the array may have a first part only, if another thread is appending to it. The
copy of `m_indexToUriCache` at the beginning and the comparison at the end are one action
each: what they find decides only about the reset. The mutex is held exactly where the code
holds it (through all of the update when `Subscribe` called it). `used`, `overlapped` and
`crowded` are history variables: the entries a client ever worked with, whether two updates
ever ran at once, and whether they did since the last time no update ran. The indices
written into static tables of custom data types are in `ValueConversion`. The unlocked maps may also crash the process (`CacheTorn`).

### Publication

`DashboardClient::Publish` for each machine and all of `MqttPublisher_Paho`, with a
channel that keeps the order of messages and loses them with the link, and a broker
that keeps retained messages and publishes wills. A session that died unnoticed is
`halfOpen`, or counted in `orphans` when its publisher no longer exists: client ids
are random, so the broker does not end it when a new publisher connects.
Paho may still run `connected` while the destructor runs; `lateCallback` is a history
variable that says whether it ever did.
The version topic is left out.

### Gateway

`main`, `DashboardOpcUaClient` and the connect thread. `mainPc` is the place in `main`
(*wait* is `DashboardOpcUaClient::connect`, *types* the loop around `ReadTypes`, *stop*
and *join* the destructors, in their order); `connectPc` is the place in
`threadConnectExecution`. The update thread appears only through what its requests do
to the connection (`checkConnection`, `BadStatus`). The world is `server` (reachable, and
accepts a session), `session`, and `compatible` (the server's namespace table agrees
with the client's cache); any request for a connection may fail with one of the four
status codes after which the connect thread ends.

### DataSet

`addDataSet` for one machine: `TransformToNodeIds` with its exceptions, `browsedNodes` and
placeholders, `subscribeValues`, the callbacks, and `ModelToJson`. `TransformToNodeIds` and
`BrowsePlaceholder` call each other; their call stack is a variable. Each request, return,
exception that leaves a call (`Unwind`, with what the handler of the caller makes of it) and
node that `subscribeValues` visits is a step, and any request may fail (at most `MaxFailures`
times). A request fails as the code lets it: it throws; or the browse for a placeholder
finds less than there is, and nothing says so; or it ends the process, because the missing
results are used (for a child, `OpcUaInterface.hpp:195`; for the super types of a placeholder's
elements, `OpcUaClient.cpp:273`; for the interface of an element, whose empty list passes
`OpcUaClient.cpp:571` and meets `front()` in `DashboardClient.cpp:303`). A run starts from every
small server and type map. Browse names have a namespace; the server is asked with both
parts, `ModelToJson` compares both to skip a child it has written, and writes the Name alone
as key, so that a later field replaces an earlier one of the same Name. `ModelToJson` is a recursive
function over the tree. The history variables are `failures`, `met`, `selected`, `visited` and
`refused`: what happened to the requests and to the nodes. A JSON value is the set of its
leaves with their keys, a value is the node it comes from, and a place in the tree stands for the pointer by which the
code keeps values. Undefined behaviour and an exception out of `getJson` end the process.

### TypeReader

`readTypes`: one action per browse result (`handleBrowseTypeResult`), one per child that
`setupTypeMap` merges into a type, and `updateTypeMap`; an attempt that throws is repeated
by `main`, and a reset begins anew. The server's nodes form a tree in which super types are
parents. A list of children is the set of the nodes in it, and nodes are shared: a merge
that adds to the list of a child adds to it for every type that holds this child, as the
shared pointers of the code do. Which type comes next is left open, since it depends on
the order of NodeIds. A request may throw, or fail or be truncated without a word (`cut`),
at most `MaxFailures` times; a failed request for a modelling rule gives *None* or *Optional*.

### ValueConversion and CustomTypes

`CustomTypes` has the generated tables: the members of the structures the converter reads,
with their types and whether they are optional or arrays, the kinds of all types, and the
encodings by which open62541 finds a type. `ValueConversion` has the path from a value the
server sends to JSON: the decoding of registered types under the indices that
`updateCustomDataTypesNamespace` last wrote, the switch over kinds, and the member by member
conversions, each a sequence of steps (key, member, type, whether the pointer is checked).
Reading through a null pointer or a pointer of another type is *misread*. The server may
restart with another namespace table, after which tables without a namespace keep their
old index. What text a date or a number becomes is left out.

### Locks

Each thread is the sequence of the steps it has still to take, and each operation of the
code is such a sequence: locks, unlocks, reads and writes of shared state, requests,
starts and joins, with alternatives and loops. During any request a notification may be
delivered on the requesting thread, which runs `dataChange` in the middle of the
operation. The loops take any number of turns, so there is no bound.

## 3. Runs

| Run | Question | Bounds | Result |
|---|---|---|---|
| `observer` | do the registries agree under all interleavings; is a good machine served, does the list converge, does the destructor return; is the observer a ServedMachines? | 2 machines, one of them an ignored NodeId; blacklist of 2 rounds; list at every publish | 3 invariants, 3 liveness properties and the refinement hold |
| `routing` | does a value reach its own data set, also after a reconnect; does a removal leave the items of other machines alone, and their callbacks as long as handles and item ids run in step? | 2 machines with 2 nodes, 3 additions, 2 refusals, 2 sessions | 4 invariants hold |
| `frozen` | does every value of a served machine find a callback? (README) | no refusals, 1 session, handles that begin at 1 or (after a reset) at 2 | violated |
| `update` | is every incompatible namespace change detected; what do overlapping updates leave behind? | 2 threads, 4 tables of up to 2 URIs, 1 change or failed read | 2 invariants hold |
| `publish` | does `clientOnline = 1` always have a session, does a connected gateway have the last word about it until a restart, and does the broker end up with the current values? | 1 machine, 2 values, 3 messages on their way, 1 restart | 2 invariants and 2 liveness properties hold |
| `search` | is a cached type right, is the search a TypeLookup, does it end? | 7 types, 3 of them configured, 2 failures | 1 invariant, 1 liveness property and the refinement hold |
| `lifecycle` | does no thread or session outlive its client, is a lost session handled, does a gateway with a server serve, does a signal end it outside the reading of types? | wait of 2 | 1 invariant and 3 liveness properties hold |
| `selection` | are accepted machines complete and complete ones accepted, is each variable monitored once, is the payload true, does nothing unexpected end the process? | 5 nodes, 5 types, 11520 combinations of servers and type maps, 2 failing requests | 5 invariants hold |
| `types` | does the merge over shared lists give each type the definitions of its super types, in any order; are all types read or none; does reading end? | 17 nodes, 7 of them types, 1 failure | 4 invariants and 1 liveness property hold |
| `merged` | does a redefined child keep the children it inherits? (comment in `setupTypeMap`) | no failures | violated |
| `conversion` | is a value of a known type ever misread; do members keep their names and arrays their shape; do results arrive? | 4 namespace tables with restarts between them; every built-in type, every structure with all, none, one or all but one optional member, 8 shapes of arrays | 4 invariants hold |
| `locks` | can threads wait for each other; what is touched by two threads at once? | none: the 3 threads with all their loops | 2 invariants hold |

In the modules with proofs `TypeOK` is a theorem, as are the invariants `KnownAreListed`,
`BlacklistedNotServed`, `NoNameLost`, `NamesUnique`, `AddedBySubtypes`, `MarkExactUntilFailure` and
`NewTableCompared`, which no run repeats.

The violated properties state what a comment or document says; `PROJECT.json`
quotes the line in `findings` and says which code disagrees.

More observations follow from reading the code or are stated in a property
(as its premise or as an exception), and have no run of their own:

* A session that fails while `readNodeClass` runs ends the process: the bad status is
  swallowed, `nodeClassFromNodeId` throws a plain `UmatiException`, and no handler of the
  update thread catches that (`OpcUaClient.cpp:544`; the step `BrowseTerminates`).
* After a lost session, `on_connected` creates a subscription without items: the values
  of served machines stop (`OpcUaClient.cpp:176`; the premise `sessions = 0` of
  `RemovalKeepsItems`).
* After a restart, the will of the previous publisher's session may overwrite
  `clientOnline = 1` for good, because client ids are random (`MqttPublisher_Paho.cpp:107`;
  the premise of `OnlineConvergesUntilRestart`).
* A node that is referenced twice within a machine is checked against its type the
  first time only, and not again after an exception: an instance that lacks mandatory
  nodes can be accepted, against `README.md:14` (`DashboardClient.cpp:138`). What
  `AcceptedIsComplete` says of mandatory children is therefore about the place where a node
  is met first.
* Where a type lists a child twice, a variable that the server refuses at its first place
  and accepts at the second is monitored for the second, which `getJson` leaves out
  (`DashboardClient.cpp:416`, `ModelToJson.cpp:50`; the premise about `refused` of `PayloadTrue`).
* A data set can end the process in three ways: a service whose results are used without a
  look at how many there are fails (see below); an element of a placeholder is a plain
  object without an interface, which is undefined behaviour (`DashboardClient.cpp:303`); or
  it is a variable without children, which makes `ModelToJson` throw (`ModelToJson.cpp:85`).
  `OnlyKnownTerminations` says that there is no fourth.
* The keys of the payload are Names without namespace. Of two children, or two elements of a
  placeholder, whose browse names differ in the namespace only, the later one replaces the
  other, and a value that arrived is not shown; `$TypeDefinition` replaces a child of that
  name (`ModelToJson.cpp:50`, `:57`, `:86`; `Overwritten` in `PayloadTrue`).
* `connected` that runs during `~MqttPublisher_Paho` publishes `clientOnline = 1` behind
  the farewell, and the disconnect discards the will (`MqttPublisher_Paho.cpp:137`):
  the premise `~lateCallback` of `OnlineHasSession`.
* The online topic of a removed machine stays 1, because only 1 is ever sent
  (`DashboardClient.cpp:80`; `doc/publishing_documentation.md:39` says "1 or 0").
* `maxDepth` of `isSameOrSubtype` is decremented and never compared
  (`OpcUaClient.cpp:309`; `OpcUaClient.hpp:89` calls it the maximal search depth).
* The machine list published in the round after a machine was added has an entry
  without `MachineId`, `Topic` and `TypeDefinition`, because the identification is read
  before `addMachine` fills `m_machineNames` (`DashboardMachineObserver.cpp:307`); the
  next round completes it, which `ListConverges` checks.
* Two updates of the namespace cache that overlap may both miss that the table was
  reordered: the second compares with a cache that the first has just cleared
  (`OpcUaClient.cpp:338`; the premise `~overlapped` of `NamespaceChangeDetected`).
* `fillNamespaceCache` holds no mutex, and a round of it may fall between the two statements
  that clear the caches (`OpcUaClient.cpp:333`, `:370`). Its URI is then in `m_uriToIndexCache`
  only, where the other update finds it and skips it: `m_indexToUriCache` lacks the entry, with
  the table unchanged, until an update runs alone (`crowded` in `UnchangedTableSettles`).
* A request that fails during the search for a machine's type leaves its type marked as
  foreign until a reset, although it has a configured super type
  (`MachineObserver.cpp:169`, `OpcUaClient.cpp:324`; `FaultyLookup` of `TypeLookup`).
* The loop around `ReadTypes` looks neither at `running` nor at `reset`: without a server, a
  signal does not end the gateway (`Main.cpp:93`; the exception of
  `SignalEndsUnlessReading`).
* The statement of the callback that is to lock `values_mutex` declares a variable of this
  name (`DashboardClient.cpp:411`). With the blacklist, the namespace caches and the indices
  of the custom data types, this is one of the four races that `RacesAreKnown` names.
* The offset of a row in an array of several dimensions leaves the last dimension out, so
  rows after the first have the wrong elements (`UaDataValueToJsonValue.cpp:675`).
  `ArraysKeepShape` shows that the elements at least are inside the array.
* Of an entity, `Description`, `EntityOriginId` and `IsExternal` are all written to the key
  `Description`, and of the meta data of a joining result, the key `ResultId` has
  `AssemblyType` (`Overloaded` in `ValueConversion`).
* A type table whose namespace the server does not have keeps the index of an earlier
  server, or its initial one, and values of another namespace with the same number are
  then decoded with it (the premise `TablesCurrent` of `KnownTypesNeverMisread`).
* `results` of an answer is dereferenced without a look at its size, which is 0 when the
  service failed (`OpcUaClient.cpp:273`, `OpcUaClient.cpp:437`, `OpcUaClient.cpp:787`,
  `OpcUaInterface.hpp:195`).

**Why the bounds are enough to be of use.** Two machines are needed for one
to disturb the other, and everything the observer does is per machine. A blacklist
of two rounds has a round that skips and one that tries again. Three additions let
a machine be removed and added beside another one. Two threads and one change are
enough for an update to fall into another one; larger instances of `NamespaceCache`
exceed what TLC does in minutes, and the theorems cover all of them. A table with a URI
twice is among the tables: with it, overlapping updates may settle on the later index, so `UnchangedTableSettles` is stated without. In
`Publication`, a channel of 3 holds what one `Publish` and one `connected` send. The
hierarchy of `MachineTypes` has a chain of three types, two of them configured, so that
the walk passes cached and uncached super types and there is more than one type to find. In `Gateway` the bound only
counts the wait, which a theorem covers for every value. The machine of `DataSet` has
each modelling rule, a variable with a property, nodes that can be reached on two paths
and with two types, children and elements of the same Name in two namespaces, and a list
of children that is there twice, as the type reader
leaves those of folders. The types of `TypeReader` are three in a row, so that a child is
defined three times, mandatory in the middle, and a sibling that shares what the others
add to; the theorems cover every other tree. The values of `ValueConversion` differ in one
optional member from all or none, since members are converted independently; the tables
have each namespace at two indices or missing.

**Deadlock** is checked except in the runs of `Subscription`, where only the bound on
additions stops the model, of `Publication`, where the gateway may stay down, of
`Gateway`, where `main` returns, and of `DataSet`, where nothing follows when a machine was
refused. In `Locks`, a
deadlock of some threads while others go on is what `NoWaitCycle` excludes.

**Fairness.** `MachineObserver`: weak fairness of the update thread, of publishing
and of the join; both threads run loops without a wait other than for a mutex that
is released within an action. `MachineTypes`: the update thread goes on.
`TypeReader`: the main thread goes on; failures are bounded, so that they stop.
`Gateway`: the main thread, the connect thread and the requests of the update thread,
one of which is made every 10 s, go on; `VerifyConnection` runs every 30 s on the main
thread. Nothing is assumed of signals.
`Publication`: the main thread publishes every 900 ms and the clock goes on; the
library runs its callback; a link that lasts delivers; the broker expires dead
sessions (strong fairness where the bound on the channel disables an action now and
then). Nothing is assumed of the server, the network or reconnects: properties that
need a lasting session or link say so in their premise.

## 4. Proofs

The proofs hold for every value of the constants that satisfies the `ASSUME` of the
module (disjointness of special values, natural numbers as bounds).

Each module that has a `TypeOK` proves it (`TypeCorrect`); in `DataSet` types are part of the
inductive invariant.

* **MachineObserverProofs.** `TypeOK` is inductive by itself. The registries are not:
  the update thread relates them only through its locals, so `LocalsInv` says, for
  each place in `UpdateMachines`, what `work`, `cur`, `newMachines` and
  `toBeRemovedMachines` may still contain (for instance that a machine about to be
  added is listed, not known and not on the blacklist). From it follow
  `RegistriesAlwaysAgree`, `UnlockedEraseUnreachable` (the unlocked branch of `addMachine` is
  dead code), `KnownAlwaysListed`, `BlacklistRespected` and `ListsAlwaysDisjoint`.
  `ObserverImplementsServed` shows, under the same invariant, that each action is a step of
  ServedMachines or changes nothing of it: one lemma per action, for any machines.
* **SubscriptionProofs.** Client handles are fresh, item ids identify items, storages
  are distinct, and, as long as nothing was refused, each item is owned by a kept
  handle. Then values are never misrouted, nothing is written to a freed storage,
  and, within the first session, a removal keeps the items of others. `ValuesArrive` has
  an invariant of its own: item ids never overtake client handles (`NeverAhead`), since a
  refusal or a new session only sets them back, so once they differ they differ for good;
  while they are equal, each item has twice the same number and its callback (`InStep`).
  That is why exchanging the two numbers goes unnoticed until the first refusal.
* **NamespaceCacheProofs.** While no updates have overlapped, at most one thread is in
  an update, and what the client ever used is in the cache or, during an update, in
  that update's copy. `ChangesAreDetected` follows for any number of updates.
  `UpdatesHealEachOther` is about updates that do overlap. While the table stays the same,
  nothing in either cache is wrong (`CachesSound`), and each copy of the array is the
  table or a first part of it (`Copies`). Unless some thread has yet
  to clear `m_uriToIndexCache`, what is missing there is ahead of some thread that fills it
  (`MissingIsAhead`): a thread that clears it begins to fill after that, and an entry behind one
  thread was entered after the last clearing. With no thread left in an update, nothing is
  missing. For `m_indexToUriCache` this is false, and holds of an update that runs alone:
  what is in one cache is in the other, or about to be stored there (`Paired`).
* **PublicationProofs.** Both results are about the last word on `clientOnline`, on its way or
  at the broker (`LastWord`): a delivery keeps it, a message about another topic behind it
  keeps it, and a message about `clientOnline` becomes it. While the gateway stops, the last
  word is the farewell (`FarewellInv`), unless `connected` ran after it; from this, and from
  messages being on their way only over a link, `OnlineAlwaysHasSession` follows. While a
  gateway in its first life has a link, no dead session is left whose will could come
  (`NoOtherSession`), so its last word stays 1: `ConnectedAlwaysAnnounced`. This is the safety
  part of `OnlineConvergesUntilRestart`.
* **MachineTypesProofs.** The walk stays on super types of the machine's type, and, as
  long as no request of this search failed, the types compared before are no super types
  and the one at hand is still ahead of the walk if it is one (`ExactInv`). The hierarchy is
  arbitrary and may have cycles. `CachedTypeIsReal` and `MarkIsExact` follow, and
  `SearchImplementsLookup`: the steps of a walk change nothing of TypeLookup, and the step that
  ends a search is a lookup, exact unless a failure was counted since its beginning.
* **GatewayProofs.** Which threads and whether a session exist is a function of the place of
  the main thread (`LifeInv`); from this, `ThreadsAreJoined` follows for all paths through the
  destructors. `NewTableIsCompared`: the table changes only while the server is away, and
  with it the session, so that a session with another table is one that the connect thread
  has just established and is about to compare (`SessionInv`).
* **TypeReaderProofs.** For every tree of types, every order of the merges and any failures.
  `Settled` says of a type and a set of definitions that the list has exactly the winning
  ones, by name all of them, and that those which are not optional have the children of
  later ones. It holds of the finished types for all definitions (`Finished`), and of the
  type at hand for the children passed so far (`Merging`), which lie above all that
  remain. Types not yet reached are untouched, and the additions to shared nodes keep names
  unique and come from subtypes (`ChildNamesUnique`, `AddedBySubtypes`). From it follow
  `MergeIsExact`, `NamesAreInherited`, `ListsHaveUniqueNames`, `RedefinitionsAreMerged`,
  `SharingStaysInFamily` and, with `RulesKept`, `MandatoryIsKept`. `ReadsAllOrNothing` rests on
  `NothingDropped`: unless a browse returned too little, a child of a handled node is handled
  or among the open results. When no results are open, the handled nodes are closed under
  children, and therefore all nodes: the one of least depth that is missing would
  have a parent that is not.

* **DataSetProofs.** For all types (also types that contain each other), all servers, any
  number of failing requests. The invariant follows the call stack: the trees that a call has
  collected are as they should be (`TreeOK`), the part of its loop that is done has added
  what it had to (`FrameOK`), each call is about what its caller is at (`Linked`), and what was
  browsed is in a tree or under way as long as nothing failed (`Covers`). A return hands the
  trees to the caller, an exception drops them. From it follow `AcceptedAlwaysComplete`,
  `CompleteAlwaysSelected`, `VariablesAlwaysMonitoredOnce` and `SelectedAlwaysTree`.
  Induction over the tree is stated with a quantifier over sets: `WellFounded` says that a set
  which contains an entry whenever it contains its children contains all of `selected`, and
  each return keeps it, since the tree grows from its leaves. With it, the equation of
  `ModelToJson` is shown to have exactly one solution (`SolutionExists`, `SolutionsAgree`),
  which TLA+ does not promise of a recursive function. Then `OnlyKnownTerminationsHappen`:
  a JSON value without keys comes from a variable without children, and the other ends are
  at a request. `ShownAlwaysTrue`: the keys of a value lead along a path on the server to its
  node, whatever the names are; since keys lack the namespace, a key may lead to several
  nodes, and a set of nodes is followed (`Resolve`). `PayloadAlwaysTrue` says that moreover no
  value is missing but those in a field that another one replaced (`Overwritten`): going from
  a place towards the root, each field is in the one above it or hidden there, and what is
  below a hidden one is overwritten. It needs that no list has a browse name twice
  (`UniqueNames`), which `NamesUnique` of `TypeReader` says of the merged types.

Only model-checked: `ValueConversion` (`KnownTypesNeverMisread`, `FieldsKeepTheirNames`,
`ArraysKeepShape`, `ResultsArrive`), whose values are nested and whose operators are recursive,
which the prover does not support; of `PayloadTrue`, that no value is missing where a type
lists a child twice, as folders may;
`NoWaitCycle` and `RacesAreKnown` of `Locks`, which has no parameters and finitely many states,
so that TLC covers it in full; and liveness (`GoodMachineServed`, `ListConverges`, `StopJoins`,
`DataConverges`, `OnlineConvergesUntilRestart`, `SearchTerminates`, `LostSessionHandled`,
`ServesEventually`, `SignalEndsUnlessReading`, `TypesRead`), which is out of the prover's reach.
Every other property of a passing run is proved.

## 5. Not modelled

* Configuration, logging, certificates and the troubleshooter: pure I/O.
* The payload of the machine list and the names of the topics (`PublishMachinesList`,
  `IdEncode`): stateless functions over characters. Topics are symbols in `Publication`, and
  which machines are listed is in `MachineObserver`.
* Conversions of node ids and names: look-ups in the namespace caches, which are modelled.
* Of the custom data types, sizes and paddings, and the members of structures that the
  converter does not read: generated data.
* `TypeDictionary`: data classes that nothing uses.

`PROJECT.json` has the reason for each.

## 6. Plan

Done: MachineObserver with ServedMachines, MachineTypes with TypeLookup, both refinements,
Subscription, NamespaceCache, Publication, Gateway, DataSet, TypeReader, ValueConversion and Locks. What
remains, most important first:

1. Compositions: MachineObserver with Publication (a machine that is served is the one whose
   topics are sent), and Gateway with NamespaceCache (the incompatible change that requests
   a reset).
2. The names of topics: whether two machines can ever share one.
3. That no value is missing in the payload of a type which lists a child twice, for all types.
4. Proofs of safety parts of the liveness properties, as `ConnectedIsAnnounced` is for
   `OnlineConvergesUntilRestart`.
